--------------------------- MODULE LeaderElection ---------------------------
(***************************************************************************)
(* Finding or starting the one leader process of a machine (ezer-shell:    *)
(* leader/lock.rs, leader/mod.rs connect_or_spawn, agent/app.rs            *)
(* run_leader, leader/server.rs; ezer-file-lock: lock.rs, slot.rs).        *)
(*                                                                         *)
(* A client connects to the socket or, when it wins the flock on           *)
(* leader.lock, spawns a leader, which takes the flock for its lifetime.   *)
(* A leader that returns drops its LeaderLock, which unlinks the lock file *)
(* and the socket and closes the lock, in this order.  A step is one       *)
(* system call on the shared files; a killed process loses its locks and   *)
(* leaves its files.                                                       *)
(*                                                                         *)
(* The holder of a flock is known where /proc/locks exists: on other       *)
(* systems live_ezer_lock_holder is always None, and a leader that holds   *)
(* the lock and never binds keeps every client in its loop.                *)
(*                                                                         *)
(* Left out: an unusable slot directory (attempts run unguarded), write    *)
(* errors, PID reuse, and a wait for the socket whose last attempt comes   *)
(* just before the socket changes.  A client that wins the flock and meets *)
(* a leader below its version floor at the socket evicts it; leaders are   *)
(* spawned at the current version here, so no such leader is met there.    *)
(***************************************************************************)
EXTENDS Integers, FiniteSets

CONSTANTS
    Client,         \* calls of connect_or_spawn
    Leader,         \* PIDs of leader processes, running or to be spawned
    Stale,          \* leaders older than the clients' version floor
    Legacy,         \* those of them that do not support RelaunchForUpdate
    Nobody,         \* no process
    Faults,         \* what goes wrong
    HangAt,         \* where a leader hangs
    MaxFaults,      \* bound: how often something goes wrong
    MaxInode,       \* bound: lock files ever created
    MaxSpawns,      \* MAX_SELF_SPAWN_ATTEMPTS
    MaxEvicts       \* MAX_ZOMBIE_EVICT_ATTEMPTS

ASSUME ElectionAssumption ==
    /\ Client \cap Leader = {} /\ Nobody \notin Client \cup Leader
    /\ Stale \subseteq Leader /\ Legacy \subseteq Stale
    /\ Faults \subseteq {"exit", "kill", "hang", "unkillable"}
    /\ HangAt \subseteq {"opened", "reopened", "won", "clean", "bind", "serving"}
    /\ MaxFaults \in Nat /\ MaxInode \in Nat \ {0} /\ MaxSpawns \in Nat \ {0} /\ MaxEvicts \in Nat

VARIABLES
    pc,             \* where each process is
    lockName,       \* the inode leader.lock names, 0 when there is no file
    inodes,         \* inodes created so far
    fd,             \* the inode each process has open, 0 for none
    flock,          \* the holder of the flock on each inode
    stamp,          \* the PID written in each inode
    sock,           \* whose listener leader.sock names
    slot,           \* the holder of the machine-local acquire slot
    relaunching,    \* leaders that accepted RelaunchForUpdate
    asked,          \* the leader each client is asking to vacate
    timer,          \* the PID each client's ZombieTimer is keyed to
    evict,          \* evict_attempts of each client
    spawns,         \* self_spawn_attempts of each client
    faults,         \* how often something went wrong
    raced           \* history: a lock attempt overlapped a LeaderLock's drop

files == <<lockName, inodes, stamp, sock>>
locks == <<fd, flock, slot>>
counters == <<asked, timer, evict, spawns>>
vars == <<pc, files, locks, relaunching, counters, faults, raced>>

Proc == Client \cup Leader
Inode == 1 .. MaxInode

\* Nothing runs, or a leader of an older version serves.
Init ==
    /\ \/ pc = [p \in Proc |-> IF p \in Client THEN "fast" ELSE "unborn"]
       \/ \E l \in Stale : pc = [p \in Proc |-> IF p \in Client THEN "fast"
                                 ELSE IF p = l THEN "serving" ELSE "unborn"]
    /\ LET up == {l \in Leader : pc[l] = "serving"} IN
       /\ lockName = Cardinality(up) /\ inodes = lockName
       /\ fd = [p \in Proc |-> IF p \in up THEN 1 ELSE 0]
       /\ stamp = [i \in Inode |-> IF i = 1 /\ up # {} THEN CHOOSE l \in up : TRUE
                                   ELSE Nobody]
       /\ flock = stamp
       /\ sock = stamp[1]
    /\ slot = Nobody
    /\ relaunching = {}
    /\ asked = [c \in Client |-> Nobody]
    /\ timer = [c \in Client |-> Nobody]
    /\ evict = [c \in Client |-> [pid |-> Nobody, n |-> 0]]
    /\ spawns = [c \in Client |-> 0]
    /\ faults = 0
    /\ raced = FALSE

Goto(p, s) == pc' = [pc EXCEPT ![p] = s]
Fault(kind) == kind \in Faults /\ faults < MaxFaults /\ faults' = faults + 1

Alive(l) == l \in Leader /\ pc[l] \notin {"unborn", "dead"}
Gone(p) == IF p \in Client THEN "failed" ELSE "dead"
ReadPid == IF lockName = 0 THEN Nobody ELSE stamp[lockName]
ListenerIsReady == sock # Nobody

\* A connection is accepted and answered; refused; or never answered.
Connectable == ListenerIsReady /\ pc[sock] = "serving"
Refused == ListenerIsReady /\ ~Alive(sock)

-----------------------------------------------------------------------------
(* lock_file                                                               *)

\* Take the slot and open the path, which creates the file.
Open(p) ==
    /\ pc[p] \in {"try", "poll"} /\ slot = Nobody
    /\ slot' = p
    /\ \/ lockName # 0 /\ UNCHANGED <<lockName, inodes>>
       \/ lockName = 0 /\ inodes < MaxInode /\ inodes' = inodes + 1 /\ lockName' = inodes'
    /\ fd' = [fd EXCEPT ![p] = lockName']
    /\ Goto(p, IF pc[p] = "try" THEN "opened" ELSE "reopened")
    /\ raced' = (raced \/ \E q \in Leader : pc[q] \in {"unlink sock", "close"})
    /\ UNCHANGED <<flock, stamp, sock, relaunching, counters, faults>>

\* AcquireInProgress: the slot's holder is wedged inside its attempt.
SlotWedged(p) ==
    /\ pc[p] \in {"try", "poll"} /\ slot # Nobody /\ pc[slot] = "hung"
    /\ Goto(p, Gone(p))
    /\ UNCHANGED <<files, locks, relaunching, counters, faults, raced>>

\* One try_lock; the slot is released either way, the file only on failure.
TryLock(p) ==
    LET i == fd[p] IN
    /\ pc[p] \in {"opened", "reopened"}
    /\ slot' = Nobody
    /\ \/ /\ flock[i] = Nobody
          /\ flock' = [flock EXCEPT ![i] = p]
          /\ Goto(p, IF p \in Client THEN "probe" ELSE "won")
          /\ UNCHANGED fd
       \/ /\ flock[i] # Nobody
          /\ fd' = [fd EXCEPT ![p] = 0]
          /\ Goto(p, IF p \in Client THEN "wait"
                     ELSE IF pc[p] = "opened" THEN "lost" ELSE "poll")
          /\ UNCHANGED flock
    /\ UNCHANGED <<files, relaunching, counters, faults, raced>>

\* The kernel closes the descriptors of a process.
Close(p) ==
    /\ fd' = [fd EXCEPT ![p] = 0]
    /\ flock' = [i \in Inode |-> IF flock[i] = p THEN Nobody ELSE flock[i]]
    /\ slot' = IF slot = p THEN Nobody ELSE slot

-----------------------------------------------------------------------------
(* run_leader                                                              *)

\* Another process has the flock: adopt its socket by leaving, or poll.
Lost(l) ==
    /\ pc[l] = "lost"
    /\ Goto(l, IF ListenerIsReady THEN "dead" ELSE "poll")
    /\ UNCHANGED <<files, locks, relaunching, counters, faults, raced>>

\* LEADER_ACQUIRE_TIMEOUT
PollTimeout(l) ==
    /\ pc[l] = "poll"
    /\ Goto(l, "dead")
    /\ UNCHANGED <<files, locks, relaunching, counters, faults, raced>>

WritePid(l) ==
    /\ pc[l] = "won"
    /\ stamp' = [stamp EXCEPT ![fd[l]] = l]
    /\ Goto(l, "clean")
    /\ UNCHANGED <<lockName, inodes, sock, locks, relaunching, counters, faults, raced>>

CleanupSocket(l) ==
    /\ pc[l] = "clean"
    /\ sock' = Nobody
    /\ Goto(l, "bind")
    /\ UNCHANGED <<lockName, inodes, stamp, locks, relaunching, counters, faults, raced>>

\* run_leader_server removes what is at the path and binds there.
Bind(l) ==
    /\ pc[l] = "bind"
    /\ sock' = l
    /\ Goto(l, "serving")
    /\ UNCHANGED <<lockName, inodes, stamp, locks, relaunching, counters, faults, raced>>

(* Mutant: the lock is given up before the uploads have drained.            *)
ServerStopUnlocks(l) ==
    /\ pc[l] = "serving"
    /\ Close(l)
    /\ Goto(l, "drain")
    /\ UNCHANGED <<files, relaunching, counters, raced>>

\* The leader is cancelled: the server leaves its loop, and the lock is
\* dropped after the uploads have drained.
ServerStop(l) ==
    /\ pc[l] = "serving"
    /\ Goto(l, "drain")
    /\ UNCHANGED <<files, locks, relaunching, counters, raced>>

\* The server's task, which a cancelled leader does not wait for, removes
\* the socket before or amid the drop of the lock, or not at all when the
\* process ends first.  After a race it may be another leader's.
RemoveSocket(l) ==
    /\ pc[l] \in {"drain", "unlink sock", "close"} /\ ListenerIsReady
    /\ sock' = Nobody
    /\ UNCHANGED <<pc, lockName, inodes, stamp, locks, relaunching, counters, faults, raced>>

Relaunch(l) == l \in relaunching /\ ServerStop(l) /\ UNCHANGED faults

\* LeaderLock::drop: the lock file, the socket, and then the lock.
UnlinkLock(l) ==
    /\ pc[l] = "drain"
    /\ lockName' = 0
    /\ Goto(l, "unlink sock")
    /\ raced' = (raced \/ lockName # fd[l]
                   \/ \E q \in Proc \ {l} : fd[q] # 0)
    /\ UNCHANGED <<inodes, stamp, sock, locks, relaunching, counters, faults>>

UnlinkSock(l) ==
    /\ pc[l] = "unlink sock"
    /\ sock' = Nobody
    /\ Goto(l, "close")
    /\ UNCHANGED <<lockName, inodes, stamp, locks, relaunching, counters, faults, raced>>

CloseLock(l) ==
    /\ pc[l] = "close"
    /\ Close(l)
    /\ Goto(l, "dead")
    /\ UNCHANGED <<files, relaunching, counters, faults, raced>>

-----------------------------------------------------------------------------
(* connect_or_spawn                                                        *)

\* Keep the leader of a connection, or drop it when it is below the floor.
Adopt(c, else) == Goto(c, IF sock \in Stale THEN else ELSE "connected")

\* Before the loop: a socket whose PID is not known to be dead is tried.
FastPath(c) ==
    /\ pc[c] = "fast"
    /\ \/ Connectable /\ (ReadPid = Nobody \/ Alive(ReadPid)) /\ Adopt(c, "try")
       \/ ~(Connectable /\ (ReadPid = Nobody \/ Alive(ReadPid))) /\ Goto(c, "try")
    /\ UNCHANGED <<files, locks, relaunching, counters, faults, raced>>

\* A live leader has its PID in the file the path names, and answers.
Sibling == Connectable /\ Alive(ReadPid)

\* The flock was won on a file that is no longer at the path, and a leader
\* that another client spawned serves: adopt it.
AdoptSibling(c) ==
    /\ pc[c] = "probe" /\ Sibling
    /\ Close(c)
    /\ Goto(c, "connected")
    /\ UNCHANGED <<files, relaunching, counters, faults, raced>>

(* Mutant: was_leader stays set, so the spawner's drop removes the files.    *)
ReleaseKeepsWasLeader(c) ==
    /\ pc[c] = "probe" /\ ~Sibling
    /\ Close(c)
    /\ lockName' = 0 /\ sock' = Nobody
    /\ Goto(c, "spawn")
    /\ UNCHANGED <<inodes, stamp, relaunching, counters, faults, raced>>

\* The flock is won: release() clears was_leader, so no file is removed.
Release(c) ==
    /\ pc[c] = "probe" /\ ~Sibling
    /\ Close(c)
    /\ Goto(c, "spawn")
    /\ UNCHANGED <<files, relaunching, counters, faults, raced>>

\* spawn_leader_subprocess.  Once the PIDs are used up it fails, or starts
\* a process that dies at once.
SpawnLeader(c) ==
    LET unborn == {l \in Leader \ Stale : pc[l] = "unborn"} IN
    /\ pc[c] = "spawn"
    /\ \/ \E l \in unborn : pc' = [pc EXCEPT ![c] = "await", ![l] = "try"]
       \/ unborn = {} /\ (Goto(c, "failed") \/ Goto(c, "await"))
    /\ UNCHANGED <<files, locks, relaunching, counters, faults, raced>>

(* Mutant: a leader of any version is asked to vacate.                      *)
ConnectedAsksAny(c) ==
    /\ pc[c] \in {"await", "wait"} /\ Connectable
    /\ Goto(c, IF pc[c] = "wait" THEN "ask" ELSE "connected")
    /\ timer' = [timer EXCEPT ![c] = IF pc[c] = "wait" THEN Nobody ELSE @]
    /\ asked' = [asked EXCEPT ![c] = IF pc[c] = "wait" THEN sock ELSE Nobody]
    /\ UNCHANGED <<files, locks, relaunching, evict, spawns, faults, raced>>

\* wait_for_socket_connectable answers, after a spawn or behind the flock.
\* A stale leader that holds the flock is to be asked to vacate.
Connected(c) ==
    /\ pc[c] \in {"await", "wait"} /\ Connectable
    /\ \/ pc[c] = "await" /\ Goto(c, "connected") /\ UNCHANGED <<asked, timer>>
       \/ /\ pc[c] = "wait" /\ Adopt(c, "ask")
          /\ timer' = [timer EXCEPT ![c] = Nobody]
          /\ asked' = [asked EXCEPT ![c] = IF sock \in Stale THEN sock ELSE Nobody]
    /\ UNCHANGED <<files, locks, relaunching, evict, spawns, faults, raced>>

\* send_control registers the request and sends it.  A connection closed
\* before that has its pending requests cleared before or after this one
\* is among them: it fails, or nobody is left to end its await.
Ask(c) ==
    LET l == asked[c] IN
    /\ pc[c] = "ask" /\ l \notin Legacy
    /\ \/ pc[l] \in {"serving", "hung"} /\ Goto(c, "vacate") /\ UNCHANGED asked
       \/ /\ pc[l] \notin {"serving", "hung"}
          /\ Goto(c, "try") \/ Goto(c, "vacate")
          /\ asked' = [asked EXCEPT ![c] = Nobody]
    /\ UNCHANGED <<files, locks, relaunching, timer, evict, spawns, faults, raced>>

\* The answer: accepted, or declined when the leader relaunches already;
\* the connection of a leader that leaves or dies is closed.  A hung leader
\* does not answer, and the await has no timeout.
Vacated(c) ==
    LET l == asked[c] IN
    /\ pc[c] = "vacate" /\ l # Nobody /\ pc[l] # "hung"
    /\ relaunching' = IF pc[l] = "serving" THEN relaunching \cup {l} ELSE relaunching
    /\ asked' = [asked EXCEPT ![c] = Nobody]
    /\ Goto(c, "try")
    /\ UNCHANGED <<files, locks, timer, evict, spawns, faults, raced>>

\* Signals end a process, except in an uninterruptible wait.
Killable(l) == Alive(l) /\ ~("unkillable" \in Faults /\ pc[l] = "hung")
Terminate(c, l) ==
    \/ Killable(l) /\ Close(l) /\ pc' = [pc EXCEPT ![c] = "try", ![l] = "dead"]
    \/ ~Killable(l) /\ Goto(c, "try") /\ UNCHANGED locks

\* A leader that cannot relaunch: SIGTERM to the PID on file.
Signal(c) ==
    /\ pc[c] = "ask" /\ asked[c] \in Legacy
    /\ Terminate(c, ReadPid)
    /\ asked' = [asked EXCEPT ![c] = Nobody]
    /\ UNCHANGED <<files, relaunching, timer, evict, spawns, faults, raced>>

\* The spawned leader is not connectable after SPAWN_WAIT_TIMEOUT; only a
\* wait that never saw an error is retried, and an error may be that of an
\* earlier attempt of this wait.
AwaitTimeout(c) ==
    LET n == spawns[c] + 1 IN
    /\ pc[c] = "await" /\ ~Connectable
    /\ \/ /\ ~ListenerIsReady
          /\ spawns' = [spawns EXCEPT ![c] = n]
          /\ Goto(c, IF n >= MaxSpawns THEN "failed" ELSE "try")
       \/ Goto(c, "failed") /\ UNCHANGED spawns
    /\ UNCHANGED <<files, locks, relaunching, asked, timer, evict, faults, raced>>

\* live_ezer_lock_holder: the PID on file, when it holds the flock and is
\* a live leader.
LiveHolder == IF lockName # 0 /\ flock[lockName] = ReadPid /\ Alive(ReadPid)
              THEN ReadPid ELSE Nobody

(* Mutant: the attempts against one PID are not counted.                    *)
EvictAttemptUncounted(c, l) == [pid |-> l, n |-> 1]

\* register_evict_attempt
EvictAttempt(c, l) == [pid |-> l, n |-> IF evict[c].pid = l THEN evict[c].n + 1 ELSE 1]

\* A holder that answers nothing: zombie_evict_decision.
WaitTimeout(c) ==
    LET h == LiveHolder IN
    /\ pc[c] = "wait" /\ ~Connectable
    /\ \/ \* the socket answered, now or earlier, but not to the registration
          Goto(c, "failed") /\ UNCHANGED <<timer, evict>>
       \/ \* Clear, or Wait with the timer keyed to this holder
          /\ ~ListenerIsReady \/ Refused
          /\ h = Nobody \/ timer[c] # h
          /\ timer' = [timer EXCEPT ![c] = h]
          /\ Goto(c, "try") /\ UNCHANGED evict
       \/ \* Evict: the same holder for ZOMBIE_EVICT_DEADLINE
          /\ ~ListenerIsReady \/ Refused
          /\ h # Nobody /\ timer[c] = h
          /\ timer' = [timer EXCEPT ![c] = Nobody]
          /\ evict' = [evict EXCEPT ![c] = EvictAttempt(c, h)]
          /\ Goto(c, IF evict'[c].n <= MaxEvicts THEN "evict" ELSE "failed")
    /\ UNCHANGED <<files, locks, relaunching, asked, spawns, faults, raced>>

\* SIGTERM, then SIGKILL.
EvictZombie(c) ==
    /\ pc[c] = "evict"
    /\ Terminate(c, evict[c].pid)
    /\ UNCHANGED <<files, relaunching, counters, faults, raced>>

-----------------------------------------------------------------------------
(* Faults                                                                  *)

\* SIGKILL, or a SIGTERM, which the leader does not handle.
Kill(l) ==
    /\ Alive(l) /\ pc[l] # "hung" /\ Fault("kill")
    /\ Close(l)
    /\ Goto(l, "dead")
    /\ UNCHANGED <<files, relaunching, counters, raced>>

\* The leader found an update by itself, or was told to stop.
Exit(l) == Fault("exit") /\ ServerStop(l)

Hang(l) ==
    /\ pc[l] \in HangAt /\ Fault("hang")
    /\ Goto(l, "hung")
    /\ UNCHANGED <<files, locks, relaunching, counters, raced>>

-----------------------------------------------------------------------------
LeaderStep(l) ==
    \/ Open(l) \/ SlotWedged(l) \/ TryLock(l) \/ Lost(l) \/ WritePid(l)
    \/ CleanupSocket(l) \/ Bind(l) \/ Relaunch(l) \/ RemoveSocket(l)
    \/ UnlinkLock(l) \/ UnlinkSock(l) \/ CloseLock(l)

ClientStep(c) ==
    \/ FastPath(c) \/ Open(c) \/ SlotWedged(c) \/ TryLock(c) \/ AdoptSibling(c)
    \/ Release(c) \/ SpawnLeader(c) \/ Connected(c) \/ Ask(c) \/ Vacated(c) \/ Signal(c)
    \/ AwaitTimeout(c) \/ WaitTimeout(c) \/ EvictZombie(c)

Next ==
    \/ \E c \in Client : ClientStep(c)
    \/ \E l \in Leader : LeaderStep(l) \/ PollTimeout(l)
                         \/ Exit(l) \/ Kill(l) \/ Hang(l)

\* A process that can move does, a leader that accepted a relaunch leaves
\* after its grace, and the poll for the flock has a deadline.
Fairness ==
    /\ \A c \in Client : WF_vars(ClientStep(c))
    /\ \A l \in Leader : WF_vars(LeaderStep(l)) /\ SF_vars(PollTimeout(l))

Spec == Init /\ [][Next]_vars /\ Fairness

-----------------------------------------------------------------------------
TypeOK ==
    /\ pc \in [Proc -> {"fast", "unborn", "try", "opened", "poll", "reopened", "probe",
                        "spawn", "await", "wait", "ask", "vacate", "evict", "connected",
                        "failed", "won", "lost", "clean", "bind", "serving", "drain",
                        "unlink sock", "close", "hung", "dead"}]
    /\ lockName \in 0 .. inodes /\ inodes \in {0} \cup Inode
    /\ fd \in [Proc -> {0} \cup Inode]
    /\ flock \in [Inode -> Proc \cup {Nobody}]
    /\ stamp \in [Inode -> Leader \cup {Nobody}]
    /\ sock \in Leader \cup {Nobody}
    /\ slot \in Proc \cup {Nobody}
    /\ relaunching \subseteq Stale
    /\ asked \in [Client -> Stale \cup {Nobody}]
    /\ timer \in [Client -> Leader \cup {Nobody}]
    /\ evict \in [Client -> [pid : Leader \cup {Nobody}, n : 0 .. MaxEvicts + 1]]
    /\ spawns \in [Client -> 0 .. MaxSpawns]
    /\ faults \in 0 .. MaxFaults
    /\ raced \in BOOLEAN

Serving == {l \in Leader : pc[l] = "serving"}

(* One process at a time leads, under the lock the path names and at the    *)
(* socket.  The only way out is a lock attempt that overlaps the drop of    *)
(* another leader's LeaderLock: the file is unlinked while the attempt has  *)
(* it open, or the attempt creates a new one before the old leader has      *)
(* removed the socket.                                                      *)
OneLeaderUnlessRaced ==
    ~raced => /\ Cardinality(Serving) <= 1
              /\ \A l \in Serving : sock = l /\ fd[l] = lockName /\ flock[fd[l]] = l

(* Whoever wins the flock finds no live leader's PID in the file it won: a  *)
(* leader keeps its lock for as long as it runs.  The leader a client       *)
(* adopts or evicts at that point is therefore that of another lock file.   *)
StampOutlivesNoHolder ==
    \A c \in Client : pc[c] = "probe" => ~Alive(stamp[fd[c]])

\* A control request that nothing will answer: its leader hangs, or its
\* connection was closed before the request was registered.
Unanswered(c) == pc[c] = "vacate" /\ (asked[c] = Nobody \/ pc[asked[c]] = "hung")

(* No stale, dead or hung leader, and no race, keeps a client in the loop   *)
(* of connect_or_spawn: every call ends in a connection or an error, or in  *)
(* the await of a request to vacate, which has no timeout, behind a leader  *)
(* that registered the client and then hung or left.  The other exception   *)
(* is a leader that hangs before its PID is on file, which nobody can       *)
(* confirm as the holder; HangAt leaves it out.                             *)
ClientSettles == \A c \in Client : <>(pc[c] \in {"connected", "failed"} \/ Unanswered(c))
=============================================================================

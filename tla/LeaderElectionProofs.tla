------------------------ MODULE LeaderElectionProofs ------------------------
(***************************************************************************)
(* For any number of clients and leaders, any faults and any number of     *)
(* lock files: one leader at a time unless a lock attempt overlaps a drop, *)
(* and no live leader's PID in a file whose lock is free to win.           *)
(***************************************************************************)
EXTENDS LeaderElection, FiniteSetTheorems, TLAPS

Trying == {"opened", "reopened"}
Leading == {"won", "clean", "bind", "serving", "drain", "unlink sock", "close"}
Dropping == {"unlink sock", "close"}
Points == {"fast", "unborn", "try", "opened", "poll", "reopened", "probe",
           "spawn", "await", "wait", "ask", "vacate", "evict", "connected", "failed", "won",
           "lost", "clean", "bind", "serving", "drain", "unlink sock",
           "close", "hung", "dead"}

\* The points of a client and of a leader.
Roles ==
    /\ \A c \in Client : pc[c] \in {"fast", "try", "opened", "probe", "spawn", "await",
                                    "wait", "ask", "vacate", "evict", "connected", "failed"}
    /\ \A l \in Leader : pc[l] \in Points \ {"fast", "probe", "spawn", "await", "wait",
                                             "ask", "vacate", "evict", "connected", "failed"}

\* A client that goes on has not used up its attempts.
Attempts ==
    \A c \in Client :
        /\ pc[c] # "failed" => spawns[c] < MaxSpawns /\ evict[c].n <= MaxEvicts
        /\ pc[c] = "evict" => evict[c].pid \in Leader

\* A descriptor is open exactly from the attempt to the close, and the lock
\* on it held from its win.
Descriptors ==
    \A p \in Proc :
        /\ fd[p] <= inodes
        /\ pc[p] \in Trying \cup Leading \cup {"probe"} => fd[p] # 0
        /\ pc[p] \in Leading \cup {"probe"} => flock[fd[p]] = p
        /\ pc[p] \notin Trying \cup Leading \cup {"probe", "hung"} => fd[p] = 0
Holders ==
    \A i \in Inode : flock[i] # Nobody => /\ fd[flock[i]] = i
                                          /\ pc[flock[i]] \in Leading \cup {"probe", "hung"}

\* A leader that has written its PID to a file keeps the lock on it for as
\* long as it lives.
Stamps ==
    \A i \in Inode : stamp[i] # Nobody =>
        /\ pc[stamp[i]] # "unborn"
        /\ pc[stamp[i]] # "dead" => flock[i] = stamp[i]

\* Unless there was a race, every open descriptor is of the file at the
\* path, or of a leader's that is dropping it, and then there is no other.
OneFile ==
    ~raced =>
        /\ \A p \in Proc : fd[p] \in {0, lockName} \/ pc[p] \in Dropping
        /\ \A p, q \in Proc : pc[p] \in Dropping /\ q # p => lockName = 0 /\ fd[q] = 0

Sockets == ~raced => \A l \in Leader : pc[l] = "serving" => sock = l

(* TypeOK in two parts: the program points, and the other variables.         *)
PointsTyped == pc \in [Proc -> Points]
FilesTyped ==
    /\ lockName \in 0 .. inodes /\ inodes \in {0} \cup Inode
    /\ fd \in [Proc -> {0} \cup Inode]
    /\ flock \in [Inode -> Proc \cup {Nobody}]
    /\ stamp \in [Inode -> Leader \cup {Nobody}]
    /\ sock \in Leader \cup {Nobody}
    /\ slot \in Proc \cup {Nobody}
    /\ raced \in BOOLEAN
CountersTyped ==
    /\ relaunching \subseteq Stale
    /\ asked \in [Client -> Stale \cup {Nobody}]
    /\ timer \in [Client -> Leader \cup {Nobody}]
    /\ evict \in [Client -> [pid : Leader \cup {Nobody}, n : 0 .. MaxEvicts + 1]]
    /\ spawns \in [Client -> 0 .. MaxSpawns]
    /\ faults \in 0 .. MaxFaults

Core == Descriptors /\ Holders /\ Stamps /\ OneFile /\ Sockets
IInv == PointsTyped /\ FilesTyped /\ CountersTyped /\ Roles /\ Attempts /\ Core

-----------------------------------------------------------------------------
LEMMA TypeParts == PointsTyped /\ FilesTyped /\ CountersTyped => TypeOK
  BY DEF TypeOK, PointsTyped, FilesTyped, CountersTyped, Points

LEMMA Names ==
    /\ Nobody \notin Proc /\ Client \subseteq Proc /\ Leader \subseteq Proc
    /\ \A c \in Client, l \in Leader : c # l
    /\ 0 \notin Inode /\ Inode \subseteq Nat /\ 1 \in Inode
  BY ElectionAssumption DEF Proc, Inode

\* Where a process has nothing open.
Off == Points \ (Trying \cup Leading \cup {"probe", "hung"})

\* A process goes on without opening anything, and nobody rises from the dead.
Walks(p) ==
    /\ pc[p] \in Off /\ pc'[p] \in Off
    /\ pc'[p] # "unborn" /\ (pc[p] = "dead" => pc'[p] = "dead")

LEMMA WalksKeep ==
    ASSUME IInv, UNCHANGED <<files, locks, raced>>, PointsTyped',
           \A p \in Proc : pc'[p] = pc[p] \/ Walks(p)
    PROVE  Core'
  <1>u. UNCHANGED <<lockName, inodes, stamp, sock, fd, flock, slot, raced>>
    BY DEF files, locks
  <1>p. \A p \in Proc : \/ pc'[p] = pc[p]
                        \/ /\ pc[p] \notin Trying \cup Leading \cup {"probe", "hung"}
                           /\ pc'[p] \notin Trying \cup Leading \cup {"probe", "hung"}
                           /\ pc'[p] # "unborn" /\ (pc[p] = "dead" => pc'[p] = "dead")
    BY DEF Walks, Off
  <1>1. Descriptors'
    BY <1>u, <1>p DEF IInv, Core, Descriptors
  <1>2. Holders'
    BY <1>u, <1>p DEF IInv, Core, Holders, FilesTyped
  <1>3. Stamps'
    BY <1>u, <1>p, Names DEF IInv, Core, Stamps, FilesTyped
  <1>4. OneFile'
    <2>1. \A p \in Proc : pc'[p] \in Dropping <=> pc[p] \in Dropping
      BY <1>p DEF Dropping, Leading
    <2> QED
      BY <1>u, <2>1 DEF IInv, Core, OneFile
  <1>5. Sockets'
    <2>1. \A l \in Leader : pc'[l] = "serving" => pc[l] = "serving"
      BY <1>p, Names DEF Leading
    <2> QED
      BY <1>u, <2>1 DEF IInv, Core, Sockets
  <1> QED
    BY <1>1, <1>2, <1>3, <1>4, <1>5 DEF Core

\* A process closes its files; a leader does so only when it ends.
LEMMA ClosesKeep ==
    ASSUME IInv, NEW p \in Proc, Close(p), UNCHANGED <<files, raced>>, PointsTyped',
           pc'[p] \in Off, pc'[p] # "unborn", p \in Leader => pc'[p] = "dead",
           \A q \in Proc \ {p} : pc'[q] = pc[q] \/ Walks(q)
    PROVE  Core' /\ FilesTyped'
  <1>u. UNCHANGED <<lockName, inodes, stamp, sock, raced>>
    BY DEF files
  <1>c. /\ fd' \in [Proc -> {0} \cup Inode] /\ fd'[p] = 0
        /\ \A q \in Proc \ {p} : fd'[q] = fd[q]
        /\ flock' \in [Inode -> Proc \cup {Nobody}]
        /\ \A i \in Inode : flock'[i] = IF flock[i] = p THEN Nobody ELSE flock[i]
        /\ slot' \in Proc \cup {Nobody}
    BY DEF Close, IInv, FilesTyped
  <1>p. /\ pc'[p] \notin Trying \cup Leading \cup {"probe", "hung"}
        /\ \A q \in Proc \ {p} :
              \/ pc'[q] = pc[q]
              \/ /\ pc[q] \notin Trying \cup Leading \cup {"probe", "hung"}
                 /\ pc'[q] \notin Trying \cup Leading \cup {"probe", "hung"}
                 /\ pc'[q] # "unborn" /\ (pc[q] = "dead" => pc'[q] = "dead")
    BY DEF Walks, Off
  <1>i. inodes = 0 \/ inodes \in Inode
    BY DEF IInv, FilesTyped
  <1>n. 0 <= inodes
    BY <1>i, Names
  <1>0. FilesTyped'
    BY <1>u, <1>c DEF IInv, FilesTyped
  <1>1. Descriptors'
    <2>1. \A q \in Proc : pc'[q] \in Trying \cup Leading \cup {"probe"} => pc'[q] = pc[q] /\ q # p
      BY <1>p
    <2>2. \A q \in Proc : pc[q] \in Trying \cup Leading \cup {"probe"} => fd[q] \in Inode
      BY DEF IInv, FilesTyped, Core, Descriptors
    <2>3. \A q \in Proc : fd'[q] <= inodes
      BY <1>c, <1>n DEF IInv, Core, Descriptors
    <2>4. \A q \in Proc : pc'[q] \notin Trying \cup Leading \cup {"probe", "hung"} => fd'[q] = 0
      BY <1>c, <1>p DEF IInv, Core, Descriptors
    <2>5. \A q \in Proc : /\ pc'[q] \in Trying \cup Leading \cup {"probe"} => fd'[q] # 0
                          /\ pc'[q] \in Leading \cup {"probe"} => flock'[fd'[q]] = q
      BY <1>c, <2>1, <2>2 DEF IInv, Core, Descriptors
    <2> QED
      BY <1>u, <2>3, <2>4, <2>5 DEF Descriptors
  <1>2. Holders'
    <2>1. SUFFICES ASSUME NEW i \in Inode, flock'[i] # Nobody
                   PROVE  fd'[flock'[i]] = i /\ pc'[flock'[i]] \in Leading \cup {"probe", "hung"}
      BY DEF Holders
    <2>2. flock'[i] = flock[i] /\ flock[i] # p /\ flock[i] \in Proc
      BY <1>c, <2>1
    <2> QED
      BY <1>c, <1>p, <2>1, <2>2 DEF IInv, Core, Holders
  <1>3. Stamps'
    <2>1. SUFFICES ASSUME NEW i \in Inode, stamp[i] # Nobody
                   PROVE  /\ pc'[stamp[i]] # "unborn"
                          /\ pc'[stamp[i]] # "dead" => flock'[i] = stamp[i]
      BY <1>u DEF Stamps
    <2>2. stamp[i] \in Leader /\ pc[stamp[i]] # "unborn" /\ (pc[stamp[i]] # "dead" => flock[i] = stamp[i])
      BY <2>1 DEF IInv, FilesTyped, Core, Stamps
    <2>3. stamp[i] \in Proc /\ (stamp[i] = p => pc'[stamp[i]] = "dead")
      BY <2>2, Names
    <2> QED
      BY <1>c, <1>p, <2>2, <2>3
  <1>4. OneFile'
    <2>1. \A q \in Proc : pc'[q] \in Dropping => q # p /\ pc[q] \in Dropping
      BY <1>p DEF Dropping, Leading
    <2>2. \A q \in Proc \ {p} : pc[q] \in Dropping => pc'[q] \in Dropping
      BY <1>p DEF Dropping, Leading
    <2> QED
      BY <1>u, <1>c, <2>1, <2>2 DEF IInv, Core, OneFile
  <1>5. Sockets'
    <2>1. \A l \in Leader : pc'[l] = "serving" => pc[l] = "serving"
      BY <1>p, Names DEF Leading
    <2> QED
      BY <1>u, <2>1 DEF IInv, Core, Sockets
  <1> QED
    BY <1>0, <1>1, <1>2, <1>3, <1>4, <1>5 DEF Core

-----------------------------------------------------------------------------
(* Steps between points where nothing is open                               *)

\* Only p moves.
LEMMA OneMove ==
    ASSUME IInv, NEW p \in Proc, NEW s \in Points, Goto(p, s)
    PROVE  PointsTyped' /\ pc'[p] = s /\ \A q \in Proc \ {p} : pc'[q] = pc[q]
  BY DEF Goto, IInv, PointsTyped

\* The rest of IInv for a client that goes to s.
LEMMA ClientMoves ==
    ASSUME IInv, NEW c \in Client, pc'[c] \in {"fast", "try", "opened", "probe", "spawn",
                                     "await", "wait", "ask", "vacate", "evict", "connected",
                                     "failed"},
           \A q \in Proc \ {c} : pc'[q] = pc[q]
    PROVE  Roles'
  BY Names DEF IInv, Roles

LEMMA LeaderMoves ==
    ASSUME IInv, NEW l \in Leader,
           pc'[l] \in Points \ {"fast", "probe", "spawn", "await", "wait",
                                "ask", "vacate", "evict", "connected", "failed"},
           \A q \in Proc \ {l} : pc'[q] = pc[q]
    PROVE  Roles' /\ (UNCHANGED <<evict, spawns>> => Attempts')
  <1>1. \A c \in Client : pc'[c] = pc[c]
    BY Names
  <1>2. Roles'
    BY <1>1, Names DEF IInv, Roles
  <1>3. UNCHANGED <<evict, spawns>> => Attempts'
    BY <1>1 DEF IInv, Attempts
  <1> QED
    BY <1>2, <1>3

LEMMA PointsHave ==
    /\ {"fast", "try", "opened", "probe", "spawn", "await", "wait", "ask", "vacate", "evict",
        "connected", "failed"} \subseteq Points
    /\ {"fast", "unborn", "try", "poll", "spawn", "await", "wait", "ask", "vacate", "evict",
        "connected", "failed", "lost", "dead"} \subseteq Off
    /\ {"try", "opened", "poll", "reopened", "won", "lost", "clean", "bind", "serving", "drain",
        "unlink sock", "close", "hung", "dead"} \subseteq
          Points \ {"fast", "probe", "spawn", "await", "wait", "ask", "vacate", "evict",
                    "connected", "failed"}
    /\ Off \subseteq Points
  BY DEF Points, Off, Trying, Leading

\* A client goes from one such point to another, within its attempts.
LEMMA ClientWalks ==
    ASSUME IInv, NEW c \in Client, NEW s \in {"fast", "try", "spawn", "await", "wait",
                                              "ask", "vacate", "evict",
                                              "connected", "failed"},
           pc[c] \in {"fast", "try", "spawn", "await", "wait", "ask", "vacate", "evict"},
           Goto(c, s), UNCHANGED <<files, locks, raced>>, CountersTyped',
           \A d \in Client \ {c} : evict'[d] = evict[d] /\ spawns'[d] = spawns[d],
           s # "failed" => spawns'[c] < MaxSpawns /\ evict'[c].n <= MaxEvicts,
           s = "evict" => evict'[c].pid \in Leader
    PROVE  IInv'
  <1>1. PointsTyped' /\ pc'[c] = s /\ \A q \in Proc \ {c} : pc'[q] = pc[q]
    BY OneMove, Names, PointsHave
  <1>2. Walks(c)
    BY <1>1, PointsHave DEF Walks
  <1>3. Core'
    BY <1>1, <1>2, WalksKeep
  <1>4. FilesTyped'
    BY DEF files, locks, IInv, FilesTyped
  <1>5. Roles'
    BY <1>1, ClientMoves
  <1>6. Attempts'
    BY <1>1, Names DEF IInv, Attempts
  <1> QED
    BY <1>1, <1>3, <1>4, <1>5, <1>6 DEF IInv

\* A leader does.
LEMMA LeaderWalks ==
    ASSUME IInv, NEW l \in Leader, NEW s \in {"poll", "dead"}, pc[l] \in {"try", "poll", "lost"},
           Goto(l, s), UNCHANGED <<files, locks, relaunching, counters, faults, raced>>
    PROVE  IInv'
  <1>1. PointsTyped' /\ pc'[l] = s /\ \A q \in Proc \ {l} : pc'[q] = pc[q]
    BY OneMove, Names, PointsHave
  <1>2. Walks(l)
    BY <1>1, PointsHave DEF Walks
  <1>3. Core'
    BY <1>1, <1>2, WalksKeep
  <1>4. FilesTyped' /\ CountersTyped'
    BY DEF files, locks, counters, IInv, FilesTyped, CountersTyped
  <1>5. Roles' /\ Attempts'
    BY <1>1, LeaderMoves, PointsHave DEF counters
  <1> QED
    BY <1>1, <1>3, <1>4, <1>5 DEF IInv

LEMMA FastPathKeeps == \A c \in Client : IInv /\ FastPath(c) => IInv'
  <1> SUFFICES ASSUME NEW c \in Client, IInv, FastPath(c) PROVE IInv'
    OBVIOUS
  <1>1. UNCHANGED <<files, locks, relaunching, counters, faults, raced>> /\ pc[c] = "fast"
    BY DEF FastPath
  <1>2. Goto(c, "try") \/ Goto(c, "connected")
    BY DEF FastPath, Adopt
  <1>3. CountersTyped'
    BY <1>1 DEF counters, IInv, CountersTyped
  <1>4. spawns' = spawns /\ evict' = evict /\ spawns[c] < MaxSpawns /\ evict[c].n <= MaxEvicts
    BY <1>1 DEF counters, IInv, Attempts
  <1> QED
    BY <1>1, <1>2, <1>3, <1>4, ClientWalks

LEMMA SlotWedgedKeeps == \A p \in Proc : IInv /\ SlotWedged(p) => IInv'
  <1> SUFFICES ASSUME NEW p \in Proc, IInv, SlotWedged(p) PROVE IInv'
    OBVIOUS
  <1>1. UNCHANGED <<files, locks, relaunching, counters, faults, raced>> /\ pc[p] \in {"try", "poll"}
    BY DEF SlotWedged
  <1>2. CASE p \in Client
    <2>1. Goto(p, "failed") /\ pc[p] = "try"
      BY <1>1, <1>2 DEF SlotWedged, Gone, IInv, Roles
    <2>2. CountersTyped' /\ spawns' = spawns /\ evict' = evict
      BY <1>1 DEF counters, IInv, CountersTyped
    <2> QED
      BY <1>1, <1>2, <2>1, <2>2, ClientWalks
  <1>3. CASE p \in Leader
    <2>1. Goto(p, "dead")
      BY <1>3, Names DEF SlotWedged, Gone
    <2> QED
      BY <1>1, <1>3, <2>1, LeaderWalks
  <1> QED
    BY <1>2, <1>3 DEF Proc

LEMMA LostKeeps == \A l \in Leader : IInv /\ (Lost(l) \/ PollTimeout(l)) => IInv'
  <1> SUFFICES ASSUME NEW l \in Leader, IInv, Lost(l) \/ PollTimeout(l) PROVE IInv'
    OBVIOUS
  <1>1. /\ UNCHANGED <<files, locks, relaunching, counters, faults, raced>>
        /\ pc[l] \in {"poll", "lost"} /\ (Goto(l, "dead") \/ Goto(l, "poll"))
    BY DEF Lost, PollTimeout
  <1> QED
    BY <1>1, LeaderWalks

LEMMA SpawnLeaderKeeps == \A c \in Client : IInv /\ SpawnLeader(c) => IInv'
  <1> SUFFICES ASSUME NEW c \in Client, IInv, SpawnLeader(c) PROVE IInv'
    OBVIOUS
  <1>1. UNCHANGED <<files, locks, relaunching, counters, faults, raced>> /\ pc[c] = "spawn"
    BY DEF SpawnLeader
  <1>2. /\ CountersTyped' /\ FilesTyped'
        /\ spawns' = spawns /\ evict' = evict /\ spawns[c] < MaxSpawns /\ evict[c].n <= MaxEvicts
    BY <1>1 DEF counters, files, locks, IInv, CountersTyped, FilesTyped, Attempts
  <1>3. CASE Goto(c, "failed") \/ Goto(c, "await")
    BY <1>1, <1>2, <1>3, ClientWalks
  <1>4. CASE \E l \in Leader : pc[l] = "unborn" /\ pc' = [pc EXCEPT ![c] = "await", ![l] = "try"]
    <2>1. PICK l \in Leader : pc[l] = "unborn" /\ pc' = [pc EXCEPT ![c] = "await", ![l] = "try"]
      BY <1>4
    <2>2. "await" \in Points /\ "try" \in Points /\ c # l /\ c \in Proc /\ l \in Proc
      BY PointsHave, Names
    <2>3. /\ PointsTyped' /\ pc'[c] = "await" /\ pc'[l] = "try"
          /\ \A q \in Proc \ {c, l} : pc'[q] = pc[q]
      BY <2>1, <2>2 DEF IInv, PointsTyped
    <2>4. Walks(c) /\ Walks(l)
      BY <1>1, <2>1, <2>3, PointsHave DEF Walks
    <2>5. Core'
      BY <1>1, <2>3, <2>4, WalksKeep
    <2>6. Roles' /\ Attempts'
      BY <1>2, <2>3, Names, PointsHave DEF IInv, Roles, Attempts
    <2> QED
      BY <1>2, <2>3, <2>5, <2>6 DEF IInv
  <1> QED
    BY <1>3, <1>4 DEF SpawnLeader

LEMMA ConnectedKeeps == \A c \in Client : IInv /\ Connected(c) => IInv'
  <1> SUFFICES ASSUME NEW c \in Client, IInv, Connected(c) PROVE IInv'
    OBVIOUS
  <1>1. /\ UNCHANGED <<files, locks, relaunching, evict, spawns, faults, raced>>
        /\ pc[c] \in {"await", "wait"}
        /\ Goto(c, "connected") \/ Goto(c, "ask")
    BY DEF Connected, Adopt
  <1>2. asked' \in [Client -> Stale \cup {Nobody}]
    BY DEF Connected, IInv, CountersTyped
  <1>3. timer' \in [Client -> Leader \cup {Nobody}]
    BY DEF Connected, IInv, CountersTyped
  <1>4. CountersTyped'
    BY <1>1, <1>2, <1>3 DEF IInv, CountersTyped
  <1>5. spawns[c] < MaxSpawns /\ evict[c].n <= MaxEvicts
    BY <1>1 DEF IInv, Attempts
  <1> QED
    BY <1>1, <1>4, <1>5, ClientWalks

LEMMA AskKeeps == \A c \in Client : IInv /\ (Ask(c) \/ Vacated(c)) => IInv'
  <1> SUFFICES ASSUME NEW c \in Client, IInv, Ask(c) \/ Vacated(c) PROVE IInv'
    OBVIOUS
  <1>1. /\ UNCHANGED <<files, locks, timer, evict, spawns, faults, raced>>
        /\ pc[c] \in {"ask", "vacate"}
        /\ Goto(c, "vacate") \/ Goto(c, "try")
    BY DEF Ask, Vacated
  <1>2. asked' \in [Client -> Stale \cup {Nobody}]
    BY DEF Ask, Vacated, IInv, CountersTyped
  <1>3. relaunching' \subseteq Stale
    BY DEF Ask, Vacated, IInv, CountersTyped
  <1>4. CountersTyped'
    BY <1>1, <1>2, <1>3 DEF IInv, CountersTyped
  <1>5. spawns[c] < MaxSpawns /\ evict[c].n <= MaxEvicts
    BY <1>1 DEF IInv, Attempts
  <1> QED
    BY <1>1, <1>4, <1>5, ClientWalks

LEMMA AwaitTimeoutKeeps == \A c \in Client : IInv /\ AwaitTimeout(c) => IInv'
  <1> SUFFICES ASSUME NEW c \in Client, IInv, AwaitTimeout(c) PROVE IInv'
    OBVIOUS
  <1>1. /\ UNCHANGED <<files, locks, relaunching, asked, timer, evict, faults, raced>>
        /\ pc[c] = "await"
    BY DEF AwaitTimeout
  <1>2. spawns[c] \in Nat /\ spawns[c] < MaxSpawns /\ MaxSpawns \in Nat /\ evict[c].n <= MaxEvicts
    BY <1>1, ElectionAssumption DEF IInv, CountersTyped, Attempts
  <1>3. CASE UNCHANGED spawns /\ Goto(c, "failed")
    <2>1. CountersTyped'
      BY <1>1, <1>3 DEF IInv, CountersTyped
    <2> QED
      BY <1>1, <1>3, <2>1, ClientWalks
  <1>4. CASE /\ spawns' = [spawns EXCEPT ![c] = spawns[c] + 1]
             /\ Goto(c, IF spawns[c] + 1 >= MaxSpawns THEN "failed" ELSE "try")
    <2>1. spawns' \in [Client -> 0 .. MaxSpawns] /\ spawns'[c] = spawns[c] + 1
          /\ \A d \in Client \ {c} : spawns'[d] = spawns[d]
      BY <1>2, <1>4 DEF IInv, CountersTyped
    <2>2. CountersTyped'
      BY <1>1, <2>1 DEF IInv, CountersTyped
    <2>3. CASE spawns[c] + 1 >= MaxSpawns
      BY <1>1, <1>4, <2>1, <2>2, <2>3, ClientWalks
    <2>4. CASE ~(spawns[c] + 1 >= MaxSpawns)
      BY <1>1, <1>2, <1>4, <2>1, <2>2, <2>4, ClientWalks
    <2> QED
      BY <2>3, <2>4
  <1> QED
    BY <1>3, <1>4 DEF AwaitTimeout

LEMMA WaitTimeoutKeeps == \A c \in Client : IInv /\ WaitTimeout(c) => IInv'
  <1> SUFFICES ASSUME NEW c \in Client, IInv, WaitTimeout(c) PROVE IInv'
    OBVIOUS
  <1>1. UNCHANGED <<files, locks, relaunching, asked, spawns, faults, raced>> /\ pc[c] = "wait"
    BY DEF WaitTimeout
  <1>2. /\ spawns[c] < MaxSpawns /\ evict[c].n <= MaxEvicts
        /\ evict[c].n \in Nat /\ MaxEvicts \in Nat
    BY <1>1, ElectionAssumption DEF IInv, CountersTyped, Attempts
  <1>h. PICK h \in Leader \cup {Nobody} : h = LiveHolder
    BY DEF LiveHolder, Alive
  <1>3. CASE UNCHANGED <<timer, evict>> /\ Goto(c, "failed")
    <2>1. CountersTyped'
      BY <1>1, <1>3 DEF IInv, CountersTyped
    <2> QED
      BY <1>1, <1>3, <2>1, ClientWalks
  <1>4. CASE timer' = [timer EXCEPT ![c] = h] /\ Goto(c, "try") /\ UNCHANGED evict
    <2>1. CountersTyped'
      BY <1>1, <1>4 DEF IInv, CountersTyped
    <2> QED
      BY <1>1, <1>2, <1>4, <2>1, ClientWalks
  <1>5. CASE /\ h # Nobody
             /\ timer' = [timer EXCEPT ![c] = Nobody]
             /\ evict' = [evict EXCEPT ![c] = EvictAttempt(c, h)]
             /\ Goto(c, IF evict'[c].n <= MaxEvicts THEN "evict" ELSE "failed")
    <2>1. h \in Leader
      BY <1>5
    <2>2. /\ EvictAttempt(c, h) \in [pid : Leader \cup {Nobody}, n : 0 .. MaxEvicts + 1]
          /\ EvictAttempt(c, h).pid = h
      BY <1>2, <2>1 DEF EvictAttempt
    <2>3. /\ evict' \in [Client -> [pid : Leader \cup {Nobody}, n : 0 .. MaxEvicts + 1]]
          /\ evict'[c].pid = h /\ \A d \in Client \ {c} : evict'[d] = evict[d]
      BY <1>5, <2>2 DEF IInv, CountersTyped
    <2>4. CountersTyped'
      BY <1>1, <1>5, <2>3 DEF IInv, CountersTyped
    <2>5. CASE evict'[c].n <= MaxEvicts
      BY <1>1, <1>2, <1>5, <2>1, <2>3, <2>4, <2>5, ClientWalks
    <2>6. CASE ~(evict'[c].n <= MaxEvicts)
      BY <1>1, <1>5, <2>3, <2>4, <2>6, ClientWalks
    <2> QED
      BY <2>5, <2>6
  <1> QED
    BY <1>3, <1>4, <1>5, <1>h DEF WaitTimeout

-----------------------------------------------------------------------------
(* Files are closed                                                         *)

LEMMA AdoptSiblingKeeps == \A c \in Client : IInv /\ (AdoptSibling(c) \/ Release(c)) => IInv'
  <1> SUFFICES ASSUME NEW c \in Client, IInv, AdoptSibling(c) \/ Release(c) PROVE IInv'
    OBVIOUS
  <1>1. /\ UNCHANGED <<files, relaunching, counters, faults, raced>> /\ pc[c] = "probe" /\ Close(c)
        /\ Goto(c, "connected") \/ Goto(c, "spawn")
    BY DEF AdoptSibling, Release
  <1>2. /\ PointsTyped' /\ pc'[c] \in {"connected", "spawn"}
        /\ \A q \in Proc \ {c} : pc'[q] = pc[q]
    BY <1>1, OneMove, Names, PointsHave
  <1>3. c \in Proc /\ c \notin Leader /\ pc'[c] \in Off /\ pc'[c] # "unborn"
    BY <1>2, Names, PointsHave
  <1>4. Core' /\ FilesTyped'
    BY <1>1, <1>2, <1>3, ClosesKeep
  <1>5. CountersTyped' /\ UNCHANGED <<evict, spawns>>
    BY <1>1 DEF counters, IInv, CountersTyped
  <1>6. Roles'
    BY <1>2, ClientMoves
  <1>7. Attempts'
    BY <1>1, <1>2, <1>5, Names DEF IInv, Attempts
  <1> QED
    BY <1>2, <1>4, <1>5, <1>6, <1>7 DEF IInv

\* A leader ends, by itself or not.
LEMMA Ends ==
    ASSUME IInv, NEW l \in Leader, Close(l), Goto(l, "dead"),
           UNCHANGED <<files, relaunching, counters, raced>>, faults' \in 0 .. MaxFaults
    PROVE  IInv'
  <1>1. PointsTyped' /\ pc'[l] = "dead" /\ \A q \in Proc \ {l} : pc'[q] = pc[q]
    BY OneMove, Names, PointsHave
  <1>2. Core' /\ FilesTyped'
    BY <1>1, Names, PointsHave, ClosesKeep
  <1>3. CountersTyped'
    BY DEF counters, IInv, CountersTyped
  <1>4. Roles' /\ Attempts'
    BY <1>1, LeaderMoves, PointsHave DEF counters
  <1> QED
    BY <1>1, <1>2, <1>3, <1>4 DEF IInv

LEMMA CloseLockKeeps == \A l \in Leader : IInv /\ CloseLock(l) => IInv'
  <1> SUFFICES ASSUME NEW l \in Leader, IInv, CloseLock(l) PROVE IInv'
    OBVIOUS
  <1>1. faults' \in 0 .. MaxFaults
    BY DEF CloseLock, IInv, CountersTyped
  <1> QED
    BY <1>1, Ends DEF CloseLock

LEMMA FaultTyped ==
    ASSUME IInv, NEW kind, Fault(kind) PROVE faults' \in 0 .. MaxFaults
  BY ElectionAssumption DEF IInv, CountersTyped, Fault

LEMMA KillKeeps == \A l \in Leader : IInv /\ Kill(l) => IInv'
  BY FaultTyped, Ends DEF Kill

\* A client ends a leader, or tries to, and goes on.
LEMMA TerminateKeeps ==
    ASSUME IInv, NEW c \in Client, NEW l, Terminate(c, l), pc[c] \in {"ask", "evict"},
           UNCHANGED <<files, raced, evict, spawns>>, CountersTyped'
    PROVE  IInv'
  <1>1. spawns[c] < MaxSpawns /\ evict[c].n <= MaxEvicts
    BY DEF IInv, Attempts
  <1>2. CASE Goto(c, "try") /\ UNCHANGED locks
    BY <1>1, <1>2, ClientWalks
  <1>3. CASE l \in Leader /\ Close(l) /\ pc' = [pc EXCEPT ![c] = "try", ![l] = "dead"]
    <2>1. "dead" \in Points /\ "try" \in Points /\ c # l /\ c \in Proc /\ l \in Proc
      BY <1>3, PointsHave, Names
    <2>2. /\ PointsTyped' /\ pc'[c] = "try" /\ pc'[l] = "dead"
          /\ \A q \in Proc \ {c, l} : pc'[q] = pc[q]
      BY <1>3, <2>1 DEF IInv, PointsTyped
    <2>3. Walks(c)
      BY <2>2, PointsHave DEF Walks
    <2>4. Core' /\ FilesTyped'
      BY <1>3, <2>1, <2>2, <2>3, ClosesKeep, PointsHave
    <2>5. Roles' /\ Attempts'
      BY <1>1, <1>3, <2>2, Names, PointsHave DEF IInv, Roles, Attempts
    <2> QED
      BY <2>2, <2>4, <2>5 DEF IInv
  <1> QED
    BY <1>2, <1>3 DEF Terminate, Killable, Alive

LEMMA EvictZombieKeeps == \A c \in Client : IInv /\ (EvictZombie(c) \/ Signal(c)) => IInv'
  <1> SUFFICES ASSUME NEW c \in Client, IInv, EvictZombie(c) \/ Signal(c) PROVE IInv'
    OBVIOUS
  <1>1. /\ UNCHANGED <<files, relaunching, timer, evict, spawns, faults, raced>>
        /\ pc[c] \in {"ask", "evict"}
    BY DEF EvictZombie, Signal, counters
  <1>2. asked' \in [Client -> Stale \cup {Nobody}]
    BY DEF EvictZombie, Signal, counters, IInv, CountersTyped
  <1>3. CountersTyped'
    BY <1>1, <1>2 DEF IInv, CountersTyped
  <1>4. \E l : Terminate(c, l)
    BY DEF EvictZombie, Signal
  <1> QED
    BY <1>1, <1>3, <1>4, TerminateKeeps

-----------------------------------------------------------------------------
(* A leader's life under its lock                                           *)

\* Unless there was a race, one process leads.
LEMMA Alone ==
    ASSUME IInv, ~raced, NEW p \in Proc, NEW q \in Proc,
           pc[p] \in Leading \cup {"probe"}, pc[q] \in Leading \cup {"probe"}
    PROVE  p = q
  <1>1. fd[p] # 0 /\ fd[q] # 0 /\ flock[fd[p]] = p /\ flock[fd[q]] = q
    BY DEF IInv, Core, Descriptors
  <1>2. CASE pc[p] \in Dropping \/ pc[q] \in Dropping
    BY <1>1, <1>2 DEF IInv, Core, OneFile
  <1>3. CASE pc[p] \notin Dropping /\ pc[q] \notin Dropping
    BY <1>1, <1>3 DEF IInv, Core, OneFile
  <1> QED
    BY <1>2, <1>3

\* A step of a leader that keeps its lock.
LEMMA LeadsOn ==
    ASSUME IInv, NEW l \in Leader, NEW s \in Leading, pc[l] \in Leading, Goto(l, s),
           UNCHANGED <<locks, inodes, relaunching, counters>>, faults' \in 0 .. MaxFaults
    PROVE  /\ PointsTyped' /\ CountersTyped' /\ Roles' /\ Attempts'
           /\ Descriptors' /\ Holders'
           /\ pc'[l] = s /\ \A q \in Proc \ {l} : pc'[q] = pc[q]
  <1>1. s \in Points /\ s \in Points \ {"fast", "probe", "spawn", "await", "wait",
                                        "ask", "vacate", "evict", "connected", "failed"}
    BY DEF Leading, Points
  <1>2. PointsTyped' /\ pc'[l] = s /\ \A q \in Proc \ {l} : pc'[q] = pc[q]
    BY <1>1, OneMove, Names
  <1>3. Roles' /\ Attempts'
    BY <1>1, <1>2, LeaderMoves DEF counters
  <1>4. CountersTyped'
    BY DEF counters, IInv, CountersTyped
  <1>5. \A q \in Proc : pc'[q] = pc[q] \/ (pc[q] \in Leading /\ pc'[q] \in Leading)
    BY <1>2
  <1>6. Descriptors'
    BY <1>5 DEF locks, IInv, Core, Descriptors, Leading, Trying
  <1>7. Holders'
    BY <1>5 DEF locks, IInv, FilesTyped, Core, Holders
  <1> QED
    BY <1>2, <1>3, <1>4, <1>6, <1>7

\* Such a step before the drop leaves the files' names alone.
LEMMA LeadsOnFiles ==
    ASSUME IInv, NEW l \in Leader, pc[l] \in Leading, pc'[l] \in Leading,
           \A q \in Proc \ {l} : pc'[q] = pc[q],
           pc[l] \in Dropping <=> pc'[l] \in Dropping,
           UNCHANGED <<locks, lockName, inodes, stamp, raced>>
    PROVE  Stamps' /\ OneFile'
  <1>1. UNCHANGED <<fd, flock, slot>>
    BY DEF locks
  <1>2. \A q \in Proc : pc'[q] = "dead" <=> pc[q] = "dead"
    BY DEF Leading
  <1>3. \A q \in Proc : pc'[q] = "unborn" <=> pc[q] = "unborn"
    BY DEF Leading
  <1>4. Stamps'
    BY <1>1, <1>2, <1>3, Names DEF IInv, FilesTyped, Core, Stamps
  <1>5. \A q \in Proc : pc'[q] \in Dropping <=> pc[q] \in Dropping
    OBVIOUS
  <1>6. OneFile'
    BY <1>1, <1>5 DEF IInv, Core, OneFile
  <1> QED
    BY <1>4, <1>6

LEMMA LeadingHas ==
    /\ {"won", "clean", "bind", "serving", "drain", "unlink sock", "close"} \subseteq Leading
    /\ {"won", "clean", "bind", "serving", "drain"} \cap Dropping = {}
    /\ {"unlink sock", "close"} \subseteq Dropping
  BY DEF Leading, Dropping

LEMMA WritePidKeeps == \A l \in Leader : IInv /\ WritePid(l) => IInv'
  <1> SUFFICES ASSUME NEW l \in Leader, IInv, WritePid(l) PROVE IInv'
    OBVIOUS
  <1>1. /\ pc[l] = "won" /\ stamp' = [stamp EXCEPT ![fd[l]] = l] /\ Goto(l, "clean")
        /\ UNCHANGED <<lockName, inodes, sock, fd, flock, slot, relaunching, counters, faults, raced>>
    BY DEF WritePid, locks
  <1>2. faults' \in 0 .. MaxFaults
    BY <1>1 DEF IInv, CountersTyped
  <1>3. /\ PointsTyped' /\ CountersTyped' /\ Roles' /\ Attempts' /\ Descriptors' /\ Holders'
        /\ pc'[l] = "clean" /\ \A q \in Proc \ {l} : pc'[q] = pc[q]
    BY <1>1, <1>2, LeadsOn, LeadingHas DEF locks
  <1>4. l \in Proc /\ fd[l] \in Inode /\ flock[fd[l]] = l
    BY <1>1, Names, LeadingHas DEF IInv, FilesTyped, Core, Descriptors
  <1>5. stamp' \in [Inode -> Leader \cup {Nobody}] /\ stamp'[fd[l]] = l
        /\ \A i \in Inode \ {fd[l]} : stamp'[i] = stamp[i]
    BY <1>1, <1>4 DEF IInv, FilesTyped
  <1>6. FilesTyped'
    BY <1>1, <1>5 DEF IInv, FilesTyped
  <1>7. Stamps'
    <2>1. SUFFICES ASSUME NEW i \in Inode, stamp'[i] # Nobody
                   PROVE  pc'[stamp'[i]] # "unborn" /\ (pc'[stamp'[i]] # "dead" => flock[i] = stamp'[i])
      BY <1>1 DEF Stamps
    <2>2. CASE i = fd[l]
      BY <2>2, <1>3, <1>4, <1>5
    <2>3. CASE i # fd[l]
      <3>1. stamp'[i] = stamp[i] /\ stamp[i] \in Proc
        BY <2>1, <2>3, <1>5, Names DEF IInv, FilesTyped
      <3>2. pc[stamp[i]] # "unborn" /\ (pc[stamp[i]] # "dead" => flock[i] = stamp[i])
        BY <2>1, <3>1 DEF IInv, Core, Stamps
      <3> QED
        BY <3>1, <3>2, <1>1, <1>3
    <2> QED
      BY <2>2, <2>3
  <1>8. OneFile'
    <2>1. \A q \in Proc : pc'[q] \in Dropping <=> pc[q] \in Dropping
      BY <1>1, <1>3, LeadingHas
    <2> QED
      BY <1>1, <2>1 DEF IInv, Core, OneFile
  <1>9. Sockets'
    BY <1>1, <1>3, Names DEF IInv, Core, Sockets
  <1> QED
    BY <1>3, <1>6, <1>7, <1>8, <1>9 DEF IInv, Core

LEMMA CleanupSocketKeeps == \A l \in Leader : IInv /\ CleanupSocket(l) => IInv'
  <1> SUFFICES ASSUME NEW l \in Leader, IInv, CleanupSocket(l) PROVE IInv'
    OBVIOUS
  <1>1. /\ pc[l] = "clean" /\ sock' = Nobody /\ Goto(l, "bind")
        /\ UNCHANGED <<lockName, inodes, stamp, locks, relaunching, counters, faults, raced>>
    BY DEF CleanupSocket
  <1>2. faults' \in 0 .. MaxFaults
    BY <1>1 DEF IInv, CountersTyped
  <1>3. /\ PointsTyped' /\ CountersTyped' /\ Roles' /\ Attempts' /\ Descriptors' /\ Holders'
        /\ pc'[l] = "bind" /\ \A q \in Proc \ {l} : pc'[q] = pc[q]
    BY <1>1, <1>2, LeadsOn, LeadingHas
  <1>4. Stamps' /\ OneFile'
    BY <1>1, <1>3, LeadsOnFiles, LeadingHas
  <1>5. FilesTyped'
    BY <1>1 DEF locks, IInv, FilesTyped
  <1>6. Sockets'
    <2>1. ~raced => \A q \in Leader : pc'[q] # "serving"
      BY <1>1, <1>3, Alone, Names, LeadingHas
    <2> QED
      BY <1>1, <2>1 DEF Sockets
  <1> QED
    BY <1>3, <1>4, <1>5, <1>6 DEF IInv, Core

LEMMA BindKeeps == \A l \in Leader : IInv /\ Bind(l) => IInv'
  <1> SUFFICES ASSUME NEW l \in Leader, IInv, Bind(l) PROVE IInv'
    OBVIOUS
  <1>1. /\ pc[l] = "bind" /\ sock' = l /\ Goto(l, "serving")
        /\ UNCHANGED <<lockName, inodes, stamp, locks, relaunching, counters, faults, raced>>
    BY DEF Bind
  <1>2. faults' \in 0 .. MaxFaults
    BY <1>1 DEF IInv, CountersTyped
  <1>3. /\ PointsTyped' /\ CountersTyped' /\ Roles' /\ Attempts' /\ Descriptors' /\ Holders'
        /\ pc'[l] = "serving" /\ \A q \in Proc \ {l} : pc'[q] = pc[q]
    BY <1>1, <1>2, LeadsOn, LeadingHas
  <1>4. Stamps' /\ OneFile'
    BY <1>1, <1>3, LeadsOnFiles, LeadingHas
  <1>5. FilesTyped'
    BY <1>1 DEF locks, IInv, FilesTyped
  <1>6. Sockets'
    <2>1. ~raced => \A q \in Leader : pc'[q] = "serving" => q = l
      BY <1>1, <1>3, Alone, Names, LeadingHas
    <2> QED
      BY <1>1, <2>1 DEF Sockets
  <1> QED
    BY <1>3, <1>4, <1>5, <1>6 DEF IInv, Core

LEMMA ServerStopKeeps ==
    ASSUME IInv, NEW l \in Leader, ServerStop(l), faults' \in 0 .. MaxFaults
    PROVE  IInv'
  <1>1. /\ pc[l] = "serving" /\ Goto(l, "drain")
        /\ UNCHANGED <<lockName, inodes, stamp, sock, locks, relaunching, counters, raced>>
    BY DEF ServerStop, files
  <1>3. /\ PointsTyped' /\ CountersTyped' /\ Roles' /\ Attempts' /\ Descriptors' /\ Holders'
        /\ pc'[l] = "drain" /\ \A q \in Proc \ {l} : pc'[q] = pc[q]
    BY <1>1, LeadsOn, LeadingHas
  <1>4. Stamps' /\ OneFile'
    BY <1>1, <1>3, LeadsOnFiles, LeadingHas
  <1>5. FilesTyped'
    BY <1>1 DEF locks, IInv, FilesTyped
  <1>6. Sockets'
    <2>1. \A q \in Leader : pc'[q] = "serving" => pc[q] = "serving"
      BY <1>3, Names
    <2> QED
      BY <1>1, <2>1 DEF IInv, Core, Sockets
  <1> QED
    BY <1>3, <1>4, <1>5, <1>6 DEF IInv, Core

LEMMA RemoveSocketKeeps == \A l \in Leader : IInv /\ RemoveSocket(l) => IInv'
  <1> SUFFICES ASSUME NEW l \in Leader, IInv, RemoveSocket(l) PROVE IInv'
    OBVIOUS
  <1>1. /\ pc[l] \in {"drain", "unlink sock", "close"} /\ sock' = Nobody
        /\ UNCHANGED <<pc, lockName, inodes, stamp, fd, flock, slot, relaunching, asked, timer,
                       evict, spawns, faults, raced>>
    BY DEF RemoveSocket, locks, counters
  <1>2. PointsTyped' /\ FilesTyped' /\ CountersTyped' /\ Roles' /\ Attempts'
    BY <1>1 DEF IInv, PointsTyped, FilesTyped, CountersTyped, Roles, Attempts
  <1>3. Descriptors' /\ Holders' /\ Stamps' /\ OneFile'
    BY <1>1 DEF IInv, Core, Descriptors, Holders, Stamps, OneFile
  <1>4. Sockets'
    <2>1. ~raced => \A q \in Leader : pc[q] # "serving"
      BY <1>1, Alone, Names, LeadingHas
    <2> QED
      BY <1>1, <2>1 DEF Sockets
  <1> QED
    BY <1>2, <1>3, <1>4 DEF IInv, Core

LEMMA StopsKeep == \A l \in Leader : IInv /\ (Relaunch(l) \/ Exit(l)) => IInv'
  <1> SUFFICES ASSUME NEW l \in Leader, IInv, Relaunch(l) \/ Exit(l) PROVE IInv'
    OBVIOUS
  <1>1. ServerStop(l) /\ faults' \in 0 .. MaxFaults
    BY FaultTyped DEF Relaunch, Exit, IInv, CountersTyped
  <1> QED
    BY <1>1, ServerStopKeeps

LEMMA UnlinkLockKeeps == \A l \in Leader : IInv /\ UnlinkLock(l) => IInv'
  <1> SUFFICES ASSUME NEW l \in Leader, IInv, UnlinkLock(l) PROVE IInv'
    OBVIOUS
  <1>1. /\ pc[l] = "drain" /\ lockName' = 0 /\ Goto(l, "unlink sock")
        /\ raced' = (raced \/ lockName # fd[l] \/ \E q \in Proc \ {l} : fd[q] # 0)
        /\ UNCHANGED <<inodes, stamp, sock, fd, flock, slot, relaunching, counters, faults>>
    BY DEF UnlinkLock, locks
  <1>2. faults' \in 0 .. MaxFaults
    BY <1>1 DEF IInv, CountersTyped
  <1>3. /\ PointsTyped' /\ CountersTyped' /\ Roles' /\ Attempts' /\ Descriptors' /\ Holders'
        /\ pc'[l] = "unlink sock" /\ \A q \in Proc \ {l} : pc'[q] = pc[q]
    BY <1>1, <1>2, LeadsOn, LeadingHas DEF locks
  <1>4. FilesTyped'
    <2>1. 0 \in 0 .. inodes
      BY Names DEF IInv, FilesTyped
    <2> QED
      BY <1>1, <2>1 DEF IInv, FilesTyped
  <1>5. Stamps'
    <2>1. \A q \in Proc : (pc'[q] = "dead" <=> pc[q] = "dead") /\ (pc'[q] = "unborn" <=> pc[q] = "unborn")
      BY <1>1, <1>3
    <2> QED
      BY <1>1, <2>1, Names DEF IInv, FilesTyped, Core, Stamps
  <1>6. OneFile'
    <2>1. SUFFICES ASSUME ~raced'
          PROVE  /\ \A p \in Proc : fd[p] = 0 \/ pc'[p] \in Dropping
                 /\ \A p, q \in Proc : pc'[p] \in Dropping /\ q # p => fd[q] = 0
      BY <1>1 DEF OneFile
    <2>2. l \in Proc /\ \A q \in Proc \ {l} : fd[q] = 0
      BY <1>1, <2>1, Names
    <2>3. \A p \in Proc : pc[p] \in Dropping => p = l
      BY <2>2, LeadingHas DEF IInv, Core, Descriptors, Dropping
    <2> QED
      BY <1>1, <1>3, <2>2, <2>3, LeadingHas
  <1>7. Sockets'
    <2>1. ~raced' => ~raced
      BY <1>1
    <2>2. \A q \in Leader : pc'[q] = "serving" => pc[q] = "serving"
      BY <1>3, Names
    <2> QED
      BY <1>1, <2>1, <2>2 DEF IInv, Core, Sockets
  <1> QED
    BY <1>3, <1>4, <1>5, <1>6, <1>7 DEF IInv, Core

LEMMA UnlinkSockKeeps == \A l \in Leader : IInv /\ UnlinkSock(l) => IInv'
  <1> SUFFICES ASSUME NEW l \in Leader, IInv, UnlinkSock(l) PROVE IInv'
    OBVIOUS
  <1>1. /\ pc[l] = "unlink sock" /\ sock' = Nobody /\ Goto(l, "close")
        /\ UNCHANGED <<lockName, inodes, stamp, locks, relaunching, counters, faults, raced>>
    BY DEF UnlinkSock
  <1>2. faults' \in 0 .. MaxFaults
    BY <1>1 DEF IInv, CountersTyped
  <1>3. /\ PointsTyped' /\ CountersTyped' /\ Roles' /\ Attempts' /\ Descriptors' /\ Holders'
        /\ pc'[l] = "close" /\ \A q \in Proc \ {l} : pc'[q] = pc[q]
    BY <1>1, <1>2, LeadsOn, LeadingHas
  <1>4. Stamps' /\ OneFile'
    BY <1>1, <1>3, LeadsOnFiles, LeadingHas
  <1>5. FilesTyped'
    BY <1>1 DEF locks, IInv, FilesTyped
  <1>6. Sockets'
    <2>1. ~raced => \A q \in Leader : pc'[q] # "serving"
      BY <1>1, <1>3, Alone, Names, LeadingHas
    <2> QED
      BY <1>1, <2>1 DEF Sockets
  <1> QED
    BY <1>3, <1>4, <1>5, <1>6 DEF IInv, Core

LEMMA HangKeeps == \A l \in Leader : IInv /\ Hang(l) => IInv'
  <1> SUFFICES ASSUME NEW l \in Leader, IInv, Hang(l) PROVE IInv'
    OBVIOUS
  <1>1. /\ pc[l] \in {"opened", "reopened", "won", "clean", "bind", "serving"} /\ Goto(l, "hung")
        /\ UNCHANGED <<lockName, inodes, stamp, sock, fd, flock, slot, relaunching, counters, raced>>
        /\ faults' \in 0 .. MaxFaults
    BY FaultTyped, ElectionAssumption DEF Hang, files, locks
  <1>2. PointsTyped' /\ pc'[l] = "hung" /\ \A q \in Proc \ {l} : pc'[q] = pc[q]
    BY <1>1, OneMove, Names, PointsHave
  <1>3. Roles' /\ Attempts'
    BY <1>1, <1>2, LeaderMoves, PointsHave DEF counters
  <1>4. FilesTyped' /\ CountersTyped'
    BY <1>1 DEF counters, IInv, FilesTyped, CountersTyped
  <1>5. Descriptors'
    BY <1>1, <1>2 DEF IInv, Core, Descriptors, Trying, Leading
  <1>6. Holders'
    BY <1>1, <1>2 DEF IInv, FilesTyped, Core, Holders
  <1>7. Stamps'
    <2>1. \A q \in Proc : (pc'[q] = "dead" <=> pc[q] = "dead") /\ (pc'[q] = "unborn" <=> pc[q] = "unborn")
      BY <1>1, <1>2
    <2> QED
      BY <1>1, <2>1, Names DEF IInv, FilesTyped, Core, Stamps
  <1>8. OneFile'
    <2>1. \A q \in Proc : pc'[q] \in Dropping <=> pc[q] \in Dropping
      BY <1>1, <1>2 DEF Dropping
    <2> QED
      BY <1>1, <2>1 DEF IInv, Core, OneFile
  <1>9. Sockets'
    BY <1>1, <1>2, Names DEF IInv, Core, Sockets
  <1> QED
    BY <1>2, <1>3, <1>4, <1>5, <1>6, <1>7, <1>8, <1>9 DEF IInv, Core

-----------------------------------------------------------------------------
(* An attempt at the lock                                                   *)

\* The rest of IInv when p, client or leader, goes to s.
LEMMA EitherMoves ==
    ASSUME IInv, NEW p \in Proc, NEW s \in Points, Goto(p, s), UNCHANGED <<evict, spawns>>,
           pc[p] # "failed",
           p \in Client => s \in {"opened", "probe", "wait"},
           p \in Leader => s \in {"opened", "reopened", "won", "lost", "poll"}
    PROVE  /\ PointsTyped' /\ Roles' /\ Attempts'
           /\ pc'[p] = s /\ \A q \in Proc \ {p} : pc'[q] = pc[q]
  <1>1. PointsTyped' /\ pc'[p] = s /\ \A q \in Proc \ {p} : pc'[q] = pc[q]
    BY OneMove
  <1>2. CASE p \in Client
    <2>1. Roles'
      BY <1>1, <1>2, ClientMoves
    <2>2. \A c \in Client : pc'[c] = pc[c] \/ (c = p /\ pc'[c] \notin {"failed", "evict"})
      BY <1>1, <1>2, Names
    <2>3. Attempts'
      BY <2>2 DEF IInv, Attempts
    <2> QED
      BY <1>1, <2>1, <2>3
  <1>3. CASE p \in Leader
    BY <1>1, <1>3, LeaderMoves, PointsHave
  <1> QED
    BY <1>2, <1>3 DEF Proc

LEMMA OpenKeeps == \A p \in Proc : IInv /\ Open(p) => IInv'
  <1> SUFFICES ASSUME NEW p \in Proc, IInv, Open(p) PROVE IInv'
    OBVIOUS
  <1>1. /\ pc[p] \in {"try", "poll"} /\ slot' = p
        /\ UNCHANGED <<flock, stamp, sock, relaunching, asked, timer, evict, spawns, faults>>
        /\ fd' = [fd EXCEPT ![p] = lockName']
        /\ Goto(p, IF pc[p] = "try" THEN "opened" ELSE "reopened")
        /\ raced' = (raced \/ \E q \in Leader : pc[q] \in Dropping)
    BY DEF Open, counters, Dropping
  <1>2. /\ inodes \in Nat /\ inodes' \in Nat /\ inodes <= inodes' /\ inodes' \in {0} \cup Inode
        /\ lockName' \in Inode /\ lockName' <= inodes' /\ lockName' # 0
        /\ lockName' = lockName \/ (lockName = 0 /\ lockName' > inodes)
    <2>1. inodes \in Nat /\ lockName \in 0 .. inodes /\ (inodes = 0 \/ inodes \in Inode) /\ MaxInode \in Nat
      BY Names, ElectionAssumption DEF IInv, FilesTyped
    <2>2. CASE lockName # 0 /\ UNCHANGED <<lockName, inodes>>
      BY <2>1, <2>2 DEF Inode
    <2>3. CASE lockName = 0 /\ inodes < MaxInode /\ inodes' = inodes + 1 /\ lockName' = inodes'
      BY <2>1, <2>3 DEF Inode
    <2> QED
      BY <2>2, <2>3 DEF Open
  <1>3. p \in Client => pc[p] = "try"
    BY <1>1 DEF IInv, Roles
  <1>4. /\ PointsTyped' /\ Roles' /\ Attempts' /\ pc'[p] \in Trying
        /\ pc'[p] \in {"opened", "reopened"}
        /\ \A q \in Proc \ {p} : pc'[q] = pc[q]
    <2>1. CASE pc[p] = "try"
      BY <1>1, <2>1, EitherMoves, PointsHave DEF Trying
    <2>2. CASE pc[p] = "poll"
      BY <1>1, <1>3, <2>2, EitherMoves, PointsHave, Names DEF Trying
    <2> QED
      BY <1>1, <2>1, <2>2
  <1>5. /\ fd' \in [Proc -> {0} \cup Inode] /\ fd'[p] = lockName'
        /\ \A q \in Proc \ {p} : fd'[q] = fd[q]
    BY <1>1, <1>2 DEF IInv, FilesTyped
  <1>6. FilesTyped'
    <2>1. raced' \in BOOLEAN
      BY <1>1
    <2>2. lockName' \in 0 .. inodes'
      BY <1>2, Names
    <2> QED
      BY <1>1, <1>2, <1>5, <2>1, <2>2 DEF IInv, FilesTyped
  <1>7. CountersTyped'
    BY <1>1 DEF IInv, CountersTyped
  <1>8. fd[p] = 0 /\ \A q \in Proc : fd[q] \in Nat /\ fd[q] <= inodes
    <2>1. fd[p] = 0
      BY <1>1 DEF IInv, Core, Descriptors, Trying, Leading
    <2>a. \A q \in Proc : fd[q] \in {0} \cup Inode /\ fd[q] <= inodes
      BY DEF IInv, FilesTyped, Core, Descriptors
    <2>b. {0} \cup Inode \subseteq Nat
      BY DEF Inode
    <2>2. \A q \in Proc : fd[q] \in Nat /\ fd[q] <= inodes
      BY <2>a, <2>b
    <2> QED
      BY <2>1, <2>2
  <1>9. Descriptors'
    <2>1. \A q \in Proc : fd'[q] <= inodes'
      BY <1>2, <1>5, <1>8
    <2>2. ASSUME NEW q \in Proc
          PROVE  /\ pc'[q] \in Trying \cup Leading \cup {"probe"} => fd'[q] # 0
                 /\ pc'[q] \in Leading \cup {"probe"} => flock[fd'[q]] = q
                 /\ pc'[q] \notin Trying \cup Leading \cup {"probe", "hung"} => fd'[q] = 0
      <3>1. CASE q = p
        BY <3>1, <1>2, <1>4, <1>5 DEF Leading
      <3>2. CASE q # p
        BY <3>2, <1>4, <1>5 DEF IInv, Core, Descriptors
      <3> QED
        BY <3>1, <3>2
    <2> QED
      BY <1>1, <2>1, <2>2 DEF Descriptors
  <1>10. Holders'
    <2>1. ASSUME NEW i \in Inode, flock[i] # Nobody
          PROVE  fd'[flock[i]] = i /\ pc'[flock[i]] \in Leading \cup {"probe", "hung"}
      <3>1. flock[i] \in Proc /\ fd[flock[i]] = i /\ pc[flock[i]] \in Leading \cup {"probe", "hung"}
        BY <2>1 DEF IInv, FilesTyped, Core, Holders
      <3>2. flock[i] # p
        BY <3>1, <1>8, Names
      <3> QED
        BY <3>1, <3>2, <1>4, <1>5
    <2> QED
      BY <1>1, <2>1 DEF Holders
  <1>11. Stamps'
    <2>1. \A q \in Proc : (pc'[q] = "dead" <=> pc[q] = "dead") /\ (pc'[q] = "unborn" => pc[q] = "unborn")
      BY <1>1, <1>4
    <2> QED
      BY <1>1, <2>1, Names DEF IInv, FilesTyped, Core, Stamps
  <1>12. OneFile'
    <2>1. SUFFICES ASSUME ~raced'
          PROVE  /\ \A q \in Proc : fd'[q] \in {0, lockName'}
                 /\ \A q \in Proc : pc'[q] \notin Dropping
      BY DEF OneFile
    <2>2. ~raced /\ \A q \in Proc : pc[q] \notin Dropping
      BY <1>1, <2>1 DEF IInv, Roles, Proc, Dropping
    <2>3. \A q \in Proc : pc'[q] \notin Dropping
      BY <2>2, <1>4 DEF Dropping
    <2>4. \A q \in Proc : fd[q] \in {0, lockName}
      BY <2>2 DEF IInv, Core, OneFile
    <2> QED
      BY <2>3, <2>4, <1>2, <1>5
  <1>13. Sockets'
    <2>1. \A q \in Leader : pc'[q] = "serving" => pc[q] = "serving"
      BY <1>4, Names
    <2> QED
      BY <1>1, <2>1 DEF IInv, Core, Sockets
  <1> QED
    BY <1>4, <1>6, <1>7, <1>9, <1>10, <1>11, <1>12, <1>13 DEF IInv, Core

LEMMA TryLockKeeps == \A p \in Proc : IInv /\ TryLock(p) => IInv'
  <1> SUFFICES ASSUME NEW p \in Proc, IInv, TryLock(p) PROVE IInv'
    OBVIOUS
  <1>1. /\ pc[p] \in {"opened", "reopened"} /\ slot' = Nobody
        /\ UNCHANGED <<lockName, inodes, stamp, sock, relaunching, asked, timer, evict, spawns,
                       faults, raced>>
    BY DEF TryLock, files, counters
  <1>2. fd[p] \in Inode /\ fd[p] # 0 /\ inodes \in Nat
    <2>1. fd[p] # 0
      BY <1>1 DEF IInv, Core, Descriptors, Trying
    <2> QED
      BY <2>1, Names DEF IInv, FilesTyped
  <1>3. CountersTyped'
    BY <1>1 DEF IInv, CountersTyped
  <1>4. CASE /\ flock[fd[p]] = Nobody /\ flock' = [flock EXCEPT ![fd[p]] = p] /\ UNCHANGED fd
             /\ Goto(p, IF p \in Client THEN "probe" ELSE "won")
    <2>1. /\ PointsTyped' /\ Roles' /\ Attempts' /\ pc'[p] \in {"probe", "won"}
          /\ \A q \in Proc \ {p} : pc'[q] = pc[q]
      <3>1. CASE p \in Client
        BY <1>1, <1>4, <3>1, EitherMoves, PointsHave, Names
      <3>2. CASE p \in Leader
        BY <1>1, <1>4, <3>2, EitherMoves, PointsHave, Names
      <3> QED
        BY <3>1, <3>2 DEF Proc
    <2>2. /\ flock' \in [Inode -> Proc \cup {Nobody}] /\ flock'[fd[p]] = p
          /\ \A i \in Inode \ {fd[p]} : flock'[i] = flock[i]
      BY <1>2, <1>4 DEF IInv, FilesTyped
    <2>3. FilesTyped'
      BY <1>1, <1>4, <2>2 DEF IInv, FilesTyped
    <2>4. Descriptors'
      <3>1. ASSUME NEW q \in Proc \ {p}, pc[q] \in Leading \cup {"probe"} PROVE flock'[fd[q]] = q
        <4>1. fd[q] \in Inode /\ flock[fd[q]] = q
          BY <3>1 DEF IInv, FilesTyped, Core, Descriptors
        <4>2. fd[q] # fd[p]
          BY <1>4, <4>1, Names
        <4> QED
          BY <4>1, <4>2, <2>2
      <3>2. ASSUME NEW q \in Proc
            PROVE  /\ pc'[q] \in Trying \cup Leading \cup {"probe"} => fd[q] # 0
                   /\ pc'[q] \in Leading \cup {"probe"} => flock'[fd[q]] = q
                   /\ pc'[q] \notin Trying \cup Leading \cup {"probe", "hung"} => fd[q] = 0
        <4>1. CASE q = p
          BY <4>1, <1>2, <2>1, <2>2 DEF Leading
        <4>2. CASE q # p
          BY <4>2, <2>1, <3>1 DEF IInv, Core, Descriptors
        <4> QED
          BY <4>1, <4>2
      <3> QED
        BY <1>1, <1>4, <3>2 DEF IInv, Core, Descriptors
    <2>5. Holders'
      <3>1. ASSUME NEW i \in Inode, flock'[i] # Nobody
            PROVE  fd[flock'[i]] = i /\ pc'[flock'[i]] \in Leading \cup {"probe", "hung"}
        <4>1. CASE i = fd[p]
          BY <4>1, <2>1, <2>2 DEF Leading
        <4>2. CASE i # fd[p]
          <5>1. flock'[i] = flock[i] /\ flock[i] \in Proc /\ fd[flock[i]] = i /\ flock[i] # p
                /\ pc[flock[i]] \in Leading \cup {"probe", "hung"}
            BY <3>1, <4>2, <2>2, Names DEF IInv, FilesTyped, Core, Holders
          <5> QED
            BY <5>1, <2>1
        <4> QED
          BY <4>1, <4>2
      <3> QED
        BY <1>4, <3>1 DEF Holders
    <2>6. Stamps'
      <3>1. ASSUME NEW i \in Inode, stamp[i] # Nobody
            PROVE  pc'[stamp[i]] # "unborn" /\ (pc'[stamp[i]] # "dead" => flock'[i] = stamp[i])
        <4>1. /\ stamp[i] \in Proc /\ pc[stamp[i]] # "unborn"
              /\ pc[stamp[i]] # "dead" => flock[i] = stamp[i]
          BY <3>1, Names DEF IInv, FilesTyped, Core, Stamps
        <4>2. pc[stamp[i]] = "dead" => pc'[stamp[i]] = "dead"
          BY <4>1, <1>1, <2>1
        <4>3. pc'[stamp[i]] # "unborn"
          BY <4>1, <2>1
        <4>4. flock[i] # Nobody => flock'[i] = flock[i]
          BY <1>4, <2>2
        <4> QED
          BY <3>1, <4>1, <4>2, <4>3, <4>4
      <3> QED
        BY <1>1, <3>1 DEF Stamps
    <2>7. OneFile'
      <3>1. \A q \in Proc : pc'[q] \in Dropping <=> pc[q] \in Dropping
        BY <1>1, <2>1 DEF Dropping
      <3> QED
        BY <1>1, <1>4, <3>1 DEF IInv, Core, OneFile
    <2>8. Sockets'
      <3>1. \A q \in Leader : pc'[q] = "serving" => pc[q] = "serving"
        BY <2>1, Names
      <3> QED
        BY <1>1, <3>1 DEF IInv, Core, Sockets
    <2> QED
      BY <1>3, <2>1, <2>3, <2>4, <2>5, <2>6, <2>7, <2>8 DEF IInv, Core
  <1>5. CASE /\ fd' = [fd EXCEPT ![p] = 0] /\ UNCHANGED flock
             /\ Goto(p, IF p \in Client THEN "wait"
                        ELSE IF pc[p] = "opened" THEN "lost" ELSE "poll")
    <2>1. /\ PointsTyped' /\ Roles' /\ Attempts' /\ pc'[p] \in {"wait", "lost", "poll"}
          /\ \A q \in Proc \ {p} : pc'[q] = pc[q]
      <3>1. CASE p \in Client
        BY <1>1, <1>5, <3>1, EitherMoves, PointsHave, Names
      <3>2. CASE p \in Leader /\ pc[p] = "opened"
        BY <1>1, <1>5, <3>2, EitherMoves, PointsHave, Names
      <3>3. CASE p \in Leader /\ pc[p] # "opened"
        BY <1>1, <1>5, <3>3, EitherMoves, PointsHave, Names
      <3> QED
        BY <3>1, <3>2, <3>3 DEF Proc
    <2>2. /\ fd' \in [Proc -> {0} \cup Inode] /\ fd'[p] = 0
          /\ \A q \in Proc \ {p} : fd'[q] = fd[q]
      BY <1>5 DEF IInv, FilesTyped
    <2>3. FilesTyped'
      BY <1>1, <1>5, <2>2 DEF IInv, FilesTyped
    <2>4. Descriptors'
      <3>1. \A q \in Proc : fd'[q] <= inodes
        BY <1>2, <2>2 DEF IInv, Core, Descriptors
      <3>2. ASSUME NEW q \in Proc
            PROVE  /\ pc'[q] \in Trying \cup Leading \cup {"probe"} => fd'[q] # 0
                   /\ pc'[q] \in Leading \cup {"probe"} => flock[fd'[q]] = q
                   /\ pc'[q] \notin Trying \cup Leading \cup {"probe", "hung"} => fd'[q] = 0
        <4>1. CASE q = p
          BY <4>1, <2>1, <2>2 DEF Leading, Trying
        <4>2. CASE q # p
          BY <4>2, <2>1, <2>2 DEF IInv, Core, Descriptors
        <4> QED
          BY <4>1, <4>2
      <3> QED
        BY <1>1, <1>5, <3>1, <3>2 DEF Descriptors
    <2>5. Holders'
      <3>1. ASSUME NEW i \in Inode, flock[i] # Nobody
            PROVE  fd'[flock[i]] = i /\ pc'[flock[i]] \in Leading \cup {"probe", "hung"}
        <4>1. flock[i] \in Proc /\ fd[flock[i]] = i /\ pc[flock[i]] \in Leading \cup {"probe", "hung"}
          BY <3>1 DEF IInv, FilesTyped, Core, Holders
        <4>2. flock[i] # p
          BY <4>1, <1>1 DEF Leading
        <4> QED
          BY <4>1, <4>2, <2>1, <2>2
      <3> QED
        BY <1>5, <3>1 DEF Holders
    <2>6. Stamps'
      <3>1. \A q \in Proc : (pc'[q] = "dead" <=> pc[q] = "dead") /\ (pc'[q] = "unborn" => pc[q] = "unborn")
        BY <1>1, <2>1
      <3> QED
        BY <1>1, <1>5, <3>1, Names DEF IInv, FilesTyped, Core, Stamps
    <2>7. OneFile'
      <3>1. \A q \in Proc : pc'[q] \in Dropping <=> pc[q] \in Dropping
        BY <1>1, <2>1 DEF Dropping
      <3> QED
        BY <1>1, <2>2, <3>1 DEF IInv, Core, OneFile
    <2>8. Sockets'
      <3>1. \A q \in Leader : pc'[q] = "serving" => pc[q] = "serving"
        BY <2>1, Names
      <3> QED
        BY <1>1, <3>1 DEF IInv, Core, Sockets
    <2> QED
      BY <1>3, <2>1, <2>3, <2>4, <2>5, <2>6, <2>7, <2>8 DEF IInv, Core
  <1> QED
    BY <1>4, <1>5 DEF TryLock

-----------------------------------------------------------------------------
LEMMA InitHolds == Init => IInv
  <1> SUFFICES ASSUME Init PROVE IInv
    OBVIOUS
  <1>1. PICK up : up = {l \in Leader : pc[l] = "serving"}
    OBVIOUS
  <1>2. /\ lockName = Cardinality(up) /\ inodes = lockName
        /\ fd = [p \in Proc |-> IF p \in up THEN 1 ELSE 0]
        /\ stamp = [i \in Inode |-> IF i = 1 /\ up # {} THEN CHOOSE l \in up : TRUE ELSE Nobody]
        /\ flock = stamp /\ sock = stamp[1] /\ slot = Nobody /\ relaunching = {}
        /\ asked = [c \in Client |-> Nobody] /\ timer = [c \in Client |-> Nobody]
        /\ evict = [c \in Client |-> [pid |-> Nobody, n |-> 0]]
        /\ spawns = [c \in Client |-> 0] /\ faults = 0 /\ raced = FALSE
    BY <1>1 DEF Init
  <1>3. CountersTyped
    BY <1>2, ElectionAssumption DEF CountersTyped
  <1>4. /\ PointsTyped /\ \A c \in Client : pc[c] = "fast"
        /\ \A l \in Leader : pc[l] \in {"unborn", "serving"}
        /\ up = {} \/ \E l \in Leader : up = {l} /\ pc[l] = "serving"
    <2>0. {"fast", "unborn", "serving"} \subseteq Points
      BY DEF Points
    <2>1. CASE pc = [p \in Proc |-> IF p \in Client THEN "fast" ELSE "unborn"]
      BY <2>0, <2>1, <1>1, Names DEF PointsTyped
    <2>2. CASE \E l \in Stale : pc = [p \in Proc |-> IF p \in Client THEN "fast"
                                      ELSE IF p = l THEN "serving" ELSE "unborn"]
      <3>1. PICK l \in Leader : pc = [p \in Proc |-> IF p \in Client THEN "fast"
                                      ELSE IF p = l THEN "serving" ELSE "unborn"]
        BY <2>2, ElectionAssumption
      <3> QED
        BY <2>0, <3>1, <1>1, Names DEF PointsTyped
    <2> QED
      BY <2>1, <2>2 DEF Init
  <1>5. Roles
    BY <1>4, PointsHave DEF Roles, Points
  <1>6. Attempts
    BY <1>2, <1>4, ElectionAssumption DEF Attempts
  <1>7. CASE up = {}
    <2>1. lockName = 0 /\ inodes = 0 /\ \A p \in Proc : fd[p] = 0
      BY <1>2, <1>7, FS_EmptySet
    <2>2. /\ \A i \in Inode : flock[i] = Nobody /\ stamp[i] = Nobody
          /\ flock \in [Inode -> Proc \cup {Nobody}] /\ stamp \in [Inode -> Leader \cup {Nobody}]
          /\ sock = Nobody
      BY <1>2, <1>7, Names
    <2>a. fd \in [Proc -> {0} \cup Inode] /\ 0 \in 0 .. 0 /\ 0 \in {0} \cup Inode
      BY <1>2, Names
    <2>3. FilesTyped
      BY <1>2, <2>1, <2>2, <2>a DEF FilesTyped
    <2>4. \A p \in Proc : pc[p] \in {"fast", "unborn"}
      BY <1>1, <1>4, <1>7 DEF Proc
    <2>e. \A p \in Proc : pc[p] \notin Trying \cup Leading \cup {"probe", "hung"}
      BY <2>4 DEF Leading, Trying
    <2>b. Descriptors /\ Holders
      BY <2>1, <2>2, <2>e DEF Descriptors, Holders
    <2>c. Stamps /\ OneFile
      BY <2>1, <2>2, <2>4 DEF Stamps, OneFile, Dropping
    <2>d. Sockets
      BY <2>4, Names DEF Sockets
    <2>5. Core
      BY <2>b, <2>c, <2>d DEF Core
    <2> QED
      BY <1>3, <1>4, <1>5, <1>6, <2>3, <2>5 DEF IInv
  <1>8. CASE \E l \in Leader : up = {l} /\ pc[l] = "serving"
    <2>0. PICK l \in Leader : up = {l} /\ pc[l] = "serving"
      BY <1>8
    <2>1. Cardinality({l}) = 1
      BY FS_Singleton
    <2>2. lockName = 1 /\ inodes = 1 /\ \A p \in Proc : fd[p] = IF p = l THEN 1 ELSE 0
      BY <1>2, <2>0, <2>1
    <2>3. (CHOOSE k \in {l} : TRUE) = l
      OBVIOUS
    <2>4. /\ \A i \in Inode : stamp[i] = IF i = 1 THEN l ELSE Nobody
          /\ stamp \in [Inode -> Leader \cup {Nobody}] /\ flock = stamp /\ sock = l
      BY <1>2, <2>0, <2>3, Names
    <2>a. fd \in [Proc -> {0} \cup Inode] /\ 1 \in 0 .. 1 /\ 1 \in {0} \cup Inode
      BY <1>2, Names
    <2>b. flock \in [Inode -> Proc \cup {Nobody}] /\ slot \in Proc \cup {Nobody}
      BY <1>2, <2>4, Names
    <2>5. FilesTyped
      BY <1>2, <2>2, <2>4, <2>a, <2>b DEF FilesTyped
    <2>6. l \in Proc /\ \A p \in Proc \ {l} : pc[p] \in {"fast", "unborn"}
      BY <1>1, <1>4, <2>0 DEF Proc
    <2>c. \A p \in Proc \ {l} : pc[p] \notin Trying \cup Leading \cup {"probe", "hung"}
      BY <2>6 DEF Leading, Trying
    <2>d. pc[l] \in Leading /\ 1 \in Inode /\ flock[1] = l /\ fd[l] = 1
      BY <2>0, <2>2, <2>4, <2>6, Names, LeadingHas
    <2>e. Descriptors
      BY <2>2, <2>6, <2>c, <2>d DEF Descriptors
    <2>f. Holders
      BY <2>4, <2>d DEF Holders
    <2>7. Descriptors /\ Holders
      BY <2>e, <2>f
    <2>8. Stamps /\ OneFile /\ Sockets
      BY <2>0, <2>2, <2>4, <2>6, Names DEF Stamps, OneFile, Sockets, Dropping
    <2> QED
      BY <1>3, <1>4, <1>5, <1>6, <2>5, <2>7, <2>8 DEF IInv, Core
  <1> QED
    BY <1>4, <1>7, <1>8

LEMMA StutterKeeps == IInv /\ UNCHANGED vars => IInv'
  BY DEF vars, files, locks, counters, IInv, PointsTyped, FilesTyped, CountersTyped, Roles,
     Attempts, Core, Descriptors, Holders, Stamps, OneFile, Sockets

LEMMA NextKeeps == IInv /\ [Next]_vars => IInv'
  <1>1. \A c \in Client : IInv /\ ClientStep(c) => IInv'
    BY FastPathKeeps, OpenKeeps, SlotWedgedKeeps, TryLockKeeps, AdoptSiblingKeeps,
       SpawnLeaderKeeps, ConnectedKeeps, AskKeeps, AwaitTimeoutKeeps, WaitTimeoutKeeps,
       EvictZombieKeeps, Names
    DEF ClientStep
  <1>2. \A l \in Leader : IInv /\ LeaderStep(l) => IInv'
    BY OpenKeeps, SlotWedgedKeeps, TryLockKeeps, LostKeeps, WritePidKeeps, CleanupSocketKeeps,
       BindKeeps, StopsKeep, RemoveSocketKeeps, UnlinkLockKeeps, UnlinkSockKeeps,
       CloseLockKeeps, Names
    DEF LeaderStep
  <1> QED
    BY <1>1, <1>2, LostKeeps, StopsKeep, KillKeeps, HangKeeps, StutterKeeps DEF Next

LEMMA ElectionInvariant == Spec => []IInv
  BY InitHolds, NextKeeps, PTL DEF Spec

(* Clients and leaders keep their types for any number of them: the         *)
(* attempts to spawn and to evict stay within their limits, and the socket  *)
(* and the PID on file are always a leader's or nobody's.                   *)
THEOREM ElectionTyped == Spec => []TypeOK
  <1>1. IInv => TypeOK
    BY TypeParts DEF IInv
  <1> QED
    BY <1>1, ElectionInvariant, PTL

(* However many clients spawn, evict and retry and however leaders exit,    *)
(* die or hang, two serve at once, or one without its lock or socket, only  *)
(* after a lock attempt overlapped the drop of a LeaderLock.                *)
THEOREM OneLeader == Spec => []OneLeaderUnlessRaced
  <1>1. IInv => OneLeaderUnlessRaced
    <2> SUFFICES ASSUME IInv, ~raced
                 PROVE  /\ Cardinality(Serving) <= 1
                        /\ \A l \in Serving : sock = l /\ fd[l] = lockName /\ flock[fd[l]] = l
      BY DEF OneLeaderUnlessRaced
    <2>1. \A k, l \in Serving : k = l
      BY Alone, Names, LeadingHas DEF Serving
    <2>2. Serving = {} \/ \E l : Serving = {l}
      BY <2>1
    <2>3. Cardinality(Serving) <= 1
      <3>1. CASE Serving = {}
        BY <3>1, FS_EmptySet
      <3>2. CASE \E l : Serving = {l}
        <4>1. PICK l : Serving = {l}
          BY <3>2
        <4>2. Cardinality({l}) = 1
          BY FS_Singleton
        <4> QED
          BY <4>1, <4>2
      <3> QED
        BY <2>2, <3>1, <3>2
    <2>4. ASSUME NEW l \in Serving PROVE sock = l /\ fd[l] = lockName /\ flock[fd[l]] = l
      <3>1. l \in Leader /\ l \in Proc /\ pc[l] = "serving" /\ pc[l] \in Leading /\ pc[l] \notin Dropping
        BY Names, LeadingHas DEF Serving
      <3>2. fd[l] # 0 /\ flock[fd[l]] = l
        BY <3>1 DEF IInv, Core, Descriptors
      <3>3. sock = l /\ fd[l] = lockName
        BY <3>1, <3>2 DEF IInv, Core, OneFile, Sockets
      <3> QED
        BY <3>2, <3>3
    <2> QED
      BY <2>3, <2>4
  <1> QED
    BY <1>1, ElectionInvariant, PTL

(* A client that has won the flock on a lock file finds no live leader's    *)
(* PID in it, even after a race: a leader keeps the lock on the file it has *)
(* stamped until it is gone.                                                *)
THEOREM WinnerFindsNoLeader == Spec => []StampOutlivesNoHolder
  <1>1. IInv => StampOutlivesNoHolder
    <2> SUFFICES ASSUME IInv, NEW c \in Client, pc[c] = "probe" PROVE ~Alive(stamp[fd[c]])
      BY DEF StampOutlivesNoHolder
    <2>1. c \in Proc /\ fd[c] \in Inode /\ flock[fd[c]] = c
      BY Names DEF IInv, FilesTyped, Core, Descriptors
    <2>2. Alive(stamp[fd[c]]) => stamp[fd[c]] \in Leader /\ flock[fd[c]] = stamp[fd[c]]
      BY <2>1, Names DEF Alive, IInv, Core, Stamps
    <2> QED
      BY <2>1, <2>2, Names
  <1> QED
    BY <1>1, ElectionInvariant, PTL

=============================================================================

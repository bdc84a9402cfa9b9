----------------------------- MODULE AuthRefresh ----------------------------
(***************************************************************************)
(* Token refresh by several processes that share auth.json (ezer-login:    *)
(* manager/refresh_chain.rs, manager.rs, refresh/oidc_refresher.rs,        *)
(* recovery.rs, manager/lock.rs).                                          *)
(*                                                                         *)
(* A refresh token is good for one exchange.  The processes take turns     *)
(* through the flock on auth.json.lock; a process that lost its turn       *)
(* adopts what its sibling wrote.  A step is the code between two awaits:  *)
(* it is atomic for its own process and, on disk, for the others.          *)
(*                                                                         *)
(* A credential is a number: the order in which the identity provider      *)
(* minted it.  It stands for the access key, the refresh token and the     *)
(* create time at once, so the provider always rotates, mints lie further  *)
(* apart than DISK_MINT_SKEW_TOLERANCE, and credentials expire in order.   *)
(*                                                                         *)
(* Left out: the external-binary refresher, the config watcher, the team   *)
(* pin, and the other scopes of auth.json.  The sleep gate is the module   *)
(* SleepGate; here it may defer any refresh.  The count of transient       *)
(* failures that escalate to a verdict is abstracted to a choice.          *)
(***************************************************************************)
EXTENDS Integers, FiniteSets

CONSTANTS
    Proc,           \* processes, one AuthManager each
    Caller,         \* tasks that want a token
    Owner,          \* the process of each caller
    MaxMint,        \* bound: credentials the provider mints
    Scenarios       \* bound: the sets of faults and user commands that happen
                    \* in one behaviour, each of them once

Kinds == {"crash", "lost response", "write", "unlink", "revoke", "logout", "sign in"}

ASSUME AuthAssumption ==
    /\ Owner \in [Caller -> Proc]
    /\ MaxMint \in Nat \ {0}
    /\ Scenarios \subseteq SUBSET Kinds

VARIABLES
    disk,           \* the entry of auth.json, 0 when there is none
    mem,            \* AuthManager::inner
    verdict,        \* AuthManager::permanent_failure
    enriching,      \* the credential a /user task will merge into, 0 for none
    signing,        \* a sign-in's credential not yet saved, 0 for none
    call,           \* the refresh of each caller
    lockFile,       \* the inode auth.json.lock names
    minted,         \* credentials minted so far
    succ,           \* what the provider gave for each spent token, 0 if unspent
    revoked,        \* credentials up to this one are revoked
    expired,        \* credentials up to this one are inside the expiry buffer
    faults,         \* the faults that happened
    unsafe,         \* history: credentials that had no fair chance to stay on disk
    reused          \* history: spent tokens sent again from disk

idp == <<minted, succ, revoked>>
vars == <<disk, mem, verdict, enriching, signing, call, lockFile, minted, succ,
          revoked, expired, faults, unsafe, reused>>

None == 0
Cred == 1 .. MaxMint
Reasons == {"PreRequest", "ServerRejected"}
Steps == {"idle", "mutex", "lock", "bail", "held", "relock", "exchange",
          "wire", "answered"}
Outcomes == {"none", "success", "rejected", "other"}

Idle == [pc |-> "idle", reason |-> "PreRequest", pre |-> None, ino |-> 0,
         tried |-> None, fromDisk |-> FALSE, retried |-> FALSE,
         outcome |-> "none", got |-> None]
NoVerdict == [key |-> None, sticky |-> FALSE]

Init ==
    /\ disk = 1
    /\ mem = [p \in Proc |-> 1]
    /\ verdict = [p \in Proc |-> NoVerdict]
    /\ enriching = [p \in Proc |-> None]
    /\ signing = [p \in Proc |-> None]
    /\ call = [c \in Caller |-> Idle]
    /\ lockFile = 1
    /\ minted = 1
    /\ succ = [n \in Cred |-> None]
    /\ revoked = 0
    /\ expired = 0
    /\ faults = {}
    /\ unsafe = {}
    /\ reused = {}

-----------------------------------------------------------------------------
(* What a manager reads                                                    *)

Expired(n) == n <= expired
Current(p) == IF ~Expired(mem[p]) THEN mem[p] ELSE None
ExpiredAuth(p) == IF Expired(mem[p]) THEN mem[p] ELSE None

\* The credential a refresh sends: the one on disk first.
ResolveCredential(p, reason) ==
    IF disk # None THEN disk
    ELSE IF ExpiredAuth(p) # None THEN ExpiredAuth(p)
    ELSE IF reason = "ServerRejected" THEN Current(p) ELSE None

\* A verdict stands for its own credential, and a sticky one for no
\* credential at all.
PermanentFailure(p) ==
    LET k == ResolveCredential(p, "ServerRejected") IN
    /\ verdict[p] # NoVerdict
    /\ k = verdict[p].key \/ (k = None /\ verdict[p].sticky)

\* try_use_disk_token: the disk holds a fresh credential, not minted before
\* the one in memory, and not the one the server rejected.
CanAdopt(p, reason) ==
    /\ disk # None /\ ~Expired(disk)
    /\ mem[p] = None \/ disk >= mem[p]
    /\ reason = "ServerRejected" => disk # mem[p]

\* hot_swap of a credential that is valid on the wire.
HotSwap(p) ==
    /\ mem' = [mem EXCEPT ![p] = disk]
    /\ verdict' = [verdict EXCEPT ![p] = NoVerdict]

InChain(c) == call[c].pc \notin {"idle", "mutex"}
LockFree == \A c \in Caller : call[c].ino # lockFile
LockLost(c) == call[c].ino \notin {0, lockFile}

Fault(kind) ==
    /\ kind \notin faults
    /\ faults' = faults \cup {kind} /\ faults' \in Scenarios

Return(c) == call' = [call EXCEPT ![c] = Idle]
Goto(c, pc) == call' = [call EXCEPT ![c].pc = pc]

\* Adopt the disk credential and return, or go on as Else says.
AdoptOr(c, Else) ==
    LET p == Owner[c] IN
    \/ /\ CanAdopt(p, call[c].reason)
       /\ HotSwap(p) /\ Return(c)
    \/ /\ ~CanAdopt(p, call[c].reason)
       /\ Else /\ UNCHANGED <<mem, verdict>>

-----------------------------------------------------------------------------
(* refresh_chain                                                           *)

\* The entry: short-circuit on a standing verdict, or queue on refresh_lock.
EnterChain(c, reason) ==
    LET p == Owner[c] IN
    \/ /\ PermanentFailure(p) /\ CanAdopt(p, reason)
       /\ HotSwap(p) /\ UNCHANGED call
    \/ /\ ~PermanentFailure(p)
       /\ call' = [call EXCEPT ![c] = [Idle EXCEPT !.pc = "mutex", !.reason = reason,
                                                   !.pre = Current(p)]]
       /\ UNCHANGED <<mem, verdict>>

\* auth(): the cached credential has run into its expiry buffer.
PreRequest(c) ==
    /\ call[c].pc = "idle" /\ ExpiredAuth(Owner[c]) # None
    /\ EnterChain(c, "PreRequest")
    /\ UNCHANGED <<disk, enriching, signing, lockFile, idp, expired, faults, unsafe, reused>>

\* UnauthorizedRecovery::next after a 401 on the rejected credential, which
\* need not be the cached one any more: a different fresh credential on disk
\* is taken as it is; otherwise the authority is asked, unless nothing is
\* cached.  A credential minted just now is returned without that
\* (fresh_mint_guard: no step).
Recover(c) ==
    \E rejected \in 1 .. minted :
    /\ call[c].pc = "idle"
    /\ \/ /\ disk \notin {None, rejected} /\ ~Expired(disk)
          /\ HotSwap(Owner[c]) /\ UNCHANGED call
       \/ /\ disk \in {None, rejected} \/ Expired(disk)
          /\ mem[Owner[c]] # None
          /\ EnterChain(c, "ServerRejected")
    /\ UNCHANGED <<disk, enriching, signing, lockFile, idp, expired, faults, unsafe, reused>>

\* refresh_lock is taken; recheck, then adopt before queueing on the flock.
Recheck(c) ==
    LET p == Owner[c] IN
    /\ call[c].pc = "mutex"
    /\ \A d \in Caller : Owner[d] = p => ~InChain(d)
    /\ \/ /\ \/ /\ Current(p) # None
                /\ call[c].reason = "PreRequest" \/ call[c].pre # Current(p)
             \/ PermanentFailure(p)
          /\ Return(c) /\ UNCHANGED <<mem, verdict>>
       \/ /\ Current(p) = None \/ (call[c].reason = "ServerRejected" /\ call[c].pre = Current(p))
          /\ ~PermanentFailure(p)
          /\ AdoptOr(c, Goto(c, "lock"))
    /\ UNCHANGED <<disk, enriching, signing, lockFile, idp, expired, faults, unsafe, reused>>

\* The flock is ours: a sibling may have refreshed while we waited.
AcquireLock(c) ==
    /\ call[c].pc \in {"lock", "relock"} /\ LockFree
    /\ AdoptOr(c, call' = [call EXCEPT ![c].ino = lockFile,
                               ![c].pc = IF @ = "lock" THEN "held" ELSE "exchange"])
    /\ UNCHANGED <<disk, enriching, signing, lockFile, idp, expired, faults, unsafe, reused>>

\* The wait for the flock ran out, or the lock file could not be opened.
LockTimeout(c) ==
    /\ call[c].pc \in {"lock", "relock"}
    /\ Goto(c, "bail")
    /\ UNCHANGED <<disk, mem, verdict, enriching, signing, lockFile, idp, expired,
                   faults, unsafe, reused>>

(* Mutant: the exchange goes on without the lock. *)
AdoptOrGoOn(c) ==
    /\ call[c].pc = "bail"
    /\ AdoptOr(c, Goto(c, "exchange"))
    /\ UNCHANGED <<disk, enriching, signing, lockFile, idp, expired, faults, unsafe, reused>>

\* After LOCK_TIMEOUT_WAIT: adopt or give up, never go on unlocked.
AdoptOrBail(c) ==
    /\ call[c].pc = "bail"
    /\ AdoptOr(c, Return(c))
    /\ UNCHANGED <<disk, enriching, signing, lockFile, idp, expired, faults, unsafe, reused>>

\* Deferred for the power state, or the lock is checked once more.
Revalidate(c) ==
    /\ call[c].pc = "held"
    /\ \/ Return(c)
       \/ ~LockLost(c) /\ Goto(c, "exchange")
       \/ LockLost(c) /\ call' = [call EXCEPT ![c].ino = 0, ![c].pc = "relock"]
    /\ UNCHANGED <<disk, mem, verdict, enriching, signing, lockFile, idp, expired,
                   faults, unsafe, reused>>

(* Mutant: the exchange goes out although no credential was resolved. *)
SendTokenUnresolved(c) ==
    LET n == ResolveCredential(Owner[c], call[c].reason) IN
    /\ call[c].pc = "exchange"
    /\ call' = [call EXCEPT ![c].pc = "wire", ![c].tried = n,
                            ![c].fromDisk = (disk # None)]
    /\ UNCHANGED <<disk, mem, verdict, enriching, signing, lockFile, idp, expired,
                   faults, unsafe, reused>>

\* OidcRefresher::refresh up to the request: adopt a fresh disk credential,
\* or send the resolved one.  The sleep gate may still turn it back.
SendToken(c) ==
    LET p == Owner[c]
        n == ResolveCredential(p, call[c].reason)
        sibling == disk # None /\ ~Expired(disk) /\ disk # Current(p) IN
    /\ call[c].pc = "exchange"
    /\ \/ Return(c)
       \/ /\ sibling
          /\ call' = [call EXCEPT ![c].pc = "answered", ![c].outcome = "success",
                                  ![c].got = disk]
       \/ /\ ~sibling /\ n # None
          /\ call' = [call EXCEPT ![c].pc = "wire", ![c].tried = n,
                                  ![c].fromDisk = (disk # None)]
    /\ UNCHANGED <<disk, mem, verdict, enriching, signing, lockFile, idp, expired,
                   faults, unsafe, reused>>

-----------------------------------------------------------------------------
(* The identity provider                                                   *)

Live(n) == n \in 1 .. minted /\ succ[n] = None /\ n > revoked

\* The provider mints the next credential.
Mint == minted < MaxMint /\ minted' = minted + 1

Answer(c, outcome, n) ==
    call' = [call EXCEPT ![c].pc = "answered", ![c].outcome = outcome, ![c].got = n]

\* A live token is exchanged for its successor.
Granted(c) ==
    /\ call[c].pc = "wire" /\ Live(call[c].tried)
    /\ Mint
    /\ succ' = [succ EXCEPT ![call[c].tried] = minted']
    /\ Answer(c, "success", minted')
    /\ unsafe' = IF LockLost(c) THEN unsafe \cup {minted'} ELSE unsafe
    /\ UNCHANGED <<disk, mem, verdict, enriching, signing, lockFile, revoked, expired,
                   faults, reused>>

\* The exchange failed: unreachable or a server error (transient, "none"),
\* or a rejected client or one failure too many ("other").
Failed(c) ==
    /\ call[c].pc = "wire"
    /\ \/ Answer(c, "none", None)
       \/ Answer(c, "other", call[c].tried)
    /\ UNCHANGED <<disk, mem, verdict, enriching, signing, lockFile, idp, expired,
                   faults, unsafe, reused>>

\* The same to the caller, but the provider has rotated the token.
ResponseLost(c) ==
    /\ call[c].pc = "wire" /\ Live(call[c].tried)
    /\ Fault("lost response")
    /\ Mint
    /\ succ' = [succ EXCEPT ![call[c].tried] = minted']
    /\ unsafe' = unsafe \cup {minted'}
    /\ Answer(c, "none", None) \/ Answer(c, "other", call[c].tried)
    /\ UNCHANGED <<disk, mem, verdict, enriching, signing, lockFile, revoked, expired, reused>>

\* invalid_grant.  Retried once when the disk moved past the token we sent:
\* a fresh credential there is taken, a stale one is sent in its turn.
Rejected(c) ==
    LET n == call[c].tried IN
    /\ call[c].pc = "wire" /\ ~Live(n)
    /\ \/ /\ call[c].retried \/ disk \in {None, n}
          /\ Answer(c, "rejected", n)
       \/ /\ ~call[c].retried /\ disk \notin {None, n} /\ ~Expired(disk)
          /\ Answer(c, "success", disk)
       \/ /\ ~call[c].retried /\ disk \notin {None, n} /\ Expired(disk)
          /\ call' = [call EXCEPT ![c].tried = disk, ![c].fromDisk = TRUE,
                                  ![c].retried = TRUE]
    /\ reused' = IF succ[n] # None /\ call[c].fromDisk /\ ~LockLost(c)
                 THEN reused \cup {n} ELSE reused
    /\ UNCHANGED <<disk, mem, verdict, enriching, signing, lockFile, idp, expired,
                   faults, unsafe>>

-----------------------------------------------------------------------------
(* apply_refresh_outcome, and the sign-in that saves the same way          *)

\* update(): disk, then memory, then the verdict, then the /user task.
Update(p, n, over) ==
    \/ /\ disk' = n
       /\ verdict' = [verdict EXCEPT ![p] = NoVerdict]
       /\ unsafe' = unsafe \cup over
       /\ UNCHANGED faults
       /\ mem' = [mem EXCEPT ![p] = n]
       /\ enriching' = [enriching EXCEPT ![p] = n]
    \/ \* auth.json could not be read (the verdict stays) or written
       /\ Fault("write")
       /\ UNCHANGED disk
       /\ verdict' \in {verdict, [verdict EXCEPT ![p] = NoVerdict]}
       /\ unsafe' = unsafe \cup {n}
       /\ mem' = [mem EXCEPT ![p] = n]
       /\ enriching' = [enriching EXCEPT ![p] = n]

\* A credential from a sign-in, which no exchange gave.
SignedIn(n) == n > 1 /\ \A m \in Cred : succ[m] # n

\* The credentials a writer that cannot know of them drives from the disk:
\* the one saved by a sign-in, which takes no lock, or under another lock
\* file, and then the successor of the one that is put back, too.
Clobbered(c) ==
    IF LockLost(c) THEN {disk, succ[call[c].got]} \ {None}
    ELSE IF SignedIn(disk) THEN {disk} ELSE {}

ApplySuccess(c) ==
    /\ call[c].pc = "answered" /\ call[c].outcome = "success"
    /\ Update(Owner[c], call[c].got, Clobbered(c))
    /\ Return(c)
    /\ UNCHANGED <<signing, lockFile, idp, expired, reused>>

ApplyTransient(c) ==
    /\ call[c].pc = "answered" /\ call[c].outcome = "none"
    /\ Return(c)
    /\ UNCHANGED <<disk, mem, verdict, enriching, signing, lockFile, idp, expired,
                   faults, unsafe, reused>>

\* ClientRejected or Other: keep the credentials, remember the verdict.
ApplyOther(c) ==
    LET p == Owner[c] IN
    /\ call[c].pc = "answered" /\ call[c].outcome = "other"
    /\ \/ CanAdopt(p, call[c].reason) /\ HotSwap(p)
       \/ /\ ~CanAdopt(p, call[c].reason)
          /\ verdict' = [verdict EXCEPT ![p] = [key |-> call[c].got, sticky |-> FALSE]]
          /\ UNCHANGED mem
    /\ Return(c)
    /\ UNCHANGED <<disk, enriching, signing, lockFile, idp, expired, faults, unsafe, reused>>

(* Mutant: the disk is not looked at again before the discard. *)
SupersededNever(n) == FALSE

\* refresh_token_superseded: the disk moved past the token we spent.
Superseded(n) == disk # None /\ disk # n

(* Mutant: the verdict is keyed on the credential in memory. *)
DiscardCached(p, n) ==
    /\ verdict' = [verdict EXCEPT ![p] = [key |-> mem[p], sticky |-> TRUE]]
    /\ mem' = [mem EXCEPT ![p] = None]
    /\ disk' = None /\ UNCHANGED faults

\* The verdict and the discard, each part only where it holds the token we
\* sent; when neither does, both.  auth.json may fail to be written.
Discard(p, n) ==
    LET neither == mem[p] # n /\ disk # n IN
    /\ verdict' = [verdict EXCEPT ![p] = [key |-> n, sticky |-> TRUE]]
    /\ mem' = [mem EXCEPT ![p] = IF @ = n \/ neither THEN None ELSE @]
    /\ \/ disk' = (IF disk = n \/ neither THEN None ELSE disk) /\ UNCHANGED faults
       \/ UNCHANGED disk /\ Fault("write")

\* RefreshTokenRejected: adopt, blame the lost race, or discard.
ApplyRejected(c) ==
    LET p == Owner[c]  n == call[c].got IN
    /\ call[c].pc = "answered" /\ call[c].outcome = "rejected"
    /\ \/ /\ CanAdopt(p, call[c].reason) /\ HotSwap(p)
          /\ UNCHANGED <<disk, faults>>
       \/ /\ ~CanAdopt(p, call[c].reason) /\ Superseded(n)
          /\ UNCHANGED <<disk, mem, verdict, faults>>
       \/ /\ ~CanAdopt(p, call[c].reason) /\ ~Superseded(n)
          /\ Discard(p, n)
    /\ Return(c)
    /\ UNCHANGED <<enriching, signing, lockFile, idp, expired, unsafe, reused>>

-----------------------------------------------------------------------------
(* The rest of a process                                                   *)

\* The proactive loop: adopt what a sibling wrote before refreshing.  With
\* nothing cached the token type is not refreshable and the loop goes on.
PickUpSibling(p) ==
    /\ CanAdopt(p, "PreRequest")
    /\ PermanentFailure(p) \/ (mem[p] # None /\ disk # mem[p])
    /\ HotSwap(p)
    /\ UNCHANGED <<disk, enriching, signing, call, lockFile, idp, expired, faults,
                   unsafe, reused>>

\* The /user task: under the flock, only if the disk still holds what was
\* written; or skipped when the fetch or the lock fails.
EnrichUser(p) ==
    /\ enriching[p] # None
    /\ enriching' = [enriching EXCEPT ![p] = None]
    /\ \/ UNCHANGED mem
       \/ /\ LockFree /\ disk = enriching[p]
          /\ mem' = [mem EXCEPT ![p] = disk]
    /\ UNCHANGED <<disk, verdict, signing, call, lockFile, idp, expired, faults,
                   unsafe, reused>>

\* A sign-in obtains a credential; update() then saves it, without the lock.
SignIn(p) ==
    /\ signing[p] = None
    /\ Fault("sign in")
    /\ Mint
    /\ signing' = [signing EXCEPT ![p] = minted']
    /\ UNCHANGED <<disk, mem, verdict, enriching, call, lockFile, succ, revoked,
                   expired, unsafe, reused>>

SaveSignIn(p) ==
    /\ signing[p] # None
    /\ Update(p, signing[p], {disk} \ {None})
    /\ signing' = [signing EXCEPT ![p] = None]
    /\ UNCHANGED <<call, lockFile, idp, expired, reused>>

\* clear(): the disk entry goes only if the flock is free right now and
\* auth.json can be read; an error of the write leaves the memory too.
Logout(p) ==
    /\ Fault("logout")
    /\ \/ /\ \/ LockFree /\ disk' = None /\ unsafe' = unsafe \cup ({disk} \ {None})
             \/ UNCHANGED <<disk, unsafe>>
          /\ mem' = [mem EXCEPT ![p] = None]
          /\ verdict' = [verdict EXCEPT ![p] = NoVerdict]
       \/ LockFree /\ UNCHANGED <<disk, unsafe, mem, verdict>>
    /\ UNCHANGED <<enriching, signing, call, lockFile, idp, expired, reused>>

-----------------------------------------------------------------------------
(* Time and faults                                                         *)

\* The oldest valid credential enters its expiry buffer.
Expire ==
    /\ expired < minted /\ expired' = expired + 1
    /\ UNCHANGED <<disk, mem, verdict, enriching, signing, call, lockFile, idp,
                   faults, unsafe, reused>>

\* PERMANENT_FAILURE_TTL of a verdict that is not sticky.
AgeVerdict(p) ==
    /\ verdict[p] # NoVerdict /\ ~verdict[p].sticky
    /\ verdict' = [verdict EXCEPT ![p] = NoVerdict]
    /\ UNCHANGED <<disk, mem, enriching, signing, call, lockFile, idp, expired,
                   faults, unsafe, reused>>

\* What the calls of a process carry that is nowhere else.
InFlight(p) == {call[c].got : c \in {d \in Caller : Owner[d] = p
                                        /\ call[d].outcome = "success"}}

\* The process dies and starts again: the kernel drops its flock, and
\* AuthManager::new loads what is on disk.
Crash(p) ==
    /\ Fault("crash")
    /\ call' = [c \in Caller |-> IF Owner[c] = p THEN Idle ELSE call[c]]
    /\ mem' = [mem EXCEPT ![p] = disk]
    /\ verdict' = [verdict EXCEPT ![p] = NoVerdict]
    /\ enriching' = [enriching EXCEPT ![p] = None]
    /\ signing' = [signing EXCEPT ![p] = None]
    /\ unsafe' = unsafe \cup ((InFlight(p) \cup {signing[p]}) \ {None})
    /\ UNCHANGED <<disk, lockFile, idp, expired, reused>>

\* An older binary unlinks auth.json.lock, and the next open creates it anew.
UnlinkLock ==
    /\ Fault("unlink")
    /\ lockFile' = lockFile + 1
    /\ unsafe' = unsafe \cup UNION {InFlight(p) : p \in Proc}
    /\ UNCHANGED <<disk, mem, verdict, enriching, signing, call, idp, expired, reused>>

\* The provider ends the session.
Revoke ==
    /\ Fault("revoke")
    /\ revoked' = minted
    /\ UNCHANGED <<disk, mem, verdict, enriching, signing, call, lockFile, minted, succ,
                   expired, unsafe, reused>>

-----------------------------------------------------------------------------
ChainStep(c) ==
    \/ AcquireLock(c) \/ LockTimeout(c) \/ AdoptOrBail(c)
    \/ Revalidate(c) \/ SendToken(c)
    \/ ApplySuccess(c) \/ ApplyTransient(c) \/ ApplyOther(c) \/ ApplyRejected(c)

Reply(c) == Granted(c) \/ Failed(c) \/ ResponseLost(c) \/ Rejected(c)

Next ==
    \/ \E c \in Caller : PreRequest(c) \/ Recover(c) \/ Recheck(c)
                         \/ ChainStep(c) \/ Reply(c)
    \/ \E p \in Proc : \/ PickUpSibling(p) \/ EnrichUser(p) \/ AgeVerdict(p)
                       \/ SignIn(p) \/ SaveSignIn(p) \/ Logout(p) \/ Crash(p)
    \/ Expire \/ UnlinkLock \/ Revoke

Spec == Init /\ [][Next]_vars

-----------------------------------------------------------------------------
TypeOK ==
    /\ disk \in Cred \cup {None}
    /\ mem \in [Proc -> Cred \cup {None}]
    /\ verdict \in [Proc -> [key : Cred \cup {None}, sticky : BOOLEAN]]
    /\ enriching \in [Proc -> Cred \cup {None}]
    /\ signing \in [Proc -> Cred \cup {None}]
    /\ call \in [Caller -> [pc : Steps, reason : Reasons, pre : Cred \cup {None},
                            ino : 0 .. 2, tried : Cred \cup {None},
                            fromDisk : BOOLEAN, retried : BOOLEAN,
                            outcome : Outcomes, got : Cred \cup {None}]]
    /\ lockFile \in 1 .. 2
    /\ minted \in Cred
    /\ succ \in [Cred -> Cred \cup {None}]
    /\ revoked \in 0 .. MaxMint
    /\ expired \in 0 .. MaxMint
    /\ faults \subseteq Kinds
    /\ unsafe \subseteq Cred
    /\ reused \subseteq Cred
    /\ \A c \in Caller :
        /\ call[c].pc = "wire" => call[c].tried # None
        /\ call[c].outcome # "none" => call[c].pc = "answered" /\ call[c].got # None

(* A refresh token found on disk is sent a second time only when its first  *)
(* successor had no fair chance to be written: its response was lost, its   *)
(* process died or could not write it, or the lock file was replaced while  *)
(* it was in flight.                                                        *)
SpentOnce == \A n \in reused : succ[n] \in unsafe

(* The provider's live refresh token is on disk, or in an answer still to  *)
(* be applied, unless it had no fair chance: no adoption, verdict, discard  *)
(* or late write of a sibling ever drops it.                                *)
NoLostRotation ==
    \A n \in 1 .. minted :
        Live(n) => \/ n \in unsafe \/ n = disk
                   \/ \E p \in Proc : n \in InFlight(p) \/ n = signing[p]

(* A sticky verdict, which only a sign-in lifts, is never held against a    *)
(* token the provider would still accept.                                   *)
VerdictOnDeadToken ==
    \A p \in Proc : verdict[p].sticky => ~Live(verdict[p].key)
=============================================================================

-------------------------- MODULE AuthRefreshProofs -------------------------
(***************************************************************************)
(* For any number of processes, callers and credentials, and any mix of    *)
(* faults: no live rotation is lost, no token on disk is spent twice, and  *)
(* no live token is condemned, unless the history variable unsafe says     *)
(* that the credential had no fair chance.                                 *)
(***************************************************************************)
EXTENDS AuthRefresh, TLAPS

\* The lock under which the others look at the disk.
Holds(c) == call[c].ino = lockFile

\* A credential whose disappearance from the disk costs nothing, or is
\* accounted for.
Forgotten(n) == ~Live(n) \/ n \in unsafe \/ SignedIn(n)

\* A token that is unspent, or whose successor had no fair chance.
SpentSafely(n) == succ[n] \in unsafe \cup {None}

\* Nothing is in circulation that the provider has not minted.
Minted ==
    /\ disk <= minted
    /\ \A p \in Proc : mem[p] <= minted /\ verdict[p].key <= minted /\ signing[p] <= minted
    /\ \A c \in Caller : call[c].tried <= minted /\ call[c].got <= minted
    /\ \A n \in Cred : succ[n] <= minted /\ (n > minted => succ[n] = None)

\* One caller for each lock file, from the acquisition to the end.
LockHeld ==
    /\ lockFile = 2 => "unlink" \in faults
    /\ \A c \in Caller :
        /\ call[c].ino <= lockFile
        /\ call[c].ino # 0 <=> call[c].pc \in {"held", "exchange", "wire", "answered"}
    /\ \A c, d \in Caller : call[c].ino = call[d].ino /\ call[c].ino # 0 => c = d

RejectedIsDead == \A c \in Caller : call[c].outcome = "rejected" => ~Live(call[c].got)

\* A sign-in's credential is nowhere else before it is saved.
FreshSignIn ==
    \A p \in Proc : signing[p] # None =>
        /\ SignedIn(signing[p]) /\ succ[signing[p]] = None /\ signing[p] # disk
        /\ \A q \in Proc : mem[q] # signing[p] /\ (q # p => signing[q] # signing[p])
        /\ \A c \in Caller : call[c].tried # signing[p] /\ call[c].got # signing[p]

\* While a caller holds the lock, the disk stays as the exchange found it,
\* except for what is expendable.
HolderKnowsDisk ==
    \A c \in Caller : Holds(c) =>
        /\ call[c].pc = "wire" => disk \in {None, call[c].tried} \/ Forgotten(disk)
        /\ call[c].outcome = "success" => disk \in {None, call[c].got} \/ Forgotten(disk)

\* A caller that lost its lock has nothing of value to write.
LostAnswers ==
    \A c \in Caller : LockLost(c) /\ call[c].outcome = "success" =>
        call[c].got = disk \/ Forgotten(call[c].got)

\* A spent token is on disk only while its successor is on its way there.
SpentOnDisk ==
    disk # None => \/ SpentSafely(disk)
                   \/ \E c \in Caller : /\ Holds(c) /\ call[c].outcome = "success"
                                        /\ call[c].got = succ[disk]

\* The token the holder of the lock sends, or is about to write, is unspent.
SpentInHand ==
    \A c \in Caller : Holds(c) =>
        /\ call[c].pc = "wire" /\ call[c].fromDisk => SpentSafely(call[c].tried)
        /\ call[c].outcome = "success" => SpentSafely(call[c].got)

\* NoLostRotation without the detour through the processes.
RotationKept ==
    \A n \in 1 .. minted : Live(n) =>
        \/ n \in unsafe \/ n = disk
        \/ \E c \in Caller : call[c].outcome = "success" /\ call[c].got = n
        \/ \E p \in Proc : signing[p] = n

(* TypeOK in three parts: the calls, the other variables, and what a call   *)
(* carries at each of its steps.                                            *)
CallRec == [pc : Steps, reason : Reasons, pre : Cred \cup {None}, ino : 0 .. 2,
            tried : Cred \cup {None}, fromDisk : BOOLEAN, retried : BOOLEAN,
            outcome : Outcomes, got : Cred \cup {None}]
CallsTyped == call \in [Caller -> CallRec]
ValuesTyped ==
    /\ disk \in Cred \cup {None}
    /\ mem \in [Proc -> Cred \cup {None}]
    /\ verdict \in [Proc -> [key : Cred \cup {None}, sticky : BOOLEAN]]
    /\ enriching \in [Proc -> Cred \cup {None}]
    /\ signing \in [Proc -> Cred \cup {None}]
    /\ lockFile \in 1 .. 2
    /\ minted \in Cred
    /\ succ \in [Cred -> Cred \cup {None}]
    /\ revoked \in 0 .. MaxMint
    /\ expired \in 0 .. MaxMint
    /\ faults \subseteq Kinds
    /\ unsafe \subseteq Cred
    /\ reused \subseteq Cred
CallsShaped ==
    \A c \in Caller :
        /\ call[c].pc = "wire" => call[c].tried # None
        /\ call[c].outcome # "none" => call[c].pc = "answered" /\ call[c].got # None

Content ==
    /\ Minted /\ RejectedIsDead /\ FreshSignIn /\ HolderKnowsDisk /\ LostAnswers
    /\ SpentOnDisk /\ SpentInHand /\ RotationKept /\ SpentOnce /\ VerdictOnDeadToken

IInv == CallsTyped /\ ValuesTyped /\ CallsShaped /\ LockHeld /\ Content

-----------------------------------------------------------------------------
LEMMA TypeParts == CallsTyped /\ ValuesTyped /\ CallsShaped => TypeOK
  BY DEF TypeOK, CallsTyped, CallRec, ValuesTyped, CallsShaped

LEMMA Numbers == /\ None = 0 /\ Cred \subseteq Nat
                 /\ \A n \in Cred \cup {None} : n \in Nat /\ n <= MaxMint
                 /\ \A n \in Cred : n # None
  BY AuthAssumption DEF None, Cred

LEMMA IdleTyped == Idle \in CallRec
  BY DEF Idle, CallRec, Steps, Reasons, Outcomes, None

(* One call changes.                                                        *)
LEMMA OneCall ==
    ASSUME CallsTyped, NEW c \in Caller, NEW r \in CallRec, call' = [call EXCEPT ![c] = r]
    PROVE  CallsTyped' /\ call'[c] = r /\ \A d \in Caller \ {c} : call'[d] = call[d]
  BY DEF CallsTyped

(* The call of c goes on without sending or receiving anything.             *)
Moves(c) ==
    /\ CallsTyped'
    /\ \A d \in Caller \ {c} : call'[d] = call[d]
    /\ call[c].outcome # "success"
    /\ call'[c].outcome \in {"none", "other"} /\ call'[c].pc # "wire"
    /\ call'[c].outcome = "other" => call'[c].pc = "answered" /\ call'[c].got # None
    /\ call'[c].tried \in {None, call[c].tried}
    /\ call'[c].got \in {None, call[c].got, call[c].tried}
    /\ call'[c].ino \in {0, call[c].ino} \/ (LockFree /\ call'[c].ino = lockFile)
    /\ call'[c].ino # 0 <=> call'[c].pc \in {"held", "exchange", "wire", "answered"}

(* Steps that neither write the disk, spend a token nor obtain a credential *)
Quiet ==
    /\ UNCHANGED <<disk, signing, lockFile, idp, unsafe, reused>>
    /\ faults \subseteq faults'
    /\ \A p \in Proc : mem'[p] \in {mem[p], disk}
    /\ \A p \in Proc : verdict'[p] = verdict[p]
                       \/ (verdict'[p].sticky = FALSE /\ verdict'[p].key <= minted)
    /\ call' = call \/ \E c \in Caller : Moves(c)

LEMMA QuietKeeps ==
    ASSUME IInv, Quiet, ValuesTyped' PROVE IInv'
  <1>a. PICK c : call' = call \/ (c \in Caller /\ Moves(c))
    BY DEF Quiet
  <1>b. /\ CallsTyped'
        /\ \A d \in Caller :
            \/ call'[d] = call[d]
            \/ /\ call[d].outcome # "success"
               /\ call'[d].outcome \in {"none", "other"} /\ call'[d].pc # "wire"
               /\ call'[d].tried \in {None, call[d].tried}
               /\ call'[d].got \in {None, call[d].got, call[d].tried}
    BY <1>a DEF Moves, IInv, CallsTyped
  <1>c. CallsShaped'
    BY <1>a DEF Moves, IInv, CallsShaped
  <1>d. LockHeld'
    <2>1. CASE call' = call
      BY <2>1 DEF Quiet, IInv, LockHeld
    <2>2. CASE c \in Caller /\ Moves(c)
      <3>1. \A d \in Caller : call[d].ino \in 0 .. 2 /\ lockFile \in 1 .. 2
        BY DEF IInv, CallsTyped, CallRec, ValuesTyped
      <3>2. lockFile' = lockFile /\ (lockFile' = 2 => "unlink" \in faults')
        BY DEF Quiet, IInv, LockHeld
      <3>3. \A d \in Caller :
              /\ call'[d].ino <= lockFile'
              /\ call'[d].ino # 0 <=> call'[d].pc \in {"held", "exchange", "wire", "answered"}
        BY <2>2, <3>1, <3>2 DEF Moves, IInv, LockHeld
      <3>4. \A d, e \in Caller : call'[d].ino = call'[e].ino /\ call'[d].ino # 0 => d = e
        BY <2>2, <3>1 DEF Moves, IInv, LockHeld, LockFree
      <3> QED
        BY <3>2, <3>3, <3>4 DEF LockHeld
    <2> QED
      BY <1>a, <2>1, <2>2
  <1> HIDE DEF Quiet
  <1>e. UNCHANGED <<disk, signing, lockFile, minted, succ, revoked, unsafe, reused>>
    BY DEF Quiet, idp
  <1>1. Minted'
    <2>1. 0 <= minted
      BY Numbers DEF IInv, ValuesTyped
    <2>2. \A p \in Proc : mem'[p] <= minted /\ verdict'[p].key <= minted
      BY DEF Quiet, IInv, Content, Minted
    <2>3. \A d \in Caller : call'[d].tried <= minted /\ call'[d].got <= minted
      BY <1>b, <2>1, Numbers DEF IInv, Content, Minted
    <2> QED
      BY <1>e, <2>2, <2>3 DEF IInv, Content, Minted
  <1>2. RejectedIsDead'
    BY <1>b, <1>e DEF IInv, Content, RejectedIsDead, Live
  <1>3. FreshSignIn'
    BY <1>b, <1>e DEF Quiet, IInv, Content, FreshSignIn, SignedIn
  <1>4. HolderKnowsDisk'
    BY <1>b, <1>e DEF IInv, Content, HolderKnowsDisk, Holds, Forgotten, Live, SignedIn
  <1>5. LostAnswers'
    BY <1>b, <1>e DEF IInv, Content, LostAnswers, LockLost, Forgotten, Live, SignedIn
  <1>6. SpentOnDisk'
    BY <1>b, <1>e DEF IInv, Content, SpentOnDisk, SpentSafely, Holds
  <1>7. SpentInHand'
    BY <1>b, <1>e DEF IInv, Content, SpentInHand, SpentSafely, Holds
  <1>8. RotationKept'
    BY <1>b, <1>e DEF IInv, Content, RotationKept, Live
  <1>9. SpentOnce'
    BY <1>e DEF IInv, Content, SpentOnce
  <1>10. VerdictOnDeadToken'
    BY <1>e DEF Quiet, IInv, Content, VerdictOnDeadToken, Live
  <1> QED
    BY <1>b, <1>c, <1>d, <1>1, <1>2, <1>3, <1>4, <1>5, <1>6, <1>7, <1>8, <1>9, <1>10 DEF IInv, Content

-----------------------------------------------------------------------------
(* What the quiet steps are made of                                         *)

LEMMA Returns ==
    ASSUME IInv, NEW c \in Caller, Return(c), call[c].outcome # "success"
    PROVE  Moves(c)
  <1>1. CallsTyped' /\ call'[c] = Idle /\ \A d \in Caller \ {c} : call'[d] = call[d]
    BY OneCall, IdleTyped DEF IInv, Return
  <1> QED
    BY <1>1 DEF Moves, Idle

LEMMA GoesTo ==
    ASSUME IInv, NEW c \in Caller, NEW s \in Steps, Goto(c, s), call[c].outcome = "none",
           s # "wire", call[c].ino # 0 <=> s \in {"held", "exchange", "wire", "answered"}
    PROVE  Moves(c)
  <1>1. call[c] \in CallRec
    BY DEF IInv, CallsTyped
  <1>2. [call[c] EXCEPT !.pc = s] \in CallRec
    BY <1>1 DEF CallRec
  <1>3. call' = [call EXCEPT ![c] = [call[c] EXCEPT !.pc = s]]
    BY DEF Goto, IInv, CallsTyped
  <1>4. CallsTyped' /\ call'[c] = [call[c] EXCEPT !.pc = s]
        /\ \A d \in Caller \ {c} : call'[d] = call[d]
    BY <1>2, <1>3, OneCall DEF IInv
  <1> QED
    BY <1>1, <1>4 DEF Moves, CallRec

LEMMA Answers ==
    ASSUME IInv, NEW c \in Caller, NEW o \in Outcomes, NEW n \in Cred \cup {None}, Answer(c, o, n)
    PROVE  /\ CallsTyped' /\ \A d \in Caller \ {c} : call'[d] = call[d]
           /\ call'[c].pc = "answered" /\ call'[c].outcome = o /\ call'[c].got = n
           /\ call'[c].tried = call[c].tried /\ call'[c].ino = call[c].ino
  <1>1. call[c] \in CallRec /\ "answered" \in Steps
    BY DEF IInv, CallsTyped, Steps
  <1>2. [call[c] EXCEPT !.pc = "answered", !.outcome = o, !.got = n] \in CallRec
    BY <1>1 DEF CallRec
  <1>3. call' = [call EXCEPT ![c] = [call[c] EXCEPT !.pc = "answered", !.outcome = o, !.got = n]]
    BY DEF Answer, IInv, CallsTyped, CallRec
  <1>4. /\ CallsTyped' /\ \A d \in Caller \ {c} : call'[d] = call[d]
        /\ call'[c] = [call[c] EXCEPT !.pc = "answered", !.outcome = o, !.got = n]
    BY <1>2, <1>3, OneCall DEF IInv
  <1> QED
    BY <1>1, <1>4 DEF CallRec

\* hot_swap takes the disk's credential and lifts the verdict.
LEMMA Swaps ==
    ASSUME IInv, NEW p \in Proc, HotSwap(p)
    PROVE  /\ mem' \in [Proc -> Cred \cup {None}]
           /\ verdict' \in [Proc -> [key : Cred \cup {None}, sticky : BOOLEAN]]
           /\ \A q \in Proc : mem'[q] \in {mem[q], disk}
           /\ \A q \in Proc : verdict'[q] = verdict[q]
                              \/ (verdict'[q].sticky = FALSE /\ verdict'[q].key <= minted)
  <1>1. NoVerdict \in [key : Cred \cup {None}, sticky : BOOLEAN] /\ NoVerdict.sticky = FALSE
        /\ NoVerdict.key <= minted
    BY Numbers DEF NoVerdict, IInv, ValuesTyped
  <1> QED
    BY <1>1 DEF HotSwap, IInv, ValuesTyped

LEMMA Stays ==
    ASSUME IInv, UNCHANGED <<mem, verdict>>
    PROVE  /\ mem' \in [Proc -> Cred \cup {None}]
           /\ verdict' \in [Proc -> [key : Cred \cup {None}, sticky : BOOLEAN]]
           /\ \A q \in Proc : mem'[q] \in {mem[q], disk}
           /\ \A q \in Proc : verdict'[q] = verdict[q]
                              \/ (verdict'[q].sticky = FALSE /\ verdict'[q].key <= minted)
  BY DEF IInv, ValuesTyped

LEMMA Enters ==
    ASSUME IInv, NEW c \in Caller, NEW reason \in Reasons, call[c].pc = "idle",
           EnterChain(c, reason)
    PROVE  (call' = call \/ Moves(c)) /\ (HotSwap(Owner[c]) \/ UNCHANGED <<mem, verdict>>)
  <1>1. CASE UNCHANGED call /\ HotSwap(Owner[c])
    BY <1>1
  <1>2. CASE /\ call' = [call EXCEPT ![c] = [Idle EXCEPT !.pc = "mutex", !.reason = reason,
                                                         !.pre = Current(Owner[c])]]
             /\ UNCHANGED <<mem, verdict>>
    <2> DEFINE r == [Idle EXCEPT !.pc = "mutex", !.reason = reason, !.pre = Current(Owner[c])]
    <2>1. Current(Owner[c]) \in Cred \cup {None}
      BY AuthAssumption DEF Current, IInv, ValuesTyped
    <2>2. "mutex" \in Steps
      BY DEF Steps
    <2>3. r \in CallRec
      BY <2>1, <2>2, IdleTyped DEF CallRec
    <2>4. r.pc = "mutex" /\ r.outcome = "none" /\ r.tried = None /\ r.got = None /\ r.ino = 0
      BY DEF Idle
    <2> HIDE DEF r
    <2>5. CallsTyped' /\ call'[c] = r /\ \A d \in Caller \ {c} : call'[d] = call[d]
      BY <1>2, <2>3, OneCall DEF IInv, r
    <2>6. call[c].outcome = "none"
      BY DEF IInv, CallsShaped
    <2> QED
      BY <1>2, <2>4, <2>5, <2>6 DEF Moves
  <1> QED
    BY <1>1, <1>2 DEF EnterChain

-----------------------------------------------------------------------------
(* The quiet steps                                                          *)

\* AdoptOr leaves a quiet step quiet.
LEMMA AdoptsOr ==
    ASSUME IInv, NEW c \in Caller, call[c].outcome # "success",
           \/ HotSwap(Owner[c]) /\ Return(c)
           \/ Moves(c) /\ UNCHANGED <<mem, verdict>>,
           UNCHANGED <<disk, enriching, signing, lockFile, idp, expired, faults, unsafe, reused>>
    PROVE  IInv'
  <1>1. Moves(c)
    BY Returns
  <1>2. /\ mem' \in [Proc -> Cred \cup {None}]
        /\ verdict' \in [Proc -> [key : Cred \cup {None}, sticky : BOOLEAN]]
        /\ \A q \in Proc : mem'[q] \in {mem[q], disk}
        /\ \A q \in Proc : verdict'[q] = verdict[q]
                           \/ (verdict'[q].sticky = FALSE /\ verdict'[q].key <= minted)
    BY Swaps, Stays, AuthAssumption
  <1>3. Quiet
    BY <1>1, <1>2 DEF Quiet
  <1>4. ValuesTyped'
    BY <1>2 DEF IInv, ValuesTyped, idp
  <1> QED
    BY <1>3, <1>4, QuietKeeps

LEMMA EntersKeeps ==
    ASSUME IInv, NEW c \in Caller, NEW reason \in Reasons, call[c].pc = "idle",
           EnterChain(c, reason) \/ (HotSwap(Owner[c]) /\ UNCHANGED call),
           UNCHANGED <<disk, enriching, signing, lockFile, idp, expired, faults, unsafe, reused>>
    PROVE  IInv'
  <1>1. (call' = call \/ Moves(c)) /\ (HotSwap(Owner[c]) \/ UNCHANGED <<mem, verdict>>)
    BY Enters
  <1>2. /\ mem' \in [Proc -> Cred \cup {None}]
        /\ verdict' \in [Proc -> [key : Cred \cup {None}, sticky : BOOLEAN]]
        /\ \A q \in Proc : mem'[q] \in {mem[q], disk}
        /\ \A q \in Proc : verdict'[q] = verdict[q]
                           \/ (verdict'[q].sticky = FALSE /\ verdict'[q].key <= minted)
    BY <1>1, Swaps, Stays, AuthAssumption
  <1>3. Quiet
    BY <1>1, <1>2 DEF Quiet
  <1>4. ValuesTyped'
    BY <1>2 DEF IInv, ValuesTyped, idp
  <1> QED
    BY <1>3, <1>4, QuietKeeps

LEMMA PreRequestKeeps == \A c \in Caller : IInv /\ PreRequest(c) => IInv'
  BY EntersKeeps DEF PreRequest, Reasons

LEMMA RecoverKeeps == \A c \in Caller : IInv /\ Recover(c) => IInv'
  BY EntersKeeps DEF Recover, Reasons

LEMMA RecheckKeeps == \A c \in Caller : IInv /\ Recheck(c) => IInv'
  <1> SUFFICES ASSUME NEW c \in Caller, IInv, Recheck(c) PROVE IInv'
    OBVIOUS
  <1>1. call[c].outcome = "none" /\ call[c].ino = 0
    BY DEF Recheck, IInv, CallsShaped, LockHeld
  <1>2. Goto(c, "lock") => Moves(c)
    BY <1>1, GoesTo DEF Steps
  <1>3. \/ HotSwap(Owner[c]) /\ Return(c)
        \/ Moves(c) /\ UNCHANGED <<mem, verdict>>
    BY <1>1, <1>2, Returns DEF Recheck, AdoptOr
  <1> QED
    BY <1>1, <1>3, AdoptsOr DEF Recheck

LEMMA AcquireLockKeeps == \A c \in Caller : IInv /\ AcquireLock(c) => IInv'
  <1> SUFFICES ASSUME NEW c \in Caller, IInv, AcquireLock(c) PROVE IInv'
    OBVIOUS
  <1>1. call[c].outcome = "none"
    BY DEF AcquireLock, IInv, CallsShaped
  <1>2. ASSUME call' = [call EXCEPT ![c].ino = lockFile,
                            ![c].pc = IF @ = "lock" THEN "held" ELSE "exchange"]
        PROVE  Moves(c)
    <2> DEFINE s == IF call[c].pc = "lock" THEN "held" ELSE "exchange"
               r == [call[c] EXCEPT !.ino = lockFile, !.pc = s]
    <2>1. s \in Steps /\ s \in {"held", "exchange"}
      BY DEF Steps
    <2> HIDE DEF s
    <2>2. call[c] \in CallRec /\ lockFile \in 0 .. 2 /\ lockFile # 0
      BY DEF IInv, CallsTyped, ValuesTyped
    <2>3. r \in CallRec
      BY <2>1, <2>2 DEF CallRec
    <2>4. call' = [call EXCEPT ![c] = r]
      BY <1>2 DEF IInv, CallsTyped, CallRec, s
    <2>5. /\ r.ino = lockFile /\ r.pc = s /\ r.outcome = call[c].outcome
          /\ r.tried = call[c].tried /\ r.got = call[c].got
      BY <2>2 DEF CallRec
    <2> HIDE DEF r
    <2>6. CallsTyped' /\ call'[c] = r /\ \A d \in Caller \ {c} : call'[d] = call[d]
      BY <2>3, <2>4, OneCall DEF IInv
    <2> QED
      BY <1>1, <2>1, <2>2, <2>5, <2>6 DEF Moves, AcquireLock
  <1>3. \/ HotSwap(Owner[c]) /\ Return(c)
        \/ Moves(c) /\ UNCHANGED <<mem, verdict>>
    BY <1>2 DEF AcquireLock, AdoptOr
  <1> QED
    BY <1>1, <1>3, AdoptsOr DEF AcquireLock

LEMMA LockTimeoutKeeps == \A c \in Caller : IInv /\ LockTimeout(c) => IInv'
  <1> SUFFICES ASSUME NEW c \in Caller, IInv, LockTimeout(c) PROVE IInv'
    OBVIOUS
  <1>1. call[c].outcome = "none" /\ call[c].ino = 0
    BY DEF LockTimeout, IInv, CallsShaped, LockHeld
  <1>2. Moves(c)
    BY <1>1, GoesTo DEF LockTimeout, Steps
  <1> QED
    BY <1>1, <1>2, AdoptsOr DEF LockTimeout

LEMMA AdoptOrBailKeeps == \A c \in Caller : IInv /\ AdoptOrBail(c) => IInv'
  <1> SUFFICES ASSUME NEW c \in Caller, IInv, AdoptOrBail(c) PROVE IInv'
    OBVIOUS
  <1>1. call[c].outcome = "none"
    BY DEF AdoptOrBail, IInv, CallsShaped
  <1> QED
    BY <1>1, Returns, AdoptsOr DEF AdoptOrBail, AdoptOr

LEMMA RevalidateKeeps == \A c \in Caller : IInv /\ Revalidate(c) => IInv'
  <1> SUFFICES ASSUME NEW c \in Caller, IInv, Revalidate(c) PROVE IInv'
    OBVIOUS
  <1>1. call[c].outcome = "none" /\ call[c].ino # 0
    BY DEF Revalidate, IInv, CallsShaped, LockHeld
  <1>2. ASSUME call' = [call EXCEPT ![c].ino = 0, ![c].pc = "relock"]
        PROVE  Moves(c)
    <2> DEFINE r == [call[c] EXCEPT !.ino = 0, !.pc = "relock"]
    <2>1. call[c] \in CallRec /\ "relock" \in Steps /\ 0 \in 0 .. 2
      BY DEF IInv, CallsTyped, Steps
    <2>2. r \in CallRec
      BY <2>1 DEF CallRec
    <2>3. call' = [call EXCEPT ![c] = r]
      BY <1>2 DEF IInv, CallsTyped, CallRec
    <2>4. /\ r.ino = 0 /\ r.pc = "relock" /\ r.outcome = call[c].outcome
          /\ r.tried = call[c].tried /\ r.got = call[c].got
      BY <2>1 DEF CallRec
    <2> HIDE DEF r
    <2>5. CallsTyped' /\ call'[c] = r /\ \A d \in Caller \ {c} : call'[d] = call[d]
      BY <2>2, <2>3, OneCall DEF IInv
    <2> QED
      BY <1>1, <2>4, <2>5 DEF Moves
  <1>3. Goto(c, "exchange") => Moves(c)
    BY <1>1, GoesTo DEF Steps
  <1>4. Moves(c)
    BY <1>1, <1>2, <1>3, Returns DEF Revalidate
  <1> QED
    BY <1>1, <1>4, AdoptsOr DEF Revalidate

LEMMA FailedKeeps == \A c \in Caller : IInv /\ Failed(c) => IInv'
  <1> SUFFICES ASSUME NEW c \in Caller, IInv, Failed(c) PROVE IInv'
    OBVIOUS
  <1>1. /\ call[c].outcome = "none" /\ call[c].ino # 0
        /\ call[c].tried # None /\ call[c].tried \in Cred \cup {None}
    BY DEF Failed, IInv, CallsShaped, LockHeld, CallsTyped, CallRec
  <1>2. CASE Answer(c, "none", None)
    <2>1. Moves(c)
      BY <1>1, <1>2, Answers DEF Outcomes, Moves
    <2> QED
      BY <1>1, <2>1, AdoptsOr DEF Failed
  <1>3. CASE Answer(c, "other", call[c].tried)
    <2>1. Moves(c)
      BY <1>1, <1>3, Answers DEF Outcomes, Moves
    <2> QED
      BY <1>1, <2>1, AdoptsOr DEF Failed
  <1> QED
    BY <1>2, <1>3 DEF Failed

LEMMA ApplyTransientKeeps == \A c \in Caller : IInv /\ ApplyTransient(c) => IInv'
  <1> SUFFICES ASSUME NEW c \in Caller, IInv, ApplyTransient(c) PROVE IInv'
    OBVIOUS
  <1>1. call[c].outcome # "success"
    BY DEF ApplyTransient
  <1>2. Moves(c)
    BY <1>1, Returns DEF ApplyTransient
  <1> QED
    BY <1>1, <1>2, AdoptsOr DEF ApplyTransient

LEMMA ApplyOtherKeeps == \A c \in Caller : IInv /\ ApplyOther(c) => IInv'
  <1> SUFFICES ASSUME NEW c \in Caller, IInv, ApplyOther(c) PROVE IInv'
    OBVIOUS
  <1>1. call[c].outcome # "success" /\ Return(c) /\ Owner[c] \in Proc
    BY AuthAssumption DEF ApplyOther
  <1>2. CASE HotSwap(Owner[c])
    BY <1>1, <1>2, AdoptsOr DEF ApplyOther
  <1>3. CASE /\ verdict' = [verdict EXCEPT ![Owner[c]] = [key |-> call[c].got, sticky |-> FALSE]]
             /\ UNCHANGED mem
    <2>1. call[c].got \in Cred \cup {None} /\ call[c].got <= minted
      BY DEF IInv, CallsTyped, CallRec, Content, Minted
    <2>2. [key |-> call[c].got, sticky |-> FALSE] \in [key : Cred \cup {None}, sticky : BOOLEAN]
      BY <2>1
    <2>3. ValuesTyped'
      BY <1>1, <1>3, <2>2 DEF ApplyOther, IInv, ValuesTyped, idp
    <2>4. Quiet
      BY <1>1, <1>3, <2>1, Returns DEF ApplyOther, Quiet, IInv, ValuesTyped
    <2> QED
      BY <2>3, <2>4, QuietKeeps
  <1> QED
    BY <1>2, <1>3 DEF ApplyOther

LEMMA PickUpSiblingKeeps == \A p \in Proc : IInv /\ PickUpSibling(p) => IInv'
  <1> SUFFICES ASSUME NEW p \in Proc, IInv, PickUpSibling(p) PROVE IInv'
    OBVIOUS
  <1>1. Quiet
    BY Swaps DEF PickUpSibling, Quiet
  <1>2. ValuesTyped'
    BY Swaps DEF PickUpSibling, IInv, ValuesTyped, idp
  <1> QED
    BY <1>1, <1>2, QuietKeeps

LEMMA EnrichUserKeeps == \A p \in Proc : IInv /\ EnrichUser(p) => IInv'
  <1> SUFFICES ASSUME NEW p \in Proc, IInv, EnrichUser(p) PROVE IInv'
    OBVIOUS
  <1>1. Quiet
    BY DEF EnrichUser, Quiet, IInv, ValuesTyped
  <1>2. ValuesTyped'
    BY DEF EnrichUser, IInv, ValuesTyped, idp
  <1> QED
    BY <1>1, <1>2, QuietKeeps

LEMMA AgeVerdictKeeps == \A p \in Proc : IInv /\ AgeVerdict(p) => IInv'
  <1> SUFFICES ASSUME NEW p \in Proc, IInv, AgeVerdict(p) PROVE IInv'
    OBVIOUS
  <1>1. /\ NoVerdict \in [key : Cred \cup {None}, sticky : BOOLEAN]
        /\ NoVerdict.sticky = FALSE /\ NoVerdict.key <= minted
    BY Numbers DEF NoVerdict, IInv, ValuesTyped
  <1>2. Quiet
    BY <1>1 DEF AgeVerdict, Quiet, IInv, ValuesTyped
  <1>3. ValuesTyped'
    BY <1>1 DEF AgeVerdict, IInv, ValuesTyped, idp
  <1> QED
    BY <1>2, <1>3, QuietKeeps

LEMMA ExpireKeeps == IInv /\ Expire => IInv'
  <1> SUFFICES ASSUME IInv, Expire PROVE IInv'
    OBVIOUS
  <1>1. Quiet
    BY DEF Expire, Quiet
  <1>2. expired' \in 0 .. MaxMint
    BY Numbers, AuthAssumption DEF Expire, IInv, ValuesTyped
  <1>3. ValuesTyped'
    BY <1>2 DEF Expire, IInv, ValuesTyped, idp
  <1> QED
    BY <1>1, <1>3, QuietKeeps

-----------------------------------------------------------------------------
(* Sending and receiving                                                    *)

\* Only the call of c moves, between steps that hold a lock.
CallStep(c) ==
    /\ CallsTyped'
    /\ \A d \in Caller \ {c} : call'[d] = call[d]
    /\ call[c].outcome = "none" /\ call[c].ino # 0 /\ call'[c].ino = call[c].ino
    /\ call'[c].pc \in {"wire", "answered"}

LEMMA CallStepLocks ==
    ASSUME IInv, NEW c \in Caller, CallStep(c), lockFile' = lockFile, faults \subseteq faults'
    PROVE  LockHeld'
  <1>1. \A d \in Caller : call'[d].ino = call[d].ino
    BY DEF CallStep
  <1>2. \A d \in Caller : call'[d].ino # 0
                          <=> call'[d].pc \in {"held", "exchange", "wire", "answered"}
    BY DEF CallStep, IInv, LockHeld
  <1>3. lockFile' = 2 => "unlink" \in faults'
    BY DEF IInv, LockHeld
  <1>4. \A d, e \in Caller : call'[d].ino = call'[e].ino /\ call'[d].ino # 0 => d = e
    BY <1>1 DEF IInv, LockHeld
  <1> QED
    BY <1>1, <1>2, <1>3, <1>4 DEF IInv, LockHeld

\* The holder of the lock is the only one.
LEMMA HoldsOrLost ==
    ASSUME IInv, NEW c \in Caller, call[c].ino # 0
    PROVE  /\ Holds(c) \/ LockLost(c)
           /\ Holds(c) => \A d \in Caller \ {c} : ~Holds(d)
  BY DEF IInv, LockHeld, Holds, LockLost

\* What is on disk when its reader holds the lock and carries no answer.
LEMMA DiskUnspent ==
    ASSUME IInv, NEW c \in Caller, call[c].outcome = "none", Holds(c), disk # None
    PROVE  SpentSafely(disk)
  <1>1. call[c].ino # 0
    BY DEF Holds, IInv, ValuesTyped
  <1> QED
    BY <1>1, HoldsOrLost DEF IInv, Content, SpentOnDisk

\* A token goes out: the one on disk, or the one in memory when there is none.
LEMMA SendsKeeps ==
    ASSUME IInv, NEW c \in Caller, CallStep(c),
           call'[c].pc = "wire", call'[c].outcome = "none", call'[c].got = call[c].got,
           call'[c].tried # None,
           \/ call'[c].tried = disk
           \/ disk = None /\ ~call'[c].fromDisk /\ \E p \in Proc : call'[c].tried = mem[p],
           UNCHANGED <<disk, mem, verdict, enriching, signing, lockFile, idp, expired,
                       faults, unsafe>>,
           reused' \subseteq Cred, SpentOnce'
    PROVE  IInv'
  <1>a. LockHeld' /\ CallsTyped'
    BY CallStepLocks DEF CallStep
  <1>b. ValuesTyped'
    BY DEF IInv, ValuesTyped, idp
  <1>c. CallsShaped'
    BY DEF CallStep, IInv, CallsShaped
  <1>1. Minted'
    BY DEF CallStep, IInv, Content, Minted, idp
  <1>2. RejectedIsDead'
    BY DEF CallStep, IInv, Content, RejectedIsDead, Live, idp
  <1>3. FreshSignIn'
    BY DEF CallStep, IInv, Content, FreshSignIn, SignedIn, idp
  <1>4. HolderKnowsDisk'
    BY DEF CallStep, IInv, Content, HolderKnowsDisk, Holds, Forgotten, Live, SignedIn, idp
  <1>5. LostAnswers'
    BY DEF CallStep, IInv, Content, LostAnswers, LockLost, Forgotten, Live, SignedIn, idp
  <1>6. SpentOnDisk'
    BY DEF CallStep, IInv, Content, SpentOnDisk, SpentSafely, Holds, idp
  <1>7. SpentInHand'
    <2>1. Holds(c) /\ call'[c].fromDisk => SpentSafely(call'[c].tried)
      BY DiskUnspent DEF CallStep
    <2> QED
      BY <2>1 DEF CallStep, IInv, Content, SpentInHand, SpentSafely, Holds, idp
  <1>8. RotationKept'
    BY DEF CallStep, IInv, Content, RotationKept, Live, idp
  <1>9. VerdictOnDeadToken'
    BY DEF IInv, Content, VerdictOnDeadToken, Live, idp
  <1> QED
    BY <1>a, <1>b, <1>c, <1>1, <1>2, <1>3, <1>4, <1>5, <1>6, <1>7, <1>8, <1>9 DEF IInv, Content

\* The answer is the credential a sibling has put on disk.
LEMMA AnswersDiskKeeps ==
    ASSUME IInv, NEW c \in Caller, CallStep(c), disk # None,
           call'[c].pc = "answered", call'[c].outcome = "success", call'[c].got = disk,
           call'[c].tried = call[c].tried,
           UNCHANGED <<disk, mem, verdict, enriching, signing, lockFile, idp, expired,
                       faults, unsafe>>,
           reused' \subseteq Cred, SpentOnce'
    PROVE  IInv'
  <1>a. LockHeld' /\ CallsTyped'
    BY CallStepLocks DEF CallStep
  <1>b. ValuesTyped'
    BY DEF IInv, ValuesTyped, idp
  <1>c. CallsShaped'
    BY DEF CallStep, IInv, CallsShaped
  <1>1. Minted'
    BY DEF CallStep, IInv, Content, Minted, idp
  <1>2. RejectedIsDead'
    BY DEF CallStep, IInv, Content, RejectedIsDead, Live, idp
  <1>3. FreshSignIn'
    BY DEF CallStep, IInv, Content, FreshSignIn, SignedIn, idp
  <1>4. HolderKnowsDisk'
    BY DEF CallStep, IInv, Content, HolderKnowsDisk, Holds, Forgotten, Live, SignedIn, idp
  <1>5. LostAnswers'
    BY DEF CallStep, IInv, Content, LostAnswers, LockLost, Forgotten, Live, SignedIn, idp
  <1>6. SpentOnDisk'
    BY DEF CallStep, IInv, Content, SpentOnDisk, SpentSafely, Holds, idp
  <1>7. SpentInHand'
    <2>1. Holds(c) => SpentSafely(disk)
      BY DiskUnspent DEF CallStep
    <2> QED
      BY <2>1 DEF CallStep, IInv, Content, SpentInHand, SpentSafely, Holds, idp
  <1>8. RotationKept'
    BY DEF CallStep, IInv, Content, RotationKept, Live, idp
  <1>9. VerdictOnDeadToken'
    BY DEF IInv, Content, VerdictOnDeadToken, Live, idp
  <1> QED
    BY <1>a, <1>b, <1>c, <1>1, <1>2, <1>3, <1>4, <1>5, <1>6, <1>7, <1>8, <1>9 DEF IInv, Content

\* The provider refuses a token that is not live.
LEMMA RefusesKeeps ==
    ASSUME IInv, NEW c \in Caller, CallStep(c), call[c].pc = "wire", ~Live(call[c].tried),
           call'[c].pc = "answered", call'[c].outcome = "rejected",
           call'[c].got = call[c].tried, call'[c].tried = call[c].tried,
           UNCHANGED <<disk, mem, verdict, enriching, signing, lockFile, idp, expired,
                       faults, unsafe>>,
           reused' \subseteq Cred, SpentOnce'
    PROVE  IInv'
  <1>a. LockHeld' /\ CallsTyped'
    BY CallStepLocks DEF CallStep
  <1>b. ValuesTyped'
    BY DEF IInv, ValuesTyped, idp
  <1>c. CallsShaped'
    BY DEF CallStep, IInv, CallsShaped
  <1>1. Minted'
    BY DEF CallStep, IInv, Content, Minted, idp
  <1>2. RejectedIsDead'
    BY DEF CallStep, IInv, Content, RejectedIsDead, Live, idp
  <1>3. FreshSignIn'
    BY DEF CallStep, IInv, Content, FreshSignIn, SignedIn, idp
  <1>4. HolderKnowsDisk'
    BY DEF CallStep, IInv, Content, HolderKnowsDisk, Holds, Forgotten, Live, SignedIn, idp
  <1>5. LostAnswers'
    BY DEF CallStep, IInv, Content, LostAnswers, LockLost, Forgotten, Live, SignedIn, idp
  <1>6. SpentOnDisk'
    BY DEF CallStep, IInv, Content, SpentOnDisk, SpentSafely, Holds, idp
  <1>7. SpentInHand'
    BY DEF CallStep, IInv, Content, SpentInHand, SpentSafely, Holds, idp
  <1>8. RotationKept'
    BY DEF CallStep, IInv, Content, RotationKept, Live, idp
  <1>9. VerdictOnDeadToken'
    BY DEF IInv, Content, VerdictOnDeadToken, Live, idp
  <1> QED
    BY <1>a, <1>b, <1>c, <1>1, <1>2, <1>3, <1>4, <1>5, <1>6, <1>7, <1>8, <1>9 DEF IInv, Content

\* The provider spends the token of c and mints its successor, which c
\* carries home, unless it is lost with the answer or the lock is.
LEMMA RotatesKeeps ==
    ASSUME IInv, NEW c \in Caller, CallStep(c), call[c].pc = "wire", Live(call[c].tried),
           Mint, succ' = [succ EXCEPT ![call[c].tried] = minted'],
           call'[c].pc = "answered", call'[c].tried = call[c].tried,
           \/ call'[c].outcome = "success" /\ call'[c].got = minted'
           \/ call'[c].outcome = "none" /\ call'[c].got = None
           \/ call'[c].outcome = "other" /\ call'[c].got = call[c].tried,
           unsafe' \in {unsafe, unsafe \cup {minted'}},
           minted' \in unsafe' \/ (~LockLost(c) /\ call'[c].outcome = "success"),
           faults \subseteq faults', faults' \subseteq Kinds,
           UNCHANGED <<disk, mem, verdict, enriching, signing, lockFile, revoked, expired, reused>>
    PROVE  IInv'
  <1>k. PICK t, m : t = call[c].tried /\ m = minted'
    OBVIOUS
  <1>t. /\ t \in Cred /\ t <= minted /\ succ[t] = None
        /\ minted \in Nat /\ m = minted + 1 /\ m \in Cred /\ m # None
        /\ succ[m] = None /\ m # t /\ None = 0
    BY <1>k, Numbers, AuthAssumption DEF IInv, CallsTyped, CallRec, ValuesTyped, Content, Minted, Live, Mint, Cred, None
  <1>s. /\ succ'[t] = m /\ \A n \in Cred \ {t} : succ'[n] = succ[n]
        /\ succ' \in [Cred -> Cred \cup {None}]
    BY <1>k, <1>t DEF IInv, ValuesTyped
  <1>n. /\ disk \in Nat /\ disk <= minted
        /\ \A p \in Proc : /\ mem[p] \in Nat /\ mem[p] <= minted
                           /\ signing[p] \in Nat /\ signing[p] <= minted
                           /\ verdict[p].key \in Nat /\ verdict[p].key <= minted
        /\ \A d \in Caller : /\ call[d].tried \in Nat /\ call[d].tried <= minted
                             /\ call[d].got \in Nat /\ call[d].got <= minted
        /\ \A n \in Cred : n \in Nat /\ succ[n] \in Nat /\ succ[n] <= minted
    BY <1>k, Numbers DEF IInv, ValuesTyped, CallsTyped, CallRec, Content, Minted
  <1>l. \A n \in Nat : n <= minted /\ Live(n)' => Live(n) /\ n # t
    BY <1>k, <1>t, <1>s DEF Live, Cred, IInv, ValuesTyped
  <1>f. \A n \in Nat : n <= minted /\ Forgotten(n) => Forgotten(n)'
    BY <1>k, <1>t, <1>s, <1>l DEF Forgotten, SignedIn
  <1>h. Holds(c) \/ m \in unsafe'
    BY <1>k, HoldsOrLost DEF CallStep
  <1>a. LockHeld' /\ CallsTyped'
    BY <1>k, CallStepLocks DEF CallStep
  <1>b. ValuesTyped'
    BY <1>k, <1>t, <1>s DEF IInv, ValuesTyped
  <1>c. CallsShaped'
    BY <1>k, <1>t DEF CallStep, IInv, CallsShaped
  <1>1. Minted'
    <2>1. \A n \in Cred : succ'[n] <= m /\ (n > m => succ'[n] = None)
      BY <1>k, <1>t, <1>s, <1>n DEF IInv, Content, Minted
    <2>2. \A d \in Caller : call'[d].tried <= m /\ call'[d].got <= m
      BY <1>k, <1>t, <1>n DEF CallStep
    <2> QED
      BY <1>k, <1>t, <1>n, <2>1, <2>2 DEF Minted
  <1>2. RejectedIsDead'
    BY <1>k, <1>l, <1>n DEF CallStep, IInv, Content, RejectedIsDead, Live
  <1>3. FreshSignIn'
    BY <1>k, <1>t, <1>s, <1>n DEF CallStep, IInv, Content, FreshSignIn, SignedIn
  <1>4. HolderKnowsDisk'
    <2>1. ASSUME NEW d \in Caller \ {c}, Holds(d)'
          PROVE  /\ call'[d].pc = "wire" => disk' \in {None, call'[d].tried} \/ Forgotten(disk)'
                 /\ call'[d].outcome = "success" => disk' \in {None, call'[d].got} \/ Forgotten(disk)'
      BY <1>k, <2>1, <1>f, <1>n DEF CallStep, IInv, Content, HolderKnowsDisk, Holds, Forgotten, Live, SignedIn
    <2>2. ASSUME Holds(c)' PROVE disk = None \/ Forgotten(disk)'
      <3>1. disk \in {None, t} \/ Forgotten(disk)
        BY <1>k, <2>2 DEF CallStep, IInv, Content, HolderKnowsDisk, Holds
      <3>2. ~Live(t)'
        BY <1>t, <1>l, Numbers
      <3> QED
        BY <1>k, <3>1, <3>2, <1>f, <1>n DEF Forgotten, Live, SignedIn
    <2> QED
      BY <1>k, <2>1, <2>2 DEF HolderKnowsDisk
  <1>5. LostAnswers'
    <2>1. LockLost(c)' => m \in unsafe'
      BY <1>k, <1>h DEF CallStep, LockLost, Holds
    <2>2. ASSUME NEW d \in Caller \ {c}, LockLost(d)', call'[d].outcome = "success"
          PROVE  call'[d].got = disk' \/ Forgotten(call[d].got)'
      BY <1>k, <2>2, <1>f, <1>n DEF CallStep, IInv, Content, LostAnswers, LockLost, Forgotten, Live, SignedIn
    <2> QED
      BY <1>k, <2>1, <2>2 DEF LostAnswers, Forgotten, LockLost
  <1>6. SpentOnDisk'
    <2>1. CASE disk = t
      BY <1>k, <2>1, <1>h, <1>s DEF CallStep, SpentOnDisk, SpentSafely, Holds
    <2>2. CASE disk # t /\ disk # None
      <3>1. disk \in Cred /\ succ'[disk] = succ[disk]
        BY <1>k, <2>2, <1>s DEF IInv, ValuesTyped
      <3>2. SpentSafely(disk) \/ \E d \in Caller : Holds(d) /\ call[d].outcome = "success"
                                                   /\ call[d].got = succ[disk]
        BY <1>k, <2>2 DEF IInv, Content, SpentOnDisk
      <3> QED
        BY <1>k, <2>2, <3>1, <3>2 DEF CallStep, SpentOnDisk, SpentSafely, Holds
    <2> QED
      BY <1>k, <2>1, <2>2 DEF SpentOnDisk
  <1>7. SpentInHand'
    <2>1. SpentSafely(m)'
      BY <1>t, <1>s DEF SpentSafely
    <2>2. ASSUME NEW d \in Caller \ {c}, Holds(d), NEW n \in Cred, SpentSafely(n)
          PROVE  succ'[n] \in unsafe' \cup {None}
      <3>1. m \in unsafe'
        BY <1>k, <2>2, <1>h, HoldsOrLost DEF CallStep
      <3> QED
        BY <1>k, <2>2, <3>1, <1>s DEF SpentSafely
    <2>3. ASSUME NEW d \in Caller \ {c}, Holds(d)
          PROVE  /\ call[d].pc = "wire" /\ call[d].fromDisk => SpentSafely(call[d].tried)
                 /\ call[d].pc = "wire" => call[d].tried \in Cred
                 /\ call[d].outcome = "success" => SpentSafely(call[d].got) /\ call[d].got \in Cred
      BY <1>k, <2>3 DEF IInv, Content, SpentInHand, CallsShaped, CallsTyped, CallRec
    <2> QED
      BY <1>k, <2>1, <2>2, <2>3 DEF CallStep, SpentInHand, SpentSafely, Holds
  <1>8. RotationKept'
    <2>1. SUFFICES ASSUME NEW n \in 1 .. m, Live(n)'
                   PROVE  \/ n \in unsafe' \/ n = disk'
                          \/ \E d \in Caller : call'[d].outcome = "success" /\ call'[d].got = n
                          \/ \E p \in Proc : signing'[p] = n
      BY <1>k DEF RotationKept
    <2>2. CASE n = m
      BY <1>k, <2>2
    <2>3. CASE n # m
      <3>1. n \in 1 .. minted /\ Live(n)
        BY <1>k, <2>1, <2>3, <1>t, <1>l
      <3> QED
        BY <1>k, <3>1 DEF CallStep, IInv, Content, RotationKept
    <2> QED
      BY <1>k, <2>2, <2>3
  <1>9. SpentOnce'
    BY <1>k, Numbers, <1>t, <1>s DEF IInv, Content, SpentOnce, ValuesTyped
  <1>10. VerdictOnDeadToken'
    BY <1>k, <1>l, <1>n DEF IInv, Content, VerdictOnDeadToken, Live
  <1> QED
    BY <1>k, <1>a, <1>b, <1>c, <1>1, <1>2, <1>3, <1>4, <1>5, <1>6, <1>7, <1>8, <1>9, <1>10 DEF IInv, Content

LEMMA GrantedKeeps == \A c \in Caller : IInv /\ Granted(c) => IInv'
  <1> SUFFICES ASSUME NEW c \in Caller, IInv, Granted(c) PROVE IInv'
    OBVIOUS
  <1>1. call[c].outcome = "none" /\ call[c].ino # 0 /\ call[c].pc = "wire"
    BY DEF Granted, IInv, CallsShaped, LockHeld
  <1>2. minted' \in Cred \cup {None} /\ "success" \in Outcomes
    BY AuthAssumption DEF Granted, Mint, IInv, ValuesTyped, Cred, Outcomes
  <1>3. /\ CallsTyped' /\ \A d \in Caller \ {c} : call'[d] = call[d]
        /\ call'[c].pc = "answered" /\ call'[c].outcome = "success" /\ call'[c].got = minted'
        /\ call'[c].tried = call[c].tried /\ call'[c].ino = call[c].ino
    BY <1>2, Answers DEF Granted
  <1>4. CallStep(c)
    BY <1>1, <1>3 DEF CallStep
  <1>5. faults' \subseteq Kinds
    BY DEF Granted, IInv, ValuesTyped
  <1> QED
    BY <1>1, <1>3, <1>4, <1>5, RotatesKeeps DEF Granted

LEMMA ResponseLostKeeps == \A c \in Caller : IInv /\ ResponseLost(c) => IInv'
  <1> SUFFICES ASSUME NEW c \in Caller, IInv, ResponseLost(c) PROVE IInv'
    OBVIOUS
  <1>1. call[c].outcome = "none" /\ call[c].ino # 0 /\ call[c].pc = "wire"
    BY DEF ResponseLost, IInv, CallsShaped, LockHeld
  <1>2. /\ None \in Cred \cup {None} /\ call[c].tried \in Cred \cup {None}
        /\ "none" \in Outcomes /\ "other" \in Outcomes
    BY DEF IInv, CallsTyped, CallRec, Outcomes
  <1>3. /\ CallsTyped' /\ \A d \in Caller \ {c} : call'[d] = call[d]
        /\ call'[c].pc = "answered"
        /\ call'[c].tried = call[c].tried /\ call'[c].ino = call[c].ino
        /\ \/ call'[c].outcome = "none" /\ call'[c].got = None
           \/ call'[c].outcome = "other" /\ call'[c].got = call[c].tried
    <2>1. CASE Answer(c, "none", None)
      BY <1>2, <2>1, Answers
    <2>2. CASE Answer(c, "other", call[c].tried)
      <3>1. PICK n \in Cred \cup {None} : n = call[c].tried
        BY <1>2
      <3>2. Answer(c, "other", n)
        BY <2>2, <3>1
      <3> QED
        BY <1>2, <3>1, <3>2, Answers
    <2> QED
      BY <2>1, <2>2 DEF ResponseLost
  <1>4. CallStep(c)
    BY <1>1, <1>3 DEF CallStep
  <1>5. faults \subseteq faults' /\ faults' \subseteq Kinds
    BY AuthAssumption DEF ResponseLost, Fault
  <1> QED
    BY <1>1, <1>3, <1>4, <1>5, RotatesKeeps DEF ResponseLost

\* The request of c goes out with the token n.
LEMMA Requests ==
    ASSUME IInv, NEW c \in Caller, NEW n \in Cred, NEW b \in BOOLEAN, NEW r \in BOOLEAN,
           call[c].outcome = "none", call[c].ino # 0,
           call' = [call EXCEPT ![c] = [call[c] EXCEPT !.pc = "wire", !.tried = n,
                                                       !.fromDisk = b, !.retried = r]]
    PROVE  /\ CallStep(c) /\ call'[c].pc = "wire" /\ call'[c].outcome = "none"
           /\ call'[c].got = call[c].got /\ call'[c].tried = n /\ call'[c].fromDisk = b
  <1>1. call[c] \in CallRec /\ "wire" \in Steps
    BY DEF IInv, CallsTyped, Steps
  <1>2. [call[c] EXCEPT !.pc = "wire", !.tried = n, !.fromDisk = b, !.retried = r] \in CallRec
    BY <1>1 DEF CallRec
  <1>3. /\ CallsTyped' /\ \A d \in Caller \ {c} : call'[d] = call[d]
        /\ call'[c] = [call[c] EXCEPT !.pc = "wire", !.tried = n, !.fromDisk = b, !.retried = r]
    BY <1>2, OneCall DEF IInv
  <1> QED
    <2>a. PICK s \in CallRec : s = call[c]
      BY <1>1
    <2>b. PICK s2 : s2 = [s EXCEPT !.pc = "wire", !.tried = n, !.fromDisk = b, !.retried = r]
      OBVIOUS
    <2>c. /\ s2.pc = "wire" /\ s2.outcome = s.outcome /\ s2.got = s.got /\ s2.tried = n
          /\ s2.fromDisk = b /\ s2.ino = s.ino
      BY <2>b DEF CallRec
    <2>1. /\ call'[c].pc = "wire" /\ call'[c].outcome = call[c].outcome
          /\ call'[c].got = call[c].got /\ call'[c].tried = n /\ call'[c].fromDisk = b
          /\ call'[c].ino = call[c].ino
      BY <1>3, <2>a, <2>b, <2>c
    <2> QED
      BY <1>3, <2>1 DEF CallStep

LEMMA SendTokenKeeps == \A c \in Caller : IInv /\ SendToken(c) => IInv'
  <1> SUFFICES ASSUME NEW c \in Caller, IInv, SendToken(c) PROVE IInv'
    OBVIOUS
  <1>1. call[c].outcome = "none" /\ call[c].ino # 0 /\ call[c].pc = "exchange"
    BY DEF SendToken, IInv, CallsShaped, LockHeld
  <1>p. PICK n : n = ResolveCredential(Owner[c], call[c].reason)
    OBVIOUS
  <1>2. reused' \subseteq Cred /\ SpentOnce'
    BY DEF SendToken, idp, IInv, ValuesTyped, Content, SpentOnce
  <1>3. CASE Return(c)
    BY <1>1, <1>3, Returns, AdoptsOr DEF SendToken
  <1>4. CASE /\ disk # None
             /\ call' = [call EXCEPT ![c].pc = "answered", ![c].outcome = "success",
                                     ![c].got = disk]
    <2>a. PICK n0 \in Cred \cup {None} : n0 = disk
      BY DEF IInv, ValuesTyped
    <2>1. Answer(c, "success", n0) /\ "success" \in Outcomes
      BY <1>4, <2>a DEF Answer, Outcomes
    <2>2. /\ CallsTyped' /\ \A d \in Caller \ {c} : call'[d] = call[d]
          /\ call'[c].pc = "answered" /\ call'[c].outcome = "success" /\ call'[c].got = disk
          /\ call'[c].tried = call[c].tried /\ call'[c].ino = call[c].ino
      BY <2>a, <2>1, Answers
    <2>3. CallStep(c)
      BY <1>1, <2>2 DEF CallStep
    <2> QED
      BY <1>2, <1>4, <2>2, <2>3, AnswersDiskKeeps DEF SendToken
  <1>5. CASE /\ n # None
             /\ call' = [call EXCEPT ![c].pc = "wire", ![c].tried = n,
                                     ![c].fromDisk = (disk # None)]
    <2>1. n \in Cred /\ (n = disk \/ (disk = None /\ \E p \in Proc : n = mem[p]))
      BY <1>5, <1>p, AuthAssumption DEF ResolveCredential, ExpiredAuth, Current, IInv, ValuesTyped
    <2>2. call[c] \in CallRec
      BY DEF IInv, CallsTyped
    <2>3. call[c].retried \in BOOLEAN /\ (disk # None) \in BOOLEAN
      BY <2>2 DEF CallRec
    <2>4. call' = [call EXCEPT ![c] = [call[c] EXCEPT !.pc = "wire", !.tried = n,
                                  !.fromDisk = (disk # None), !.retried = call[c].retried]]
      BY <1>5, <2>2 DEF IInv, CallsTyped, CallRec
    <2>5. /\ CallStep(c) /\ call'[c].pc = "wire" /\ call'[c].outcome = "none"
          /\ call'[c].got = call[c].got /\ call'[c].tried = n
          /\ call'[c].fromDisk = (disk # None)
      BY <1>1, <2>1, <2>3, <2>4, Requests
    <2> QED
      BY <1>2, <1>5, <2>1, <2>5, SendsKeeps DEF SendToken
  <1> QED
    BY <1>3, <1>4, <1>5, <1>p DEF SendToken

LEMMA RejectedKeeps == \A c \in Caller : IInv /\ Rejected(c) => IInv'
  <1> SUFFICES ASSUME NEW c \in Caller, IInv, Rejected(c) PROVE IInv'
    OBVIOUS
  <1>1. call[c].outcome = "none" /\ call[c].ino # 0 /\ call[c].pc = "wire"
        /\ call[c].tried \in Cred /\ call[c] \in CallRec
    BY DEF Rejected, IInv, CallsShaped, LockHeld, CallsTyped, CallRec
  <1>2. reused' \subseteq Cred
    BY <1>1 DEF Rejected, IInv, ValuesTyped
  \* a holder sends from the disk only what is unspent
  <1>3. SpentOnce'
    <2>1. succ[call[c].tried] # None /\ call[c].fromDisk /\ ~LockLost(c)
              => succ[call[c].tried] \in unsafe
      BY <1>1, HoldsOrLost DEF IInv, Content, SpentInHand, SpentSafely
    <2>2. UNCHANGED <<succ, unsafe>>
      BY DEF Rejected, idp
    <2> QED
      BY <2>1, <2>2 DEF Rejected, IInv, Content, SpentOnce
  <1>4. CASE Answer(c, "rejected", call[c].tried)
    <2>1. "rejected" \in Outcomes
      BY DEF Outcomes
    <2>2. /\ CallsTyped' /\ \A d \in Caller \ {c} : call'[d] = call[d]
          /\ call'[c].pc = "answered" /\ call'[c].outcome = "rejected"
          /\ call'[c].got = call[c].tried
          /\ call'[c].tried = call[c].tried /\ call'[c].ino = call[c].ino
      BY <1>1, <1>4, <2>1, Answers
    <2>3. CallStep(c)
      BY <1>1, <2>2 DEF CallStep
    <2> QED
      BY <1>1, <1>2, <1>3, <2>2, <2>3, RefusesKeeps DEF Rejected
  <1>5. CASE disk # None /\ Answer(c, "success", disk)
    <2>a. PICK n0 \in Cred \cup {None} : n0 = disk
      BY DEF IInv, ValuesTyped
    <2>1. Answer(c, "success", n0) /\ "success" \in Outcomes
      BY <1>5, <2>a DEF Outcomes
    <2>2. /\ CallsTyped' /\ \A d \in Caller \ {c} : call'[d] = call[d]
          /\ call'[c].pc = "answered" /\ call'[c].outcome = "success" /\ call'[c].got = disk
          /\ call'[c].tried = call[c].tried /\ call'[c].ino = call[c].ino
      BY <2>a, <2>1, Answers
    <2>3. CallStep(c)
      BY <1>1, <2>2 DEF CallStep
    <2> QED
      BY <1>2, <1>3, <1>5, <2>2, <2>3, AnswersDiskKeeps DEF Rejected
  <1>6. CASE /\ disk # None
             /\ call' = [call EXCEPT ![c].tried = disk, ![c].fromDisk = TRUE,
                                     ![c].retried = TRUE]
    <2>1. disk \in Cred
      BY <1>6 DEF IInv, ValuesTyped
    <2>2. call' = [call EXCEPT ![c] = [call[c] EXCEPT !.pc = "wire", !.tried = disk,
                                                      !.fromDisk = TRUE, !.retried = TRUE]]
      BY <1>1, <1>6 DEF IInv, CallsTyped, CallRec
    <2>3. /\ CallStep(c) /\ call'[c].pc = "wire" /\ call'[c].outcome = "none"
          /\ call'[c].got = call[c].got /\ call'[c].tried = disk
      BY <1>1, <2>1, <2>2, Requests
    <2> QED
      BY <1>2, <1>3, <1>6, <2>3, SendsKeeps DEF Rejected
  <1> QED
    BY <1>4, <1>5, <1>6 DEF Rejected

-----------------------------------------------------------------------------
(* Saving, discarding, crashing: the disk and the memories change, and      *)
(* calls end.                                                               *)

\* What a step must respect: the credential it drives from the disk is
\* accounted for, the one it puts there surprises no holder of the lock and
\* is unspent, and a call or sign-in that ends leaves nothing live behind.
Settles ==
    /\ UNCHANGED <<lockFile, idp, reused>>
    /\ CallsTyped' /\ ValuesTyped'
    /\ unsafe \subseteq unsafe' /\ faults \subseteq faults'
    /\ disk' <= minted
    /\ disk \in unsafe' \cup {None, disk'} \/ ~Live(disk)
    /\ \/ disk' \in {None, disk} \/ Forgotten(disk')
       \/ \A d \in Caller : call'[d].ino # lockFile
    /\ \/ disk' = None \/ succ[disk'] \in unsafe' \cup {None}
       \/ /\ disk' = disk
          /\ \A d \in Caller : call[d].outcome = "success" =>
                                  call'[d] = call[d] \/ call[d].got \in unsafe'
    /\ \A d \in Caller :
        \/ call'[d] = call[d]
        \/ /\ call'[d] = Idle
           /\ call[d].outcome = "success" => call[d].got \in unsafe' \cup {disk'}
    /\ \A p \in Proc :
        \/ signing'[p] = signing[p] /\ (signing[p] = None \/ signing[p] # disk')
        \/ signing'[p] = None /\ signing[p] \in unsafe' \cup {None, disk'}
    /\ \A p \in Proc : mem'[p] <= minted
    /\ \A p, q \in Proc : signing'[q] = None \/ mem'[p] # signing'[q]
    /\ \A p \in Proc :
        \/ verdict'[p] = verdict[p]
        \/ verdict'[p].key <= minted /\ (verdict'[p].sticky => ~Live(verdict'[p].key))

LEMMA SettlesKeeps ==
    ASSUME IInv, Settles PROVE IInv'
  <1>u. UNCHANGED <<lockFile, minted, succ, revoked, reused>>
    BY DEF Settles, idp
  <1>i. /\ Idle.pc = "idle" /\ Idle.outcome = "none" /\ Idle.ino = 0
        /\ Idle.tried = None /\ Idle.got = None
    BY DEF Idle
  <1>d. \A d \in Caller :
          \/ call'[d] = call[d]
          \/ /\ call'[d].pc = "idle" /\ call'[d].outcome = "none" /\ call'[d].ino = 0
             /\ call'[d].tried = None /\ call'[d].got = None
             /\ call[d].outcome = "success" => call[d].got \in unsafe' \cup {disk'}
    BY <1>i DEF Settles
  <1>l. \A n \in Cred \cup {None} : Live(n)' <=> Live(n)
    BY <1>u DEF Live
  <1>f. \A n \in Cred \cup {None} : Forgotten(n) => Forgotten(n)'
    BY <1>u, <1>l DEF Forgotten, SignedIn, Settles
  <1>z. minted \in Nat /\ None <= minted
    BY Numbers DEF IInv, ValuesTyped
  <1>a. LockHeld'
    <2>1. lockFile' = 2 => "unlink" \in faults'
      BY DEF Settles, IInv, LockHeld
    <2>2. 0 <= lockFile /\ \A d \in Caller : call[d].ino <= lockFile
      BY DEF IInv, ValuesTyped, LockHeld
    <2>3. \A d \in Caller :
            /\ call'[d].ino <= lockFile
            /\ call'[d].ino # 0 <=> call'[d].pc \in {"held", "exchange", "wire", "answered"}
      BY <1>d, <2>2 DEF IInv, LockHeld
    <2>4. \A d, e \in Caller : call'[d].ino = call'[e].ino /\ call'[d].ino # 0 => d = e
      BY <1>d DEF IInv, LockHeld
    <2> QED
      BY <1>u, <2>1, <2>3, <2>4 DEF LockHeld
  <1>c. CallsShaped'
    BY <1>d DEF IInv, CallsShaped
  <1>1. Minted'
    <2>1. \A d \in Caller : call'[d].tried <= minted /\ call'[d].got <= minted
      BY <1>d, <1>z DEF IInv, Content, Minted
    <2>2. \A p \in Proc : mem'[p] <= minted /\ verdict'[p].key <= minted /\ signing'[p] <= minted
      BY <1>z DEF Settles, IInv, Content, Minted
    <2> QED
      BY <1>u, <2>1, <2>2 DEF Settles, IInv, Content, Minted
  <1>2. RejectedIsDead'
    BY <1>d, <1>u DEF IInv, Content, RejectedIsDead, Live
  <1>3. FreshSignIn'
    <2>1. SUFFICES ASSUME NEW p \in Proc, signing'[p] # None
          PROVE  /\ SignedIn(signing[p])' /\ succ'[signing'[p]] = None /\ signing'[p] # disk'
                 /\ \A q \in Proc : mem'[q] # signing'[p] /\ (q # p => signing'[q] # signing'[p])
                 /\ \A d \in Caller : call'[d].tried # signing'[p] /\ call'[d].got # signing'[p]
      BY DEF FreshSignIn, SignedIn
    <2>2. signing'[p] = signing[p] /\ signing[p] # disk' /\ signing[p] # None
      BY <2>1 DEF Settles
    <2>3. \A q \in Proc : mem'[q] # signing'[p] /\ (q # p => signing'[q] # signing'[p])
      BY <2>1, <2>2 DEF Settles, IInv, Content, FreshSignIn
    <2>4. \A d \in Caller : call'[d].tried # signing'[p] /\ call'[d].got # signing'[p]
      BY <1>d, <2>1, <2>2 DEF IInv, Content, FreshSignIn
    <2> QED
      BY <1>u, <2>2, <2>3, <2>4 DEF IInv, Content, FreshSignIn, SignedIn
  <1>4. HolderKnowsDisk'
    <2>1. SUFFICES ASSUME NEW d \in Caller, call'[d].ino = lockFile
          PROVE  /\ call'[d].pc = "wire" => disk' \in {None, call'[d].tried} \/ Forgotten(disk)'
                 /\ call'[d].outcome = "success" => disk' \in {None, call'[d].got} \/ Forgotten(disk)'
      BY <1>u DEF HolderKnowsDisk, Holds, Forgotten, Live, SignedIn
    <2>2. call'[d] = call[d] /\ Holds(d)
      BY <1>d, <2>1 DEF Holds, IInv, ValuesTyped
    <2>3. disk' \in {None, disk} \/ Forgotten(disk')
      BY <2>1 DEF Settles
    <2>4. PICK g : g = disk' /\ g \in Cred \cup {None} /\ disk \in Cred \cup {None}
      BY DEF Settles, IInv, ValuesTyped
    <2>5. CASE Forgotten(disk')
      <3>1. Forgotten(g)'
        BY <1>f, <2>4, <2>5
      <3> QED
        BY <3>1, <2>4 DEF Forgotten, Live, SignedIn
    <2>6. CASE disk' = disk
      <3>1. Forgotten(disk) => Forgotten(g)'
        BY <1>f, <2>4, <2>6
      <3>2. Forgotten(disk) => Forgotten(disk)'
        BY <3>1, <2>4 DEF Forgotten, Live, SignedIn
      <3> QED
        BY <2>2, <2>6, <3>2 DEF IInv, Content, HolderKnowsDisk
    <2> QED
      BY <2>3, <2>5, <2>6
  <1>5. LostAnswers'
    <2>1. SUFFICES ASSUME NEW d \in Caller, call'[d].ino \notin {0, lockFile}, call'[d].outcome = "success"
          PROVE  call'[d].got = disk' \/ Forgotten(call[d].got)'
      BY <1>d, <1>u DEF LostAnswers, LockLost, Forgotten, Live, SignedIn
    <2>2. call'[d] = call[d] /\ LockLost(d)
      BY <1>d, <2>1 DEF LockLost
    <2>3. call[d].got = disk \/ Forgotten(call[d].got)
      BY <2>1, <2>2 DEF IInv, Content, LostAnswers
    <2>4. PICK g : g = call[d].got /\ g \in Cred
      BY <2>1, <2>2 DEF IInv, CallsTyped, CallRec, CallsShaped
    <2>5. g = disk' \/ Forgotten(g)'
      <3>1. CASE Forgotten(g)
        BY <1>f, <3>1, <2>4
      <3>2. CASE g = disk /\ g # disk'
        <4>1. g # None
          BY <2>4, Numbers
        <4>2. g \in unsafe' \/ ~Live(g)
          BY <3>2, <4>1 DEF Settles
        <4> QED
          BY <1>l, <4>2, <2>4 DEF Forgotten
      <3> QED
        BY <3>1, <3>2, <2>3, <2>4
    <2> QED
      BY <2>2, <2>4, <2>5 DEF Forgotten, Live, SignedIn
  <1>6. SpentOnDisk'
    <2>1. CASE disk' = None \/ succ[disk'] \in unsafe' \cup {None}
      BY <2>1, <1>u DEF SpentOnDisk, SpentSafely
    <2>2. CASE /\ disk' = disk /\ disk # None
               /\ \A d \in Caller : call[d].outcome = "success" =>
                                  call'[d] = call[d] \/ call[d].got \in unsafe'
      <3>1. CASE SpentSafely(disk)
        BY <2>2, <3>1, <1>u DEF Settles, SpentOnDisk, SpentSafely
      <3>2. CASE \E c \in Caller : Holds(c) /\ call[c].outcome = "success" /\ call[c].got = succ[disk]
        BY <2>2, <3>2, <1>u DEF SpentOnDisk, SpentSafely, Holds
      <3> QED
        BY <2>2, <3>1, <3>2 DEF IInv, Content, SpentOnDisk
    <2> QED
      BY <2>1, <2>2 DEF Settles
  <1>7. SpentInHand'
    BY <1>d, <1>u DEF Settles, IInv, Content, SpentInHand, SpentSafely, Holds
  <1>8. RotationKept'
    <2>1. SUFFICES ASSUME NEW n \in 1 .. minted, Live(n), n \notin unsafe', n # disk'
          PROVE  \/ \E d \in Caller : call'[d].outcome = "success" /\ call'[d].got = n
                 \/ \E p \in Proc : signing'[p] = n
      BY <1>u DEF RotationKept, Live
    <2>2. n # None /\ n # disk
      BY <2>1 DEF Settles, None
    <2>3. \/ \E d \in Caller : call[d].outcome = "success" /\ call[d].got = n
          \/ \E p \in Proc : signing[p] = n
      BY <2>1, <2>2 DEF IInv, Content, RotationKept, Settles
    <2> QED
      BY <2>1, <2>2, <2>3, <1>d DEF Settles
  <1>9. SpentOnce'
    BY <1>u DEF Settles, IInv, Content, SpentOnce
  <1>10. VerdictOnDeadToken'
    BY <1>u DEF Settles, IInv, Content, VerdictOnDeadToken, Live
  <1> QED
    BY <1>a, <1>c, <1>1, <1>2, <1>3, <1>4, <1>5, <1>6, <1>7, <1>8, <1>9, <1>10 DEF Settles, IInv, Content

\* NoVerdict condemns nothing.
LEMMA NoVerdictFacts ==
    ASSUME IInv
    PROVE  /\ NoVerdict \in [key : Cred \cup {None}, sticky : BOOLEAN]
           /\ NoVerdict.sticky = FALSE /\ NoVerdict.key <= minted
  BY Numbers DEF NoVerdict, IInv, ValuesTyped

\* What update() leaves in its own process.
LEMMA Updates ==
    ASSUME IInv, NEW p \in Proc, NEW n \in Cred, n <= minted, NEW over, Update(p, n, over)
    PROVE  /\ mem' \in [Proc -> Cred \cup {None}] /\ mem'[p] = n
           /\ \A q \in Proc \ {p} : mem'[q] = mem[q]
           /\ \A q \in Proc : mem'[q] <= minted
           /\ enriching' \in [Proc -> Cred \cup {None}]
           /\ verdict' \in [Proc -> [key : Cred \cup {None}, sticky : BOOLEAN]]
           /\ \A q \in Proc :
                \/ verdict'[q] = verdict[q]
                \/ verdict'[q].key <= minted /\ (verdict'[q].sticky => ~Live(verdict'[q].key))
           /\ faults \subseteq faults' /\ faults' \subseteq Kinds
           /\ \/ disk' = n /\ unsafe' = unsafe \cup over
              \/ disk' = disk /\ unsafe' = unsafe \cup {n}
  <1>1. /\ mem' = [mem EXCEPT ![p] = n] /\ enriching' = [enriching EXCEPT ![p] = n]
        /\ verdict' \in {verdict, [verdict EXCEPT ![p] = NoVerdict]}
        /\ \/ disk' = n /\ unsafe' = unsafe \cup over
           \/ disk' = disk /\ unsafe' = unsafe \cup {n}
        /\ faults' = faults \/ Fault("write")
    BY DEF Update
  <1>2. /\ mem' \in [Proc -> Cred \cup {None}] /\ mem'[p] = n
        /\ \A q \in Proc \ {p} : mem'[q] = mem[q]
        /\ enriching' \in [Proc -> Cred \cup {None}]
    BY <1>1 DEF IInv, ValuesTyped
  <1>3. \A q \in Proc : mem'[q] <= minted
    BY <1>2 DEF IInv, Content, Minted
  <1>4. /\ verdict' \in [Proc -> [key : Cred \cup {None}, sticky : BOOLEAN]]
        /\ \A q \in Proc : verdict'[q] = verdict[q] \/ verdict'[q] = NoVerdict
    BY <1>1, NoVerdictFacts DEF IInv, ValuesTyped
  <1>5. faults \subseteq faults' /\ faults' \subseteq Kinds
    BY <1>1, AuthAssumption DEF Fault, IInv, ValuesTyped
  <1> QED
    BY <1>1, <1>2, <1>3, <1>4, <1>5, NoVerdictFacts

LEMMA ApplySuccessKeeps == \A c \in Caller : IInv /\ ApplySuccess(c) => IInv'
  <1> SUFFICES ASSUME NEW c \in Caller, IInv, ApplySuccess(c) PROVE IInv'
    OBVIOUS
  <1>1. /\ call[c].pc = "answered" /\ call[c].outcome = "success"
        /\ call[c].ino # 0
    BY DEF ApplySuccess, IInv, LockHeld
  <1>g. PICK g \in Cred : g = call[c].got
    BY <1>1 DEF IInv, CallsShaped, CallsTyped, CallRec
  <1>p. PICK p \in Proc : p = Owner[c]
    BY AuthAssumption
  <1>2. g <= minted /\ \A q \in Proc : signing[q] # g
    <2>1. g <= minted
      BY <1>g DEF IInv, Content, Minted
    <2>2. \A q \in Proc : signing[q] # g
      BY <1>g, Numbers DEF IInv, Content, FreshSignIn
    <2> QED
      BY <2>1, <2>2
  <1>3. CallsTyped' /\ call'[c] = Idle /\ \A d \in Caller \ {c} : call'[d] = call[d]
    BY IdleTyped, OneCall DEF ApplySuccess, Return, IInv
  <1>o. PICK over : over = Clobbered(c)
    OBVIOUS
  <1>4. Update(p, g, over)
    BY <1>g, <1>p, <1>o DEF ApplySuccess
  <1>v. /\ over \subseteq Cred
        /\ disk \in over \cup {None, g} \/ ~Live(disk) \/ disk \in unsafe
        /\ succ[g] \in unsafe \cup over \cup {None}
        /\ Holds(c) \/ g = disk \/ Forgotten(g)
    <2>1. CASE LockLost(c)
      <3>1. over = {disk, succ[g]} \ {None}
        BY <2>1, <1>o, <1>g DEF Clobbered
      <3>2. g = disk \/ Forgotten(g)
        BY <1>1, <2>1, <1>g DEF IInv, Content, LostAnswers
      <3>3. disk \in Cred \cup {None} /\ succ[g] \in Cred \cup {None}
        BY DEF IInv, ValuesTyped
      <3> QED
        BY <3>1, <3>2, <3>3
    <2>2. CASE Holds(c)
      <3>1. ~LockLost(c)
        BY <2>2 DEF Holds, LockLost
      <3>2. /\ disk \in {None, g} \/ Forgotten(disk)
            /\ SpentSafely(g)
        BY <2>2, <1>1, <1>g DEF IInv, Content, HolderKnowsDisk, SpentInHand
      <3>3. over = IF SignedIn(disk) THEN {disk} ELSE {}
        BY <3>1, <1>o DEF Clobbered
      <3>4. SignedIn(disk) => disk # None
        BY DEF SignedIn, None
      <3>5. disk \in Cred \cup {None}
        BY DEF IInv, ValuesTyped
      <3> QED
        BY <2>2, <3>2, <3>3, <3>4, <3>5 DEF Forgotten, SpentSafely
    <2> QED
      BY <2>1, <2>2, <1>1, HoldsOrLost
  <1>5. /\ mem' \in [Proc -> Cred \cup {None}] /\ mem'[p] = g
        /\ \A q \in Proc \ {p} : mem'[q] = mem[q]
        /\ \A q \in Proc : mem'[q] <= minted
        /\ enriching' \in [Proc -> Cred \cup {None}]
        /\ verdict' \in [Proc -> [key : Cred \cup {None}, sticky : BOOLEAN]]
        /\ \A q \in Proc :
             \/ verdict'[q] = verdict[q]
             \/ verdict'[q].key <= minted /\ (verdict'[q].sticky => ~Live(verdict'[q].key))
        /\ faults \subseteq faults' /\ faults' \subseteq Kinds
        /\ \/ disk' = g /\ unsafe' = unsafe \cup over
           \/ disk' = disk /\ unsafe' = unsafe \cup {g}
    BY <1>2, <1>4, Updates
  <1>6. ValuesTyped'
    BY <1>5, <1>v DEF ApplySuccess, idp, IInv, ValuesTyped
  <1>7. \A q, r \in Proc : signing'[r] = None \/ mem'[q] # signing'[r]
    BY <1>2, <1>5 DEF ApplySuccess, IInv, Content, FreshSignIn
  <1>8. \A q \in Proc : signing'[q] = signing[q] /\ (signing[q] = None \/ signing[q] # disk')
    BY <1>2, <1>5 DEF ApplySuccess, IInv, Content, FreshSignIn
  <1>9. disk <= minted
    BY DEF IInv, Content, Minted
  <1>10. CASE disk' = g /\ unsafe' = unsafe \cup over
    <2>1. Holds(c) => \A d \in Caller : call'[d].ino # lockFile
      BY <1>1, <1>3, HoldsOrLost DEF Holds, Idle, IInv, ValuesTyped
    <2> QED
      BY <1>g, <1>2, <1>3, <1>5, <1>6, <1>7, <1>8, <1>v, <1>10, <2>1, SettlesKeeps DEF Settles, ApplySuccess
  <1>11. CASE disk' = disk /\ unsafe' = unsafe \cup {g}
    BY <1>g, <1>2, <1>3, <1>5, <1>6, <1>7, <1>8, <1>9, <1>11, SettlesKeeps DEF Settles, ApplySuccess
  <1> QED
    BY <1>5, <1>10, <1>11

LEMMA SaveSignInKeeps == \A p \in Proc : IInv /\ SaveSignIn(p) => IInv'
  <1> SUFFICES ASSUME NEW p \in Proc, IInv, SaveSignIn(p) PROVE IInv'
    OBVIOUS
  <1>g. PICK g \in Cred : g = signing[p]
    BY DEF SaveSignIn, IInv, ValuesTyped
  <1>1. /\ g <= minted /\ SignedIn(g) /\ succ[g] = None
        /\ \A q \in Proc \ {p} : signing[q] # g
    BY <1>g, Numbers DEF IInv, Content, Minted, FreshSignIn
  <1>o. PICK over : over = {disk} \ {None}
    OBVIOUS
  <1>2. Update(p, g, over)
    BY <1>g, <1>o DEF SaveSignIn
  <1>3. /\ signing' \in [Proc -> Cred \cup {None}] /\ signing'[p] = None
        /\ \A q \in Proc \ {p} : signing'[q] = signing[q]
    BY DEF SaveSignIn, IInv, ValuesTyped
  <1>v. disk \in Cred \cup {None} /\ over \subseteq Cred /\ disk <= minted
    BY <1>o DEF IInv, ValuesTyped, Content, Minted
  <1>5. /\ mem' \in [Proc -> Cred \cup {None}] /\ mem'[p] = g
        /\ \A q \in Proc \ {p} : mem'[q] = mem[q]
        /\ \A q \in Proc : mem'[q] <= minted
        /\ enriching' \in [Proc -> Cred \cup {None}]
        /\ verdict' \in [Proc -> [key : Cred \cup {None}, sticky : BOOLEAN]]
        /\ \A q \in Proc :
             \/ verdict'[q] = verdict[q]
             \/ verdict'[q].key <= minted /\ (verdict'[q].sticky => ~Live(verdict'[q].key))
        /\ faults \subseteq faults' /\ faults' \subseteq Kinds
        /\ \/ disk' = g /\ unsafe' = unsafe \cup over
           \/ disk' = disk /\ unsafe' = unsafe \cup {g}
    BY <1>1, <1>2, Updates
  <1>6. ValuesTyped' /\ CallsTyped'
    BY <1>3, <1>5, <1>v DEF SaveSignIn, idp, IInv, ValuesTyped, CallsTyped
  <1>7. \A q, r \in Proc : signing'[r] = None \/ mem'[q] # signing'[r]
    BY <1>1, <1>3, <1>5 DEF IInv, Content, FreshSignIn
  <1>8. \A q \in Proc :
          \/ signing'[q] = signing[q] /\ (signing[q] = None \/ signing[q] # disk')
          \/ signing'[q] = None /\ signing[q] \in unsafe' \cup {None, disk'}
    <2>1. \A q \in Proc \ {p} : signing[q] = None \/ signing[q] # disk'
      BY <1>1, <1>5 DEF IInv, Content, FreshSignIn
    <2> QED
      BY <2>1, <1>g, <1>3, <1>5
  <1>9. CASE disk' = g /\ unsafe' = unsafe \cup over
    BY <1>o, <1>1, <1>5, <1>6, <1>7, <1>8, <1>9, SettlesKeeps DEF Settles, SaveSignIn, Forgotten
  <1>10. CASE disk' = disk /\ unsafe' = unsafe \cup {g}
    BY <1>v, <1>5, <1>6, <1>7, <1>8, <1>10, SettlesKeeps DEF Settles, SaveSignIn
  <1> QED
    BY <1>5, <1>9, <1>10

LEMMA LogoutKeeps == \A p \in Proc : IInv /\ Logout(p) => IInv'
  <1> SUFFICES ASSUME NEW p \in Proc, IInv, Logout(p) PROVE IInv'
    OBVIOUS
  <1>1. /\ UNCHANGED <<enriching, signing, call, lockFile, idp, expired, reused>>
        /\ \/ disk' = None /\ unsafe' = unsafe \cup ({disk} \ {None})
           \/ UNCHANGED <<disk, unsafe>>
        /\ mem' \in {mem, [mem EXCEPT ![p] = None]}
        /\ verdict' \in {verdict, [verdict EXCEPT ![p] = NoVerdict]}
    BY DEF Logout
  <1>2. faults \subseteq faults' /\ faults' \subseteq Kinds
    BY AuthAssumption DEF Logout, Fault
  <1>3. minted \in Nat /\ None <= minted /\ disk \in Cred \cup {None} /\ disk <= minted
    BY Numbers DEF IInv, ValuesTyped, Content, Minted
  <1>4. /\ mem' \in [Proc -> Cred \cup {None}]
        /\ \A q \in Proc : mem'[q] = mem[q] \/ mem'[q] = None
        /\ verdict' \in [Proc -> [key : Cred \cup {None}, sticky : BOOLEAN]]
        /\ \A q \in Proc : verdict'[q] = verdict[q] \/ verdict'[q] = NoVerdict
    BY <1>1, NoVerdictFacts DEF IInv, ValuesTyped
  <1>5. \A q \in Proc : mem'[q] <= minted
    BY <1>3, <1>4 DEF IInv, Content, Minted
  <1>6. ValuesTyped' /\ CallsTyped'
    BY <1>1, <1>2, <1>3, <1>4 DEF IInv, ValuesTyped, CallsTyped, idp
  <1>7. \A q, r \in Proc : signing'[r] = None \/ mem'[q] # signing'[r]
    BY <1>1, <1>4 DEF IInv, Content, FreshSignIn
  <1>8. \A q \in Proc : signing'[q] = signing[q] /\ (signing[q] = None \/ signing[q] # disk')
    BY <1>1 DEF IInv, Content, FreshSignIn
  <1> QED
    BY <1>1, <1>2, <1>3, <1>4, <1>5, <1>6, <1>7, <1>8, NoVerdictFacts, SettlesKeeps DEF Settles

LEMMA ApplyRejectedKeeps == \A c \in Caller : IInv /\ ApplyRejected(c) => IInv'
  <1> SUFFICES ASSUME NEW c \in Caller, IInv, ApplyRejected(c) PROVE IInv'
    OBVIOUS
  <1>1. call[c].outcome = "rejected" /\ call[c].outcome # "success"
    BY DEF ApplyRejected
  <1>p. PICK p \in Proc : p = Owner[c]
    BY AuthAssumption
  <1>n. PICK n \in Cred : n = call[c].got
    BY <1>1 DEF IInv, CallsShaped, CallsTyped, CallRec
  <1>2. UNCHANGED <<enriching, signing, lockFile, idp, expired, unsafe, reused>> /\ Return(c)
    BY DEF ApplyRejected
  <1>3. CASE UNCHANGED <<disk, faults>> /\ (HotSwap(p) \/ UNCHANGED <<mem, verdict>>)
    BY <1>1, <1>2, <1>3, <1>p, Returns, AdoptsOr
  <1>4. CASE ~Superseded(n) /\ Discard(p, n)
    <2>1. CallsTyped' /\ call'[c] = Idle /\ \A d \in Caller \ {c} : call'[d] = call[d]
      BY <1>2, IdleTyped, OneCall DEF Return, IInv
    <2>2. ~Live(n) /\ n <= minted /\ disk \in {None, n} /\ disk' \in {None, disk}
      BY <1>1, <1>4, <1>n DEF IInv, Content, RejectedIsDead, Minted, Superseded, Discard
    <2>3. faults \subseteq faults' /\ faults' \subseteq Kinds
      BY <1>4, AuthAssumption DEF Discard, Fault, IInv, ValuesTyped
    <2>4. minted \in Nat /\ None <= minted /\ disk <= minted
      BY Numbers DEF IInv, ValuesTyped, Content, Minted
    <2>5. /\ mem' \in [Proc -> Cred \cup {None}]
          /\ \A q \in Proc : mem'[q] = mem[q] \/ mem'[q] = None
      BY <1>4 DEF Discard, IInv, ValuesTyped
    <2>6. /\ verdict' \in [Proc -> [key : Cred \cup {None}, sticky : BOOLEAN]]
          /\ \A q \in Proc : verdict'[q] = verdict[q] \/ verdict'[q].key = n
      BY <1>4 DEF Discard, IInv, ValuesTyped
    <2>7. \A q \in Proc : mem'[q] <= minted
      BY <2>4, <2>5 DEF IInv, Content, Minted
    <2>8. ValuesTyped'
      BY <1>2, <2>2, <2>3, <2>5, <2>6 DEF IInv, ValuesTyped, idp
    <2>9. \A q, r \in Proc : signing'[r] = None \/ mem'[q] # signing'[r]
      BY <1>2, <2>5 DEF IInv, Content, FreshSignIn
    <2>10. \A q \in Proc : signing'[q] = signing[q] /\ (signing[q] = None \/ signing[q] # disk')
      BY <1>2, <2>2 DEF IInv, Content, FreshSignIn
    <2> QED
      BY <1>1, <1>2, <2>1, <2>2, <2>3, <2>4, <2>6, <2>7, <2>8, <2>9, <2>10, SettlesKeeps DEF Settles
  <1> QED
    BY <1>3, <1>4, <1>p, <1>n DEF ApplyRejected

\* What the calls of a process carry is a credential.
LEMMA InFlightTyped ==
    ASSUME IInv
    PROVE  /\ \A p \in Proc : InFlight(p) \subseteq Cred
           /\ \A c \in Caller : call[c].outcome = "success" =>
                                  call[c].got \in Cred /\ call[c].got \in InFlight(Owner[c])
  <1>1. \A c \in Caller : call[c].outcome = "success" => call[c].got \in Cred
    BY DEF IInv, CallsShaped, CallsTyped, CallRec
  <1> QED
    BY <1>1 DEF InFlight

LEMMA CrashKeeps == \A p \in Proc : IInv /\ Crash(p) => IInv'
  <1> SUFFICES ASSUME NEW p \in Proc, IInv, Crash(p) PROVE IInv'
    OBVIOUS
  <1>1. /\ UNCHANGED <<disk, lockFile, idp, expired, reused>>
        /\ call' = [c \in Caller |-> IF Owner[c] = p THEN Idle ELSE call[c]]
        /\ mem' = [mem EXCEPT ![p] = disk] /\ verdict' = [verdict EXCEPT ![p] = NoVerdict]
        /\ enriching' = [enriching EXCEPT ![p] = None]
        /\ signing' = [signing EXCEPT ![p] = None]
        /\ unsafe' = unsafe \cup ((InFlight(p) \cup {signing[p]}) \ {None})
    BY DEF Crash
  <1>2. faults \subseteq faults' /\ faults' \subseteq Kinds
    BY AuthAssumption DEF Crash, Fault
  <1>3. disk \in Cred \cup {None} /\ disk <= minted
    BY DEF IInv, ValuesTyped, Content, Minted
  <1>4. /\ CallsTyped'
        /\ \A d \in Caller : call'[d] = call[d] \/ (call'[d] = Idle /\ Owner[d] = p)
    BY <1>1, IdleTyped DEF IInv, CallsTyped
  <1>5. \A d \in Caller : Owner[d] = p /\ call[d].outcome = "success" => call[d].got \in unsafe'
    BY <1>1, InFlightTyped, Numbers
  <1>6. /\ mem' \in [Proc -> Cred \cup {None}]
        /\ \A q \in Proc : mem'[q] = mem[q] \/ mem'[q] = disk
        /\ enriching' \in [Proc -> Cred \cup {None}]
        /\ signing' \in [Proc -> Cred \cup {None}]
        /\ \A q \in Proc : signing'[q] = signing[q]
                           \/ (signing'[q] = None /\ signing[q] \in unsafe' \cup {None})
    BY <1>1, <1>3 DEF IInv, ValuesTyped
  <1>7. /\ verdict' \in [Proc -> [key : Cred \cup {None}, sticky : BOOLEAN]]
        /\ \A q \in Proc : verdict'[q] = verdict[q] \/ verdict'[q] = NoVerdict
    BY <1>1, NoVerdictFacts DEF IInv, ValuesTyped
  <1>8. unsafe \subseteq unsafe' /\ unsafe' \subseteq Cred
    BY <1>1, InFlightTyped DEF IInv, ValuesTyped
  <1>9. ValuesTyped'
    BY <1>1, <1>2, <1>3, <1>6, <1>7, <1>8 DEF IInv, ValuesTyped, idp
  <1>10. \A q \in Proc : mem'[q] <= minted
    BY <1>3, <1>6 DEF IInv, Content, Minted
  <1>11. \A q, r \in Proc : signing'[r] = None \/ mem'[q] # signing'[r]
    BY <1>6 DEF IInv, Content, FreshSignIn
  <1>12. \A q \in Proc :
           \/ signing'[q] = signing[q] /\ (signing[q] = None \/ signing[q] # disk')
           \/ signing'[q] = None /\ signing[q] \in unsafe' \cup {None, disk'}
    BY <1>1, <1>6 DEF IInv, Content, FreshSignIn
  <1> QED
    BY <1>1, <1>2, <1>3, <1>4, <1>5, <1>7, <1>8, <1>9, <1>10, <1>11, <1>12, NoVerdictFacts, SettlesKeeps
    DEF Settles

-----------------------------------------------------------------------------
(* The lock file is replaced, the session is revoked, the user signs in     *)

LEMMA UnlinkLockKeeps == IInv /\ UnlinkLock => IInv'
  <1> SUFFICES ASSUME IInv, UnlinkLock PROVE IInv'
    OBVIOUS
  <1>1. UNCHANGED <<disk, mem, verdict, enriching, signing, call, minted, succ, revoked, expired, reused>>
    BY DEF UnlinkLock, idp
  <1>2. /\ lockFile = 1 /\ lockFile' = 2
        /\ "unlink" \in faults' /\ faults' \subseteq Kinds
    BY AuthAssumption DEF UnlinkLock, Fault, IInv, LockHeld, ValuesTyped
  <1>3. \A c \in Caller : call[c].ino \in 0 .. 1
    BY <1>2 DEF IInv, LockHeld, CallsTyped, CallRec
  \* what was on its way under the old lock had no fair chance
  <1>4. /\ unsafe \subseteq unsafe' /\ unsafe' \subseteq Cred
        /\ \A c \in Caller : call[c].outcome = "success" => call[c].got \in unsafe'
    <2>1. unsafe \subseteq unsafe' /\ unsafe' \subseteq Cred
      BY InFlightTyped DEF UnlinkLock, IInv, ValuesTyped
    <2>2. \A c \in Caller : call[c].outcome = "success" => call[c].got \in unsafe'
      BY InFlightTyped, AuthAssumption DEF UnlinkLock
    <2> QED
      BY <2>1, <2>2
  <1>5. \A c \in Caller : ~Holds(c)'
    BY <1>1, <1>2, <1>3 DEF Holds
  <1>a. CallsTyped' /\ ValuesTyped' /\ CallsShaped'
    BY <1>1, <1>2, <1>4 DEF IInv, CallsTyped, ValuesTyped, CallsShaped
  <1>b. LockHeld'
    BY <1>1, <1>2, <1>3 DEF IInv, LockHeld
  <1>c. Minted' /\ RejectedIsDead' /\ FreshSignIn' /\ VerdictOnDeadToken'
    BY <1>1 DEF IInv, Content, Minted, RejectedIsDead, FreshSignIn, VerdictOnDeadToken, Live, SignedIn
  <1>d. HolderKnowsDisk' /\ SpentInHand'
    BY <1>5 DEF HolderKnowsDisk, SpentInHand
  <1>e. LostAnswers'
    BY <1>1, <1>4 DEF LostAnswers, Forgotten
  <1>f. SpentOnDisk'
    BY <1>1, <1>4 DEF IInv, Content, SpentOnDisk, SpentSafely
  <1>g. RotationKept' /\ SpentOnce'
    BY <1>1, <1>4 DEF IInv, Content, RotationKept, SpentOnce, Live
  <1> QED
    BY <1>a, <1>b, <1>c, <1>d, <1>e, <1>f, <1>g DEF IInv, Content

LEMMA RevokeKeeps == IInv /\ Revoke => IInv'
  <1> SUFFICES ASSUME IInv, Revoke PROVE IInv'
    OBVIOUS
  <1>1. UNCHANGED <<disk, mem, verdict, enriching, signing, call, lockFile, minted, succ,
                    expired, unsafe, reused>>
    BY DEF Revoke
  <1>2. revoked' \in 0 .. MaxMint /\ faults \subseteq faults' /\ faults' \subseteq Kinds
    BY AuthAssumption DEF Revoke, Fault, IInv, ValuesTyped, Cred
  <1>3. \A n : ~Live(n)'
    BY <1>1, Numbers DEF Revoke, Live, IInv, ValuesTyped
  <1>a. CallsTyped' /\ ValuesTyped' /\ CallsShaped'
    BY <1>1, <1>2 DEF IInv, CallsTyped, ValuesTyped, CallsShaped
  <1>b. LockHeld'
    BY <1>1, <1>2 DEF IInv, LockHeld
  <1>c. Minted' /\ FreshSignIn' /\ SpentOnDisk' /\ SpentInHand' /\ SpentOnce'
    BY <1>1 DEF IInv, Content, Minted, FreshSignIn, SignedIn, SpentOnDisk, SpentInHand,
                SpentSafely, Holds, SpentOnce
  <1>d. RejectedIsDead' /\ VerdictOnDeadToken' /\ RotationKept'
    BY <1>1, <1>3 DEF RejectedIsDead, VerdictOnDeadToken, RotationKept, Live
  <1>e. HolderKnowsDisk' /\ LostAnswers'
    BY <1>1, <1>3 DEF HolderKnowsDisk, LostAnswers, Forgotten, Live
  <1> QED
    BY <1>a, <1>b, <1>c, <1>d, <1>e DEF IInv, Content

LEMMA SignInKeeps == \A p \in Proc : IInv /\ SignIn(p) => IInv'
  <1> SUFFICES ASSUME NEW p \in Proc, IInv, SignIn(p) PROVE IInv'
    OBVIOUS
  <1>1. UNCHANGED <<disk, mem, verdict, enriching, call, lockFile, succ, revoked, expired, unsafe, reused>>
    BY DEF SignIn
  <1>t. signing[p] = None /\ Mint
    BY Zenon DEF SignIn
  <1>0. minted \in Nat /\ minted # 0 /\ minted + 1 \in Cred /\ minted' = minted + 1
    BY <1>t, AuthAssumption DEF Mint, IInv, ValuesTyped, Cred
  <1>m. PICK m \in Cred : m = minted' /\ m = minted + 1 /\ minted \in Nat /\ minted # 0
    BY <1>0
  <1>2. /\ signing' \in [Proc -> Cred \cup {None}] /\ signing'[p] = m
        /\ \A q \in Proc \ {p} : signing'[q] = signing[q]
    BY <1>m DEF SignIn, IInv, ValuesTyped
  <1>3. faults \subseteq faults' /\ faults' \subseteq Kinds
    BY AuthAssumption DEF SignIn, Fault
  <1>n. /\ disk \in Nat /\ disk <= minted
        /\ \A q \in Proc : /\ mem[q] \in Nat /\ mem[q] <= minted
                           /\ signing[q] \in Nat /\ signing[q] <= minted
                           /\ verdict[q].key \in Nat /\ verdict[q].key <= minted
        /\ \A d \in Caller : /\ call[d].tried \in Nat /\ call[d].tried <= minted
                             /\ call[d].got \in Nat /\ call[d].got <= minted
        /\ \A n \in Cred : n \in Nat /\ succ[n] \in Nat /\ succ[n] <= minted
    BY Numbers DEF IInv, ValuesTyped, CallsTyped, CallRec, Content, Minted
  <1>l. \A n \in Nat : n <= minted => (Live(n)' <=> Live(n))
    BY <1>1, <1>m DEF Live
  <1>f. \A n \in Nat : n <= minted /\ Forgotten(n) => Forgotten(n)'
    BY <1>1, <1>l DEF Forgotten, SignedIn
  <1>a. CallsTyped' /\ CallsShaped'
    BY <1>1 DEF IInv, CallsTyped, CallsShaped
  <1>b. ValuesTyped'
    BY <1>1, <1>2, <1>3, <1>m DEF IInv, ValuesTyped
  <1>c. LockHeld'
    BY <1>1, <1>3 DEF IInv, LockHeld
  <1>d. Minted'
    <2>1. \A q \in Proc : signing'[q] <= m
      BY <1>2, <1>n, <1>m
    <2>2. \A n \in Cred : n \in Nat /\ (n > minted => succ[n] = None)
      BY <1>n DEF IInv, Content, Minted
    <2>3. \A n \in Cred : succ[n] <= m /\ (n > m => succ[n] = None)
      BY <1>n, <1>m, <2>2
    <2> QED
      BY <1>1, <1>n, <1>m, <2>1, <2>3 DEF Minted
  <1>e. FreshSignIn'
    <2>1. SignedIn(m) /\ succ[m] = None
      BY <1>n, <1>m DEF SignedIn, IInv, Content, Minted
    <2>2. \A q \in Proc : mem[q] # m /\ signing[q] # m
      BY <1>n, <1>m
    <2>3. disk # m /\ \A d \in Caller : call[d].tried # m /\ call[d].got # m
      BY <1>n, <1>m
    <2>4. ASSUME NEW q \in Proc, signing'[q] # None
          PROVE  /\ SignedIn(signing'[q]) /\ succ[signing'[q]] = None /\ signing'[q] # disk
                 /\ \A r \in Proc : mem[r] # signing'[q] /\ (r # q => signing'[r] # signing'[q])
                 /\ \A d \in Caller : call[d].tried # signing'[q] /\ call[d].got # signing'[q]
      <3>1. CASE q = p
        BY <3>1, <2>1, <2>2, <2>3, <1>2
      <3>2. CASE q # p
        BY <3>2, <2>2, <2>4, <1>2 DEF IInv, Content, FreshSignIn
      <3> QED
        BY <3>1, <3>2
    <2> QED
      BY <2>4, <1>1 DEF FreshSignIn, SignedIn
  <1>g. RejectedIsDead' /\ VerdictOnDeadToken'
    BY <1>1, <1>l, <1>n DEF IInv, Content, RejectedIsDead, VerdictOnDeadToken, Live
  <1>h. HolderKnowsDisk'
    BY <1>1, <1>f, <1>n DEF IInv, Content, HolderKnowsDisk, Holds, Forgotten, Live, SignedIn
  <1>i. LostAnswers'
    BY <1>1, <1>f, <1>n DEF IInv, Content, LostAnswers, LockLost, Forgotten, Live, SignedIn
  <1>j. SpentOnDisk' /\ SpentInHand' /\ SpentOnce'
    BY <1>1 DEF IInv, Content, SpentOnDisk, SpentInHand, SpentSafely, Holds, SpentOnce
  <1>k. RotationKept'
    <2>1. SUFFICES ASSUME NEW n \in 1 .. m, Live(n)', n # m
                   PROVE  \/ n \in unsafe \/ n = disk
                          \/ \E d \in Caller : call[d].outcome = "success" /\ call[d].got = n
                          \/ \E q \in Proc : signing'[q] = n
      BY <1>1, <1>2, <1>m DEF RotationKept
    <2>2. n \in 1 .. minted /\ Live(n)
      BY <2>1, <1>m, <1>l
    <2>3. n # None /\ signing[p] = None
      BY <2>2, <1>0, <1>t DEF None
    <2> QED
      BY <2>2, <2>3, <1>2 DEF IInv, Content, RotationKept
  <1> QED
    BY <1>a, <1>b, <1>c, <1>d, <1>e, <1>g, <1>h, <1>i, <1>j, <1>k DEF IInv, Content

-----------------------------------------------------------------------------
LEMMA InitHolds == Init => IInv
  <1> SUFFICES ASSUME Init PROVE IInv
    OBVIOUS
  <1>1. 1 \in Cred /\ None = 0
    BY AuthAssumption DEF Cred, None
  <1>2. NoVerdict \in [key : Cred \cup {None}, sticky : BOOLEAN]
        /\ NoVerdict.key = None /\ NoVerdict.sticky = FALSE
    BY DEF NoVerdict
  <1>i. /\ Idle.pc = "idle" /\ Idle.outcome = "none" /\ Idle.ino = 0
        /\ Idle.tried = None /\ Idle.got = None
    BY DEF Idle
  <1>a. CallsTyped /\ CallsShaped
    BY IdleTyped, <1>i DEF Init, CallsTyped, CallsShaped
  <1>b. ValuesTyped
    BY <1>1, <1>2, AuthAssumption DEF Init, ValuesTyped
  <1>c. LockHeld
    BY <1>i DEF Init, LockHeld
  <1>d. Minted
    BY <1>1, <1>2, <1>i, Numbers DEF Init, Minted
  <1>e. /\ RejectedIsDead /\ FreshSignIn /\ HolderKnowsDisk /\ LostAnswers
        /\ SpentInHand /\ SpentOnce /\ VerdictOnDeadToken
    BY <1>1, <1>2, <1>i DEF Init, RejectedIsDead, FreshSignIn, HolderKnowsDisk, LostAnswers,
       SpentInHand, SpentOnce, VerdictOnDeadToken, Holds, LockLost
  <1>f. SpentOnDisk /\ RotationKept
    BY <1>1 DEF Init, SpentOnDisk, SpentSafely, RotationKept
  <1> QED
    BY <1>a, <1>b, <1>c, <1>d, <1>e, <1>f DEF IInv, Content

LEMMA StutterKeeps == IInv /\ UNCHANGED vars => IInv'
  BY DEF IInv, vars, CallsTyped, ValuesTyped, CallsShaped, LockHeld, Content, Minted,
     RejectedIsDead, FreshSignIn, HolderKnowsDisk, LostAnswers, SpentOnDisk, SpentInHand,
     RotationKept, SpentOnce, VerdictOnDeadToken, SignedIn, Holds, LockLost, Forgotten,
     SpentSafely, Live

LEMMA NextKeeps == IInv /\ [Next]_vars => IInv'
  BY PreRequestKeeps, RecoverKeeps, RecheckKeeps, AcquireLockKeeps, LockTimeoutKeeps,
     AdoptOrBailKeeps, RevalidateKeeps, SendTokenKeeps, ApplySuccessKeeps,
     ApplyTransientKeeps, ApplyOtherKeeps, ApplyRejectedKeeps, GrantedKeeps, FailedKeeps,
     ResponseLostKeeps, RejectedKeeps, PickUpSiblingKeeps, EnrichUserKeeps,
     AgeVerdictKeeps, SignInKeeps, SaveSignInKeeps, LogoutKeeps, CrashKeeps, ExpireKeeps,
     UnlinkLockKeeps, RevokeKeeps, StutterKeeps
  DEF Next, ChainStep, Reply

LEMMA AuthInvariant == Spec => []IInv
  BY InitHolds, NextKeeps, PTL DEF Spec

(* Every variable of the refresh keeps its type, a request on the wire      *)
(* carries a token, and an answer that says something carries a credential: *)
(* the refresh never sends or saves an empty credential.                    *)
THEOREM AuthTyped == Spec => []TypeOK
  <1>1. IInv => TypeOK
    BY TypeParts DEF IInv
  <1> QED
    BY <1>1, AuthInvariant, PTL

(* However the refreshes, adoptions, verdicts, discards, sign-ins and       *)
(* faults of any number of processes interleave, the provider's live token  *)
(* is on disk or on its way there, unless a fault left it no fair chance.   *)
THEOREM RotationNotLost == Spec => []NoLostRotation
  <1>1. IInv => NoLostRotation
    <2> SUFFICES ASSUME IInv, NEW n \in 1 .. minted, Live(n)
                 PROVE  \/ n \in unsafe \/ n = disk
                        \/ \E p \in Proc : n \in InFlight(p) \/ n = signing[p]
      BY DEF NoLostRotation
    <2>1. CASE \E c \in Caller : call[c].outcome = "success" /\ call[c].got = n
      BY <2>1, InFlightTyped, AuthAssumption
    <2> QED
      BY <2>1 DEF IInv, Content, RotationKept
  <1> QED
    BY <1>1, AuthInvariant, PTL

(* A token found on disk under the lock is sent twice only if the           *)
(* credential the provider gave for it the first time had no fair chance    *)
(* to replace it.                                                           *)
THEOREM TokenSpentOnce == Spec => []SpentOnce
  <1>1. IInv => SpentOnce
    BY DEF IInv, Content
  <1> QED
    BY <1>1, AuthInvariant, PTL

(* A process that condemns a token until the next sign-in condemns one the  *)
(* provider no longer accepts, whatever was on disk or in memory meanwhile. *)
THEOREM VerdictsAreDead == Spec => []VerdictOnDeadToken
  <1>1. IInv => VerdictOnDeadToken
    BY DEF IInv, Content
  <1> QED
    BY <1>1, AuthInvariant, PTL

=============================================================================

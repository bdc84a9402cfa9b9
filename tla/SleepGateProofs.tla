--------------------------- MODULE SleepGateProofs --------------------------
(***************************************************************************)
(* For any number of tasks and sleeps, no exchange straddles a sleep the   *)
(* listener could have held, and the listener's wake-up is never lost.     *)
(***************************************************************************)
EXTENDS SleepGate, TLAPS

\* The tasks that hold an InFlightGuard.
Slotted(t) == pc[t] \in {"recheck", "clear recheck", "send", "wire", "release"}

(* refresh_lock: one refresh at a time, so that at most one slot is held,   *)
(* and the in-flight count is the number of slots.                          *)
OneRefresh == \A t, u \in Task : InChain(t) /\ InChain(u) => t = u
CountIsSlots ==
    /\ \A t \in Task : Slotted(t) => inFlight = 1
    /\ inFlight = 1 => \E t \in Task : Slotted(t)

(* From its raise until the machine sleeps, the listener's gate stands: no  *)
(* wake lowers it, it does not expire, and no reader has a copy to clear;   *)
(* the sleep it announces is still to come.                                 *)
GateStands ==
    listener # "idle" =>
        /\ os = "full" /\ ~waking /\ gate = "fresh" /\ sleeps < MaxSleeps
        /\ \A t \in Task : copy[t] # "current"

(* Once the sleep is acknowledged, whoever is past its last look at the     *)
(* gate had the acknowledgment held for it.                                 *)
HeldForAll ==
    listener = "acked" => \A t \in Task : pc[t] \in {"send", "wire"} => t \in unheld

(* An exchange in a dark wake keeps the machine awake, or nothing does.     *)
DarkHeld ==
    os = "dark" => \A t \in Task : pc[t] = "wire" => t \in awake \/ t \in unheld

(* A listener about to park is in the position of one that has parked.      *)
WakeupComes ==
    listener \in {"parking", "parked"} /\ inFlight = 0 => \E t \in Task : pc[t] = "notify"

IInv ==
    /\ TypeOK /\ OneRefresh /\ CountIsSlots /\ GateStands /\ HeldForAll
    /\ DarkHeld /\ NoStraddle /\ WakeupComes

-----------------------------------------------------------------------------
(* The three callers of is_gated, and where each goes on to clear the gate. *)
LEMMA Callers ==
    /\ DOMAIN ClearOf = {"defer", "recheck", "peek"}
    /\ ClearOf["defer"] = "clear defer" /\ ClearOf["recheck"] = "clear recheck"
    /\ ClearOf["peek"] = "clear peek"
  BY DEF ClearOf

(* Where ReadGate and ClearGate can take their caller, and under which gate *)
(* one gets past its last look.                                             *)
LEMMA ReadGateMoves ==
    ASSUME TypeOK, NEW t \in Task, ReadGate(t)
    PROVE  \E to :
             /\ pc' = [pc EXCEPT ![t] = to]
             /\ \/ pc[t] = "defer" /\ to \in {"idle", "dark", "clear defer"}
                \/ pc[t] = "recheck" /\ to \in {"release", "clear recheck"}
                \/ pc[t] = "recheck" /\ to = "send" /\ gate = "none"
                \/ pc[t] = "peek" /\ to \in {"idle", "clear peek"}
             /\ \/ gate = "expired" /\ copy' = [copy EXCEPT ![t] = "current"]
                \/ copy' = copy
  <1>1. CASE pc[t] = "defer"
    BY <1>1, Callers DEF ReadGate, Goto, Gated, NotGated
  <1>2. CASE pc[t] = "recheck"
    BY <1>2, Callers DEF ReadGate, Goto, Gated, NotGated
  <1>3. CASE pc[t] = "peek"
    BY <1>3, Callers DEF ReadGate, Goto, Gated, NotGated
  <1> QED
    BY <1>1, <1>2, <1>3, Callers DEF ReadGate

LEMMA ClearGateMoves ==
    ASSUME TypeOK, NEW t \in Task, ClearGate(t)
    PROVE  \E to :
             /\ pc' = [pc EXCEPT ![t] = to]
             /\ copy' = [copy EXCEPT ![t] = "none"]
             /\ \/ pc[t] = "clear defer" /\ to \in {"idle", "dark"}
                \/ pc[t] = "clear recheck" /\ to = "release"
                \/ /\ pc[t] = "clear recheck" /\ to = "send"
                   /\ gate = "none" \/ copy[t] = "current"
                \/ pc[t] = "clear peek" /\ to = "idle"
             /\ \/ copy[t] = "current" /\ gate' = "none"
                \/ gate' = gate
  <1>1. PICK where \in DOMAIN ClearOf :
          /\ pc[t] = ClearOf[where]
          /\ copy' = [copy EXCEPT ![t] = "none"]
          /\ \/ gate # "none" /\ copy[t] = "current" /\ gate' = "none" /\ NotGated(t, where)
             \/ gate # "none" /\ copy[t] = "old" /\ Gated(t, where) /\ UNCHANGED gate
             \/ gate = "none" /\ NotGated(t, where) /\ UNCHANGED gate
    BY DEF ClearGate
  <1>2. CASE where = "defer"
    BY <1>1, <1>2, Callers DEF Goto, Gated, NotGated
  <1>3. CASE where = "recheck"
    BY <1>1, <1>3, Callers DEF Goto, Gated, NotGated
  <1>4. CASE where = "peek"
    BY <1>1, <1>4, Callers DEF Goto, Gated, NotGated
  <1> QED
    BY <1>2, <1>3, <1>4, Callers

-----------------------------------------------------------------------------
\* WillSleep raises a gate no reader has a copy of.
LEMMA RaiseKeeps == IInv /\ Raise => IInv'
  <1> SUFFICES ASSUME IInv, Raise PROVE IInv'
    OBVIOUS
  <1>1. TypeOK'
    BY DEF Raise, IInv, TypeOK
  <1>2. OneRefresh'
    BY DEF Raise, IInv, OneRefresh, InChain
  <1>3. CountIsSlots'
    BY DEF Raise, IInv, CountIsSlots, Slotted
  <1>4. GateStands'
    BY DEF Raise, GateStands
  <1>5. HeldForAll'
    BY DEF Raise, HeldForAll
  <1>6. DarkHeld'
    BY DEF Raise, DarkHeld
  <1>7. NoStraddle'
    BY DEF Raise, NoStraddle
  <1>8. WakeupComes'
    BY DEF Raise, WakeupComes
  <1> QED
    BY <1>1, <1>2, <1>3, <1>4, <1>5, <1>6, <1>7, <1>8 DEF IInv

\* Nothing in flight means that nobody is past its last look at the gate.
LEMMA LoadInFlightKeeps == IInv /\ LoadInFlight => IInv'
  <1> SUFFICES ASSUME IInv, LoadInFlight PROVE IInv'
    OBVIOUS
  <1>1. TypeOK'
    BY DEF LoadInFlight, IInv, TypeOK
  <1>2. OneRefresh'
    BY DEF LoadInFlight, IInv, OneRefresh, InChain
  <1>3. CountIsSlots'
    BY DEF LoadInFlight, IInv, CountIsSlots, Slotted
  <1>4. GateStands'
    BY DEF LoadInFlight, IInv, GateStands
  <1>5. HeldForAll'
    <2>1. CASE inFlight = 0
      <3>1. \A t \in Task : ~Slotted(t)
        BY <2>1 DEF IInv, CountIsSlots
      <3> QED
        BY <3>1 DEF LoadInFlight, Slotted, HeldForAll
    <2>2. CASE inFlight # 0
      BY <2>2 DEF LoadInFlight, HeldForAll
    <2> QED
      BY <2>1, <2>2
  <1>6. DarkHeld'
    BY DEF LoadInFlight, IInv, DarkHeld
  <1>7. NoStraddle'
    BY DEF LoadInFlight, IInv, NoStraddle
  <1>8. WakeupComes'
    BY DEF LoadInFlight, WakeupComes
  <1> QED
    BY <1>1, <1>2, <1>3, <1>4, <1>5, <1>6, <1>7, <1>8 DEF IInv

\* The same check, under the drain lock.
LEMMA HoldLoopKeeps == IInv /\ HoldLoop => IInv'
  <1> SUFFICES ASSUME IInv, HoldLoop PROVE IInv'
    OBVIOUS
  <1>1. TypeOK'
    BY DEF HoldLoop, IInv, TypeOK
  <1>2. OneRefresh'
    BY DEF HoldLoop, IInv, OneRefresh, InChain
  <1>3. CountIsSlots'
    BY DEF HoldLoop, IInv, CountIsSlots, Slotted
  <1>4. GateStands'
    BY DEF HoldLoop, IInv, GateStands
  <1>5. HeldForAll'
    <2>1. CASE inFlight = 0
      <3>1. \A t \in Task : ~Slotted(t)
        BY <2>1 DEF IInv, CountIsSlots
      <3> QED
        BY <3>1 DEF HoldLoop, Slotted, HeldForAll
    <2>2. CASE inFlight # 0
      BY <2>2 DEF HoldLoop, HeldForAll
    <2> QED
      BY <2>1, <2>2
  <1>6. DarkHeld'
    BY DEF HoldLoop, IInv, DarkHeld
  <1>7. NoStraddle'
    BY DEF HoldLoop, IInv, NoStraddle
  <1>8. WakeupComes'
    BY DEF HoldLoop, WakeupComes
  <1> QED
    BY <1>1, <1>2, <1>3, <1>4, <1>5, <1>6, <1>7, <1>8 DEF IInv

\* The listener parks with its wake-up still owed.
LEMMA ParkKeeps == IInv /\ Park => IInv'
  <1> SUFFICES ASSUME IInv, Park PROVE IInv'
    OBVIOUS
  <1>1. TypeOK'
    BY DEF Park, IInv, TypeOK
  <1>2. OneRefresh'
    BY DEF Park, IInv, OneRefresh, InChain
  <1>3. CountIsSlots'
    BY DEF Park, IInv, CountIsSlots, Slotted
  <1>4. GateStands'
    BY DEF Park, IInv, GateStands
  <1>5. HeldForAll'
    BY DEF Park, HeldForAll
  <1>6. DarkHeld'
    BY DEF Park, IInv, DarkHeld
  <1>7. NoStraddle'
    BY DEF Park, IInv, NoStraddle
  <1>8. WakeupComes'
    BY DEF Park, IInv, WakeupComes
  <1> QED
    BY <1>1, <1>2, <1>3, <1>4, <1>5, <1>6, <1>7, <1>8 DEF IInv

\* The exchanges the hold gave up on are the ones unheld names.
LEMMA HoldTimeoutKeeps == IInv /\ HoldTimeout => IInv'
  <1> SUFFICES ASSUME IInv, HoldTimeout PROVE IInv'
    OBVIOUS
  <1>1. TypeOK'
    BY DEF HoldTimeout, IInv, TypeOK
  <1>2. OneRefresh'
    BY DEF HoldTimeout, IInv, OneRefresh, InChain
  <1>3. CountIsSlots'
    BY DEF HoldTimeout, IInv, CountIsSlots, Slotted
  <1>4. GateStands'
    BY DEF HoldTimeout, IInv, GateStands
  <1>5. HeldForAll'
    BY DEF HoldTimeout, HeldForAll
  <1>6. DarkHeld'
    BY DEF HoldTimeout, DarkHeld
  <1>7. NoStraddle'
    BY DEF HoldTimeout, NoStraddle
  <1>8. WakeupComes'
    BY DEF HoldTimeout, WakeupComes
  <1> QED
    BY <1>1, <1>2, <1>3, <1>4, <1>5, <1>6, <1>7, <1>8 DEF IInv

\* A wake lowers a gate no listener stands on.
LEMMA DidWakeKeeps == IInv /\ DidWake => IInv'
  <1> SUFFICES ASSUME IInv, DidWake PROVE IInv'
    OBVIOUS
  <1>1. TypeOK'
    BY DEF DidWake, IInv, TypeOK
  <1>2. OneRefresh'
    BY DEF DidWake, IInv, OneRefresh, InChain
  <1>3. CountIsSlots'
    BY DEF DidWake, IInv, CountIsSlots, Slotted
  <1>4. GateStands'
    BY DEF DidWake, IInv, GateStands
  <1>5. HeldForAll'
    BY DEF DidWake, IInv, HeldForAll
  <1>6. DarkHeld'
    BY DEF DidWake, IInv, DarkHeld
  <1>7. NoStraddle'
    BY DEF DidWake, IInv, NoStraddle
  <1>8. WakeupComes'
    BY DEF DidWake, IInv, WakeupComes
  <1> QED
    BY <1>1, <1>2, <1>3, <1>4, <1>5, <1>6, <1>7, <1>8 DEF IInv

\* The machine sleeps on an acknowledgment that was held for all.
LEMMA SuspendKeeps == IInv /\ Suspend => IInv'
  <1> SUFFICES ASSUME IInv, Suspend PROVE IInv'
    OBVIOUS
  <1>1. TypeOK'
    <2>1. sleeps \in 0 .. MaxSleeps
      BY DEF IInv, TypeOK
    <2>2. sleeps < MaxSleeps
      BY DEF Suspend, IInv, GateStands
    <2>3. sleeps' \in 0 .. MaxSleeps
      BY <2>1, <2>2, SleepAssumption DEF Suspend
    <2> QED
      BY <2>3 DEF Suspend, IInv, TypeOK
  <1>2. OneRefresh'
    BY DEF Suspend, IInv, OneRefresh, InChain
  <1>3. CountIsSlots'
    BY DEF Suspend, IInv, CountIsSlots, Slotted
  <1>4. GateStands'
    BY DEF Suspend, GateStands
  <1>5. HeldForAll'
    BY DEF Suspend, HeldForAll
  <1>6. DarkHeld'
    BY DEF Suspend, DarkHeld
  <1>7. NoStraddle'
    BY DEF Suspend, IInv, HeldForAll, NoStraddle
  <1>8. WakeupComes'
    BY DEF Suspend, WakeupComes
  <1> QED
    BY <1>1, <1>2, <1>3, <1>4, <1>5, <1>6, <1>7, <1>8 DEF IInv

\* A dark wake ends only with no exchange holding it.
LEMMA ResleepKeeps == IInv /\ Resleep => IInv'
  <1> SUFFICES ASSUME IInv, Resleep PROVE IInv'
    OBVIOUS
  <1>1. TypeOK'
    <2>1. sleeps \in 0 .. MaxSleeps
      BY DEF IInv, TypeOK
    <2>2. sleeps < MaxSleeps
      BY DEF Resleep
    <2>3. sleeps' \in 0 .. MaxSleeps
      BY <2>1, <2>2, SleepAssumption DEF Resleep
    <2> QED
      BY <2>3 DEF Resleep, IInv, TypeOK
  <1>2. OneRefresh'
    BY DEF Resleep, IInv, OneRefresh, InChain
  <1>3. CountIsSlots'
    BY DEF Resleep, IInv, CountIsSlots, Slotted
  <1>4. GateStands'
    BY DEF Resleep, GateStands
  <1>5. HeldForAll'
    BY DEF Resleep, HeldForAll
  <1>6. DarkHeld'
    BY DEF Resleep, DarkHeld
  <1>7. NoStraddle'
    BY DEF Resleep, IInv, DarkHeld, NoStraddle
  <1>8. WakeupComes'
    BY DEF Resleep, WakeupComes
  <1> QED
    BY <1>1, <1>2, <1>3, <1>4, <1>5, <1>6, <1>7, <1>8 DEF IInv

\* A wake finds the exchanges that were cut off, and no others.
LEMMA WakeKeeps == IInv /\ Wake => IInv'
  <1> SUFFICES ASSUME IInv, Wake PROVE IInv'
    OBVIOUS
  <1>1. TypeOK'
    BY DEF Wake, IInv, TypeOK
  <1>2. OneRefresh'
    BY DEF Wake, IInv, OneRefresh, InChain
  <1>3. CountIsSlots'
    BY DEF Wake, IInv, CountIsSlots, Slotted
  <1>4. GateStands'
    BY DEF Wake, IInv, GateStands
  <1>5. HeldForAll'
    BY DEF Wake, IInv, HeldForAll
  <1>6. DarkHeld'
    BY DEF Wake, IInv, DarkHeld, NoStraddle
  <1>7. NoStraddle'
    BY DEF Wake, NoStraddle
  <1>8. WakeupComes'
    BY DEF Wake, IInv, WakeupComes
  <1> QED
    BY <1>1, <1>2, <1>3, <1>4, <1>5, <1>6, <1>7, <1>8 DEF IInv

\* A dark wake becomes a full one.
LEMMA LightsOnKeeps == IInv /\ LightsOn => IInv'
  <1> SUFFICES ASSUME IInv, LightsOn PROVE IInv'
    OBVIOUS
  <1>1. TypeOK'
    BY DEF LightsOn, IInv, TypeOK
  <1>2. OneRefresh'
    BY DEF LightsOn, IInv, OneRefresh, InChain
  <1>3. CountIsSlots'
    BY DEF LightsOn, IInv, CountIsSlots, Slotted
  <1>4. GateStands'
    BY DEF LightsOn, IInv, GateStands
  <1>5. HeldForAll'
    BY DEF LightsOn, IInv, HeldForAll
  <1>6. DarkHeld'
    BY DEF LightsOn, DarkHeld
  <1>7. NoStraddle'
    BY DEF LightsOn, NoStraddle
  <1>8. WakeupComes'
    BY DEF LightsOn, IInv, WakeupComes
  <1> QED
    BY <1>1, <1>2, <1>3, <1>4, <1>5, <1>6, <1>7, <1>8 DEF IInv

\* Only a gate whose announcement is over expires.
LEMMA ExpireKeeps == IInv /\ Expire => IInv'
  <1> SUFFICES ASSUME IInv, Expire PROVE IInv'
    OBVIOUS
  <1>1. TypeOK'
    BY DEF Expire, IInv, TypeOK
  <1>2. OneRefresh'
    BY DEF Expire, IInv, OneRefresh, InChain
  <1>3. CountIsSlots'
    BY DEF Expire, IInv, CountIsSlots, Slotted
  <1>4. GateStands'
    BY DEF Expire, GateStands
  <1>5. HeldForAll'
    BY DEF Expire, HeldForAll
  <1>6. DarkHeld'
    BY DEF Expire, IInv, DarkHeld
  <1>7. NoStraddle'
    BY DEF Expire, IInv, NoStraddle
  <1>8. WakeupComes'
    BY DEF Expire, WakeupComes
  <1> QED
    BY <1>1, <1>2, <1>3, <1>4, <1>5, <1>6, <1>7, <1>8 DEF IInv

\* The budget is not part of the argument.
LEMMA SpendBudgetKeeps == IInv /\ SpendBudget => IInv'
  <1> SUFFICES ASSUME IInv, SpendBudget PROVE IInv'
    OBVIOUS
  <1>1. TypeOK'
    BY DEF SpendBudget, IInv, TypeOK
  <1>2. OneRefresh'
    BY DEF SpendBudget, IInv, OneRefresh, InChain
  <1>3. CountIsSlots'
    BY DEF SpendBudget, IInv, CountIsSlots, Slotted
  <1>4. GateStands'
    BY DEF SpendBudget, IInv, GateStands
  <1>5. HeldForAll'
    BY DEF SpendBudget, IInv, HeldForAll
  <1>6. DarkHeld'
    BY DEF SpendBudget, IInv, DarkHeld
  <1>7. NoStraddle'
    BY DEF SpendBudget, IInv, NoStraddle
  <1>8. WakeupComes'
    BY DEF SpendBudget, IInv, WakeupComes
  <1> QED
    BY <1>1, <1>2, <1>3, <1>4, <1>5, <1>6, <1>7, <1>8 DEF IInv

\* refresh_lock lets one refresh in.
LEMMA StartKeeps == \A t \in Task : IInv /\ Start(t) => IInv'
  <1> SUFFICES ASSUME NEW t \in Task, IInv, Start(t) PROVE IInv'
    OBVIOUS
  <1>a. PICK to \in {"peek", "defer"} :
          /\ pc' = [pc EXCEPT ![t] = to]
          /\ to = "defer" => \A u \in Task : ~InChain(u)
    BY DEF Start, Goto
  <1>1. TypeOK'
    BY <1>a DEF Start, IInv, TypeOK
  <1>2. OneRefresh'
    BY <1>a DEF IInv, TypeOK, OneRefresh, InChain
  <1>3. CountIsSlots'
    BY <1>a DEF Start, IInv, TypeOK, CountIsSlots, Slotted
  <1>4. GateStands'
    BY <1>a DEF Start, IInv, GateStands
  <1>5. HeldForAll'
    BY <1>a DEF Start, IInv, TypeOK, HeldForAll
  <1>6. DarkHeld'
    BY <1>a DEF Start, IInv, DarkHeld
  <1>7. NoStraddle'
    BY <1>a DEF Start, IInv, NoStraddle
  <1>8. WakeupComes'
    BY <1>a DEF Start, IInv, TypeOK, WakeupComes
  <1> QED
    BY <1>1, <1>2, <1>3, <1>4, <1>5, <1>6, <1>7, <1>8 DEF IInv

\* Whoever reads the listener's gate is turned away.
LEMMA ReadGateKeeps == \A t \in Task : IInv /\ ReadGate(t) => IInv'
  <1> SUFFICES ASSUME NEW t \in Task, IInv, ReadGate(t) PROVE IInv'
    OBVIOUS
  <1>a. PICK to :
          /\ pc' = [pc EXCEPT ![t] = to]
          /\ \/ pc[t] = "defer" /\ to \in {"idle", "dark", "clear defer"}
             \/ pc[t] = "recheck" /\ to \in {"release", "clear recheck"}
             \/ pc[t] = "recheck" /\ to = "send" /\ gate = "none"
             \/ pc[t] = "peek" /\ to \in {"idle", "clear peek"}
          /\ \/ gate = "expired" /\ copy' = [copy EXCEPT ![t] = "current"]
             \/ copy' = copy
    BY ReadGateMoves DEF IInv
  <1>b. UNCHANGED <<os, waking, listener, gate, inFlight, awake, run, sleeps, unheld>> /\ Running
    BY DEF ReadGate
  <1>1. TypeOK'
    BY <1>a, <1>b DEF IInv, TypeOK
  <1>2. OneRefresh'
    BY <1>a, <1>b DEF IInv, TypeOK, OneRefresh, InChain
  <1>3. CountIsSlots'
    BY <1>a, <1>b DEF IInv, TypeOK, CountIsSlots, Slotted
  <1>4. GateStands'
    BY <1>a, <1>b DEF IInv, GateStands
  <1>5. HeldForAll'
    BY <1>a, <1>b DEF IInv, TypeOK, GateStands, HeldForAll
  <1>6. DarkHeld'
    BY <1>a, <1>b DEF IInv, TypeOK, DarkHeld
  <1>7. NoStraddle'
    BY <1>a, <1>b DEF IInv, TypeOK, NoStraddle
  <1>8. WakeupComes'
    BY <1>a, <1>b DEF IInv, TypeOK, WakeupComes
  <1> QED
    BY <1>1, <1>2, <1>3, <1>4, <1>5, <1>6, <1>7, <1>8 DEF IInv

\* A copy taken before the listener's raise does not clear its gate.
LEMMA ClearGateKeeps == \A t \in Task : IInv /\ ClearGate(t) => IInv'
  <1> SUFFICES ASSUME NEW t \in Task, IInv, ClearGate(t) PROVE IInv'
    OBVIOUS
  <1>a. PICK to :
          /\ pc' = [pc EXCEPT ![t] = to]
          /\ copy' = [copy EXCEPT ![t] = "none"]
          /\ \/ pc[t] = "clear defer" /\ to \in {"idle", "dark"}
             \/ pc[t] = "clear recheck" /\ to = "release"
             \/ /\ pc[t] = "clear recheck" /\ to = "send"
                /\ gate = "none" \/ copy[t] = "current"
             \/ pc[t] = "clear peek" /\ to = "idle"
          /\ \/ copy[t] = "current" /\ gate' = "none"
             \/ gate' = gate
    BY ClearGateMoves DEF IInv
  <1>b. UNCHANGED <<os, waking, listener, inFlight, awake, run, sleeps, unheld>> /\ Running
    BY DEF ClearGate
  <1>1. TypeOK'
    BY <1>a, <1>b DEF IInv, TypeOK
  <1>2. OneRefresh'
    BY <1>a, <1>b DEF IInv, TypeOK, OneRefresh, InChain
  <1>3. CountIsSlots'
    BY <1>a, <1>b DEF IInv, TypeOK, CountIsSlots, Slotted
  <1>4. GateStands'
    BY <1>a, <1>b DEF IInv, TypeOK, GateStands
  <1>5. HeldForAll'
    BY <1>a, <1>b DEF IInv, TypeOK, GateStands, HeldForAll
  <1>6. DarkHeld'
    BY <1>a, <1>b DEF IInv, TypeOK, DarkHeld
  <1>7. NoStraddle'
    BY <1>a, <1>b DEF IInv, TypeOK, NoStraddle
  <1>8. WakeupComes'
    BY <1>a, <1>b DEF IInv, TypeOK, WakeupComes
  <1> QED
    BY <1>1, <1>2, <1>3, <1>4, <1>5, <1>6, <1>7, <1>8 DEF IInv

\* The deferral decides before a slot is taken.
LEMMA DeferDarkWakeKeeps == \A t \in Task : IInv /\ DeferDarkWake(t) => IInv'
  <1> SUFFICES ASSUME NEW t \in Task, IInv, DeferDarkWake(t) PROVE IInv'
    OBVIOUS
  <1>1. TypeOK'
    BY DEF DeferDarkWake, Goto, IInv, TypeOK
  <1>2. OneRefresh'
    BY DEF DeferDarkWake, Goto, IInv, TypeOK, OneRefresh, InChain
  <1>3. CountIsSlots'
    BY DEF DeferDarkWake, Goto, IInv, TypeOK, CountIsSlots, Slotted
  <1>4. GateStands'
    BY DEF DeferDarkWake, IInv, GateStands
  <1>5. HeldForAll'
    BY DEF DeferDarkWake, Goto, IInv, TypeOK, HeldForAll
  <1>6. DarkHeld'
    BY DEF DeferDarkWake, Goto, IInv, TypeOK, DarkHeld
  <1>7. NoStraddle'
    BY DEF DeferDarkWake, Goto, IInv, TypeOK, NoStraddle
  <1>8. WakeupComes'
    BY DEF DeferDarkWake, Goto, IInv, TypeOK, WakeupComes
  <1> QED
    BY <1>1, <1>2, <1>3, <1>4, <1>5, <1>6, <1>7, <1>8 DEF IInv

\* The one refresh takes the one slot.
LEMMA ClaimKeeps == \A t \in Task : IInv /\ Claim(t) => IInv'
  <1> SUFFICES ASSUME NEW t \in Task, IInv, Claim(t) PROVE IInv'
    OBVIOUS
  <1>a. inFlight = 0
    <2>1. \A u \in Task : ~Slotted(u)
      BY DEF Claim, IInv, OneRefresh, InChain, Slotted
    <2>2. inFlight # 1
      BY <2>1 DEF IInv, CountIsSlots
    <2>3. inFlight \in 0 .. 1
      BY DEF IInv, TypeOK
    <2> QED
      BY <2>2, <2>3
  <1>b. inFlight' = 1
    BY <1>a DEF Claim
  <1>1. TypeOK'
    <2>1. inFlight' \in 0 .. 1
      BY <1>b
    <2> QED
      BY <2>1 DEF Claim, Goto, IInv, TypeOK
  <1>2. OneRefresh'
    BY <1>a, <1>b DEF Claim, Goto, IInv, TypeOK, OneRefresh, InChain
  <1>3. CountIsSlots'
    BY <1>a, <1>b DEF Claim, Goto, IInv, TypeOK, CountIsSlots, Slotted
  <1>4. GateStands'
    BY <1>a, <1>b DEF Claim, IInv, GateStands
  <1>5. HeldForAll'
    BY <1>a, <1>b DEF Claim, Goto, IInv, TypeOK, HeldForAll
  <1>6. DarkHeld'
    BY <1>a, <1>b DEF Claim, Goto, IInv, DarkHeld
  <1>7. NoStraddle'
    BY <1>a, <1>b DEF Claim, Goto, IInv, NoStraddle
  <1>8. WakeupComes'
    BY <1>a, <1>b DEF Goto, TypeOK, WakeupComes
  <1> QED
    BY <1>1, <1>2, <1>3, <1>4, <1>5, <1>6, <1>7, <1>8 DEF IInv

\* An exchange that starts in a dark wake holds it.
LEMMA SendKeeps == \A t \in Task : IInv /\ Send(t) => IInv'
  <1> SUFFICES ASSUME NEW t \in Task, IInv, Send(t) PROVE IInv'
    OBVIOUS
  <1>1. TypeOK'
    BY DEF Send, Goto, IInv, TypeOK
  <1>2. OneRefresh'
    BY DEF Send, Goto, IInv, TypeOK, OneRefresh, InChain
  <1>3. CountIsSlots'
    BY DEF Send, Goto, IInv, TypeOK, CountIsSlots, Slotted
  <1>4. GateStands'
    BY DEF Send, IInv, GateStands
  <1>5. HeldForAll'
    BY DEF Send, Goto, IInv, TypeOK, HeldForAll
  <1>6. DarkHeld'
    BY DEF Send, Goto, IInv, DarkHeld
  <1>7. NoStraddle'
    BY DEF Send, Running, NoStraddle
  <1>8. WakeupComes'
    BY DEF Send, Goto, IInv, TypeOK, WakeupComes
  <1> QED
    BY <1>1, <1>2, <1>3, <1>4, <1>5, <1>6, <1>7, <1>8 DEF IInv

\* An answered exchange keeps its slot until the guard drops.
LEMMA ReplyKeeps == \A t \in Task : IInv /\ Reply(t) => IInv'
  <1> SUFFICES ASSUME NEW t \in Task, IInv, Reply(t) PROVE IInv'
    OBVIOUS
  <1>1. TypeOK'
    BY DEF Reply, Goto, IInv, TypeOK
  <1>2. OneRefresh'
    BY DEF Reply, Goto, IInv, TypeOK, OneRefresh, InChain
  <1>3. CountIsSlots'
    BY DEF Reply, Goto, IInv, TypeOK, CountIsSlots, Slotted
  <1>4. GateStands'
    BY DEF Reply, IInv, GateStands
  <1>5. HeldForAll'
    BY DEF Reply, Goto, IInv, TypeOK, HeldForAll
  <1>6. DarkHeld'
    BY DEF Reply, Goto, IInv, TypeOK, DarkHeld
  <1>7. NoStraddle'
    BY DEF Reply, Goto, IInv, TypeOK, NoStraddle
  <1>8. WakeupComes'
    BY DEF Reply, Goto, IInv, TypeOK, WakeupComes
  <1> QED
    BY <1>1, <1>2, <1>3, <1>4, <1>5, <1>6, <1>7, <1>8 DEF IInv

\* The last slot's release leaves a wake-up owed.
LEMMA ReleaseKeeps == \A t \in Task : IInv /\ Release(t) => IInv'
  <1> SUFFICES ASSUME NEW t \in Task, IInv, Release(t) PROVE IInv'
    OBVIOUS
  <1>a. inFlight = 1
    BY DEF Release, IInv, CountIsSlots, Slotted
  <1>b. inFlight' = 0 /\ pc' = [pc EXCEPT ![t] = "notify"]
    BY <1>a DEF Release, Goto
  <1>c. \A u \in Task : u # t => ~Slotted(u)
    BY DEF Release, IInv, OneRefresh, InChain, Slotted
  <1>1. TypeOK'
    <2>1. inFlight' \in 0 .. 1
      BY <1>b
    <2>2. pc' \in [Task -> {"idle", "peek", "clear peek", "defer", "clear defer", "dark", "claim",
                          "recheck", "clear recheck", "send", "wire", "release", "notify"}]
      BY <1>b DEF IInv, TypeOK
    <2> QED
      BY <2>1, <2>2 DEF Release, IInv, TypeOK
  <1>2. OneRefresh'
    BY <1>a, <1>b, <1>c DEF Release, IInv, TypeOK, OneRefresh, InChain
  <1>3. CountIsSlots'
    <2>1. \A u \in Task : ~Slotted(u)'
      BY <1>b, <1>c DEF IInv, TypeOK, Slotted
    <2>2. inFlight' # 1
      BY <1>b
    <2> QED
      BY <2>1, <2>2 DEF CountIsSlots
  <1>4. GateStands'
    BY <1>a, <1>b, <1>c DEF Release, IInv, GateStands
  <1>5. HeldForAll'
    BY <1>a, <1>b, <1>c DEF Release, IInv, TypeOK, HeldForAll
  <1>6. DarkHeld'
    BY <1>a, <1>b, <1>c DEF Release, IInv, DarkHeld
  <1>7. NoStraddle'
    BY <1>a, <1>b, <1>c DEF Release, IInv, NoStraddle
  <1>8. WakeupComes'
    BY <1>a, <1>b, <1>c DEF IInv, TypeOK, WakeupComes
  <1> QED
    BY <1>1, <1>2, <1>3, <1>4, <1>5, <1>6, <1>7, <1>8 DEF IInv

\* The wake-up finds the listener parked, or not holding at all.
LEMMA NotifyKeeps == \A t \in Task : IInv /\ Notify(t) => IInv'
  <1> SUFFICES ASSUME NEW t \in Task, IInv, Notify(t) PROVE IInv'
    OBVIOUS
  <1>1. TypeOK'
    BY DEF Notify, Goto, IInv, TypeOK
  <1>2. OneRefresh'
    BY DEF Notify, Goto, IInv, TypeOK, OneRefresh, InChain
  <1>3. CountIsSlots'
    BY DEF Notify, Goto, IInv, TypeOK, CountIsSlots, Slotted
  <1>4. GateStands'
    BY DEF Notify, IInv, GateStands
  <1>5. HeldForAll'
    BY DEF Notify, Goto, IInv, TypeOK, HeldForAll
  <1>6. DarkHeld'
    BY DEF Notify, Goto, IInv, DarkHeld
  <1>7. NoStraddle'
    BY DEF Notify, Goto, IInv, NoStraddle
  <1>8. WakeupComes'
    BY DEF Notify, WakeupComes
  <1> QED
    BY <1>1, <1>2, <1>3, <1>4, <1>5, <1>6, <1>7, <1>8 DEF IInv

-----------------------------------------------------------------------------
\* The initial state: nobody refreshes, and no sleep is announced.
LEMMA InitHolds == Init => IInv
  <1> SUFFICES ASSUME Init PROVE IInv
    OBVIOUS
  <1>1. inFlight \in 0 .. 1 /\ sleeps \in 0 .. MaxSleeps
    BY SleepAssumption DEF Init
  <1>2. TypeOK
    BY <1>1 DEF Init, TypeOK
  <1>3. \A t \in Task : ~InChain(t) /\ ~Slotted(t) /\ pc[t] # "wire"
    BY DEF Init, InChain, Slotted
  <1>4. inFlight # 1
    BY DEF Init
  <1>5. OneRefresh /\ CountIsSlots
    BY <1>3, <1>4 DEF OneRefresh, CountIsSlots
  <1>6. GateStands /\ HeldForAll /\ DarkHeld /\ NoStraddle /\ WakeupComes
    BY DEF Init, GateStands, HeldForAll, DarkHeld, NoStraddle, WakeupComes
  <1> QED
    BY <1>2, <1>5, <1>6 DEF IInv

\* The argument reads the variables only.
LEMMA StutterKeeps == IInv /\ UNCHANGED vars => IInv'
  <1> SUFFICES ASSUME IInv, UNCHANGED vars PROVE IInv'
    OBVIOUS
  <1>1. TypeOK'
    BY DEF vars, IInv, TypeOK
  <1>2. OneRefresh' /\ CountIsSlots'
    BY DEF vars, IInv, OneRefresh, CountIsSlots, InChain, Slotted
  <1>3. GateStands' /\ HeldForAll'
    BY DEF vars, IInv, GateStands, HeldForAll
  <1>4. DarkHeld' /\ NoStraddle' /\ WakeupComes'
    BY DEF vars, IInv, DarkHeld, NoStraddle, WakeupComes
  <1> QED
    BY <1>1, <1>2, <1>3, <1>4 DEF IInv

\* Every step of the machine, the listener or a task keeps the invariant.
LEMMA NextKeeps == IInv /\ [Next]_vars => IInv'
  <1> SUFFICES ASSUME IInv, [Next]_vars PROVE IInv'
    OBVIOUS
  <1>1. ASSUME ListenerStep PROVE IInv'
    BY <1>1, LoadInFlightKeeps, HoldLoopKeeps, ParkKeeps, HoldTimeoutKeeps, DidWakeKeeps
       DEF ListenerStep
  <1>2. ASSUME Suspend \/ Resleep \/ Wake \/ LightsOn \/ Expire \/ SpendBudget PROVE IInv'
    BY <1>2, SuspendKeeps, ResleepKeeps, WakeKeeps, LightsOnKeeps, ExpireKeeps, SpendBudgetKeeps
  <1>3. ASSUME NEW t \in Task, Start(t) \/ TaskStep(t) PROVE IInv'
    BY <1>3, StartKeeps, ReadGateKeeps, ClearGateKeeps, DeferDarkWakeKeeps, ClaimKeeps,
       SendKeeps, ReplyKeeps, ReleaseKeeps, NotifyKeeps DEF TaskStep
  <1> QED
    BY <1>1, <1>2, <1>3, RaiseKeeps, StutterKeeps DEF Next

(* The inductive invariant of the listener, the machine and the tasks.      *)
THEOREM SleepGateInvariant == Spec => []IInv
  BY InitHolds, NextKeeps, PTL DEF Spec

(* The in-flight count refresh_chain's guards keep is never above one, and  *)
(* every variable stays in its range.                                       *)
THEOREM SleepGateTyped == Spec => []TypeOK
  <1>1. IInv => TypeOK
    BY DEF IInv
  <1> QED
    BY <1>1, SleepGateInvariant, PTL

(* set_system_sleep_imminent raises the gate and then reads the count, and  *)
(* refresh_chain takes its slot and then reads the gate: the machine sleeps *)
(* on an exchange only when the hold for it ran out of time.                *)
THEOREM SleepIsHeld == Spec => []NoStraddle
  <1>1. IInv => NoStraddle
    BY DEF IInv
  <1> QED
    BY <1>1, SleepGateInvariant, PTL

(* InFlightGuard::drop notifies under the drain lock: a listener parked in  *)
(* hold_sleep_ack_until_refresh_drains with nothing in flight has its       *)
(* wake-up on the way.                                                      *)
THEOREM WakeupNotLost == Spec => []NoLostWakeup
  <1>1. IInv => NoLostWakeup
    BY DEF IInv, WakeupComes, NoLostWakeup
  <1> QED
    BY <1>1, SleepGateInvariant, PTL
=============================================================================

-------------------- MODULE CircuitBreakerThreadsProofs ---------------------
(***************************************************************************)
(* The breaker called by any number of threads, for every configuration:   *)
(* the type of every shared atomic and register, how far the probe counter *)
(* may drift, and for how long a sample is counted.                        *)
(***************************************************************************)
EXTENDS CircuitBreakerHistory, FiniteSetTheorems, SequenceTheorems, WellFoundedInduction, TLAPS

(* Any set of naturals has a least element. *)
LEMMA LeastNatural ==
  ASSUME NEW T, T \subseteq Nat, T # {}
  PROVE  \E x \in T : \A y \in T : x <= y
<1>1. PICK x \in T : \A y \in T : ~(<<y, x>> \in OpToRel(<, Nat))
  BY NatLessThanWellFounded, WFMin
<1>2. \A y \in T : ~(y < x)
  BY <1>1 DEF OpToRel
<1> QED BY <1>2

(* Samples reach the window out of time order here: a thread reads the      *)
(* clock before it takes the mutex.  The loop of evict still stops at a     *)
(* sample or at the end.                                                    *)
LEMMA EvictStops ==
  ASSUME NEW s \in Seq(Sample), NEW at
  PROVE  /\ EvictCount(s, at) \in 0..Len(s)
         /\ EvictCount(s, at) < Len(s) => ~Expired(s[EvictCount(s, at) + 1], at)
<1> DEFINE Young == {i \in 1..Len(s) : ~Expired(s[i], at)}
<1>1. \E k \in 0..Len(s) : /\ \A i \in 1..k : Expired(s[i], at)
                           /\ k < Len(s) => ~Expired(s[k + 1], at)
  <2>1. CASE Young = {}
    <3>1. Len(s) \in 0..Len(s) /\ \A i \in 1..Len(s) : Expired(s[i], at)
      BY <2>1
    <3> QED BY <3>1
  <2>2. CASE Young # {}
    <3>1. Young \subseteq Nat
      OBVIOUS
    <3>2. PICK y \in Young : \A i \in Young : y <= i
      BY <3>1, <2>2, LeastNatural
    <3>3. y - 1 \in 0..Len(s) /\ (y - 1) + 1 = y
      OBVIOUS
    <3>4. \A i \in 1..(y - 1) : Expired(s[i], at)
      BY <3>2
    <3>5. ~Expired(s[y], at)
      OBVIOUS
    <3> QED BY <3>3, <3>4, <3>5
  <2> QED BY <2>1, <2>2
<1> QED BY <1>1 DEF EvictCount

LEMMA EvictTyped ==
  ASSUME NEW w, w.entries \in Seq(Sample), NEW at
  PROVE  Evict(w, at).entries \in Seq(Sample)
<1>1. PICK s \in Seq(Sample) : s = w.entries
  OBVIOUS
<1>2. PICK k \in 0..Len(s) : k = EvictCount(s, at)
  BY EvictStops
<1>3. Evict(w, at).entries = SubSeq(s, k + 1, Len(s))
  BY <1>1, <1>2 DEF Evict
<1>4. k + 1 \in Int /\ Len(s) \in Int /\ \A i \in (k + 1)..Len(s) : s[i] \in Sample
  OBVIOUS
<1> QED BY <1>3, <1>4, SubSeqProperties

LEMMA PushTyped ==
  ASSUME NEW w, w.entries \in Seq(Sample), NEW failure \in BOOLEAN, NEW at \in Nat
  PROVE  Push(w, failure, at).entries \in Seq(Sample)
<1>1. PICK kept : kept = IF Len(w.entries) >= MaxWindowEntries THEN Tail(w.entries) ELSE w.entries
  OBVIOUS
<1>2. PICK sample : sample = [at |-> at, failure |-> failure]
  OBVIOUS
<1>3. sample \in Sample
  BY <1>2 DEF Sample
<1>4. kept \in Seq(Sample)
  <2>1. Len(w.entries) >= MaxWindowEntries => w.entries # << >>
    BY WindowAssumption
  <2> QED BY <1>1, <2>1
<1>5. Push(w, failure, at).entries = Append(kept, sample)
  BY <1>1, <1>2 DEF Push
<1> QED BY <1>3, <1>4, <1>5

-----------------------------------------------------------------------------
(* The registers of a thread. *)
Registers ==
    /\ pc \in [Threads -> Labels]
    /\ clk \in [Threads -> 0..now] /\ seen \in [Threads -> 0..now]
    /\ failed \in [Threads -> BOOLEAN]

(* The variables all threads share. *)
Atomics ==
    /\ state \in {"Closed", "Open", "HalfOpen"}
    /\ openedAt \in 0..now /\ probes \in 0..UsizeModulus - 1 /\ claimedAt \in 0..now
    /\ isOpenFast \in BOOLEAN
    /\ window.entries \in Seq(Sample)

(* TypeOK, with the type of the clock. *)
Typed == now \in Nat /\ Registers /\ Atomics

LEMMA Sent == ASSUME Registers, now \in Nat, NEW t \in Threads, NEW label \in Labels, Return(t, label), now' = now
              PROVE  Registers'
<1>1. 0 \in 0..now
  OBVIOUS
<1> QED BY <1>1 DEF Registers, Return, Goto

LEMMA Moved == ASSUME Registers, NEW t \in Threads, NEW label \in Labels, Goto(t, label), KeepRegisters, now' = now
               PROVE  Registers'
BY DEF Registers, Goto, KeepRegisters

LEMMA Clocked == ASSUME Registers, now \in Nat, NEW t \in Threads, NEW label \in Labels,
                        Goto(t, label), ReadClock(t), now' = now
                 PROVE  Registers'
<1>1. now \in 0..now
  OBVIOUS
<1> QED BY <1>1 DEF Registers, Goto, ReadClock

LEMMA Kept == ASSUME Atomics, UNCHANGED <<shared, now>> PROVE Atomics'
BY DEF Atomics, shared

LEMMA CheckStateTyped == ASSUME Typed, NEW t \in Threads, CheckState(t) PROVE Typed'
<1>0. now \in Nat /\ now' = now /\ Registers /\ Atomics
  BY DEF Typed, CheckState, shared
<1>1. Registers'
  <2>1. CASE state = "Closed"
    BY <1>0, <2>1, Sent DEF CheckState, Labels, Admit
  <2>2. CASE state = "Open"
    BY <1>0, <2>2, Moved DEF CheckState, Labels, Reject
  <2>3. CASE state = "HalfOpen"
    BY <1>0, <2>3, Moved DEF CheckState, Labels
  <2> QED BY <1>0, <2>1, <2>2, <2>3 DEF Atomics
<1>2. Atomics'
  BY <1>0, Kept DEF CheckState
<1> QED BY <1>0, <1>1, <1>2 DEF Typed

LEMMA OpenedLoadTyped == ASSUME Typed, NEW t \in Threads, OpenedLoad(t) PROVE Typed'
<1>0. now \in Nat /\ now' = now /\ Registers /\ Atomics
  BY DEF Typed, OpenedLoad, shared
<1>1. Registers'
  BY <1>0 DEF OpenedLoad, Registers, Atomics, Goto, Labels
<1>2. Atomics'
  BY <1>0, Kept DEF OpenedLoad
<1> QED BY <1>0, <1>1, <1>2 DEF Typed

LEMMA OpenedElapsedTyped == ASSUME Typed, NEW t \in Threads, OpenedElapsed(t) PROVE Typed'
<1>0. now \in Nat /\ now' = now /\ Registers /\ Atomics
  BY DEF Typed, OpenedElapsed, shared
<1>1. Registers'
  BY <1>0, Moved, Sent DEF OpenedElapsed, Labels, Admit, Reject
<1>2. Atomics'
  BY <1>0, Kept DEF OpenedElapsed
<1> QED BY <1>0, <1>1, <1>2 DEF Typed

LEMMA OpenedCasTyped == ASSUME Typed, NEW t \in Threads, OpenedCas(t) PROVE Typed'
<1>0. now \in Nat /\ now' = now /\ Registers /\ Atomics
  BY DEF Typed, OpenedCas, shared
<1>1. Registers'
  BY <1>0, Moved, Sent DEF OpenedCas, Labels, Admit, Reject
<1>2. Atomics'
  BY <1>0 DEF OpenedCas, Atomics
<1> QED BY <1>0, <1>1, <1>2 DEF Typed

LEMMA OpenedMirrorTyped == ASSUME Typed, NEW t \in Threads, OpenedMirror(t) PROVE Typed'
<1>0. now \in Nat /\ now' = now /\ Registers /\ Atomics
  BY DEF Typed, OpenedMirror, shared
<1>1. Registers'
  BY <1>0, Moved DEF OpenedMirror, Labels
<1>2. Atomics'
  BY <1>0 DEF OpenedMirror, Atomics
<1> QED BY <1>0, <1>1, <1>2 DEF Typed

LEMMA OpenedLostTyped == ASSUME Typed, NEW t \in Threads, OpenedLost(t) PROVE Typed'
<1>0. now \in Nat /\ now' = now /\ Registers /\ Atomics
  BY DEF Typed, OpenedLost, shared
<1>1. Registers'
  <2>1. CASE state = "Closed"
    BY <1>0, <2>1, Sent DEF OpenedLost, Labels, Admit
  <2>2. CASE state = "Open"
    BY <1>0, <2>2, Sent DEF OpenedLost, Labels, Reject
  <2>3. CASE state = "HalfOpen"
    BY <1>0, <2>3, Moved DEF OpenedLost, Labels
  <2> QED BY <1>0, <2>1, <2>2, <2>3 DEF Atomics
<1>2. Atomics'
  BY <1>0, Kept DEF OpenedLost
<1> QED BY <1>0, <1>1, <1>2 DEF Typed

LEMMA ProbeClockTyped == ASSUME Typed, NEW t \in Threads, ProbeClock(t) PROVE Typed'
<1>0. now \in Nat /\ now' = now /\ Registers /\ Atomics
  BY DEF Typed, ProbeClock, shared
<1>1. Registers'
  BY <1>0, Clocked DEF ProbeClock, Labels
<1>2. Atomics'
  BY <1>0, Kept DEF ProbeClock
<1> QED BY <1>0, <1>1, <1>2 DEF Typed

LEMMA ProbeAddTyped == ASSUME Typed, NEW t \in Threads, ProbeAdd(t) PROVE Typed'
<1>0. now \in Nat /\ now' = now /\ Registers /\ Atomics
  BY DEF Typed, ProbeAdd, shared
<1>1. Registers'
  BY <1>0, Moved DEF ProbeAdd, Labels
<1>2. Atomics'
  <2>1. UsizeModulus \in Nat \ {0} /\ probes \in Nat
    BY <1>0, ThreadsAssumption DEF Atomics
  <2>2. probes + 1 \in Nat
    BY <2>1
  <2>3. (probes + 1) % UsizeModulus \in 0..UsizeModulus - 1
    BY <2>1, <2>2
  <2>4. probes' \in 0..UsizeModulus - 1
    BY <2>3 DEF ProbeAdd
  <2> QED BY <1>0, <2>4 DEF ProbeAdd, Atomics
<1> QED BY <1>0, <1>1, <1>2 DEF Typed

LEMMA ProbeClaimTyped == ASSUME Typed, NEW t \in Threads, ProbeClaim(t) PROVE Typed'
<1>0. now \in Nat /\ now' = now /\ Registers /\ Atomics
  BY DEF Typed, ProbeClaim, shared
<1>1. Registers'
  BY <1>0, Sent DEF ProbeClaim, Labels, Admit, Reject
<1>2. Atomics'
  BY <1>0 DEF ProbeClaim, Atomics, Registers
<1> QED BY <1>0, <1>1, <1>2 DEF Typed

LEMMA ProbeSubTyped == ASSUME Typed, NEW t \in Threads, ProbeSub(t) PROVE Typed'
<1>0. now \in Nat /\ now' = now /\ Registers /\ Atomics
  BY DEF Typed, ProbeSub, shared
<1>1. Registers'
  BY <1>0, Moved DEF ProbeSub, Labels
<1>2. Atomics'
  <2>1. UsizeModulus \in Nat \ {0} /\ probes \in Nat
    BY <1>0, ThreadsAssumption DEF Atomics
  <2>2. probes + UsizeModulus - 1 \in Nat
    BY <2>1
  <2>3. (probes + UsizeModulus - 1) % UsizeModulus \in 0..UsizeModulus - 1
    BY <2>1, <2>2
  <2>4. probes' \in 0..UsizeModulus - 1
    BY <2>3 DEF ProbeSub
  <2> QED BY <1>0, <2>4 DEF ProbeSub, Atomics
<1> QED BY <1>0, <1>1, <1>2 DEF Typed

LEMMA ProbeLeaseTyped == ASSUME Typed, NEW t \in Threads, ProbeLease(t) PROVE Typed'
<1>0. now \in Nat /\ now' = now /\ Registers /\ Atomics
  BY DEF Typed, ProbeLease, shared
<1>1. Registers'
  <2>1. CASE clk[t] - claimedAt >= OpenDuration
    BY <1>0, <2>1 DEF ProbeLease, Registers, Atomics, Goto, Labels
  <2>2. CASE ~(clk[t] - claimedAt >= OpenDuration)
    BY <1>0, <2>2, Sent DEF ProbeLease, Labels, Reject
  <2> QED BY <2>1, <2>2
<1>2. Atomics'
  BY <1>0, Kept DEF ProbeLease
<1> QED BY <1>0, <1>1, <1>2 DEF Typed

LEMMA ProbeCasTyped == ASSUME Typed, NEW t \in Threads, ProbeCas(t) PROVE Typed'
<1>0. now \in Nat /\ now' = now /\ Registers /\ Atomics
  BY DEF Typed, ProbeCas, shared
<1>1. Registers'
  BY <1>0, Sent DEF ProbeCas, Labels, Admit, Reject
<1>2. Atomics'
  BY <1>0 DEF ProbeCas, Atomics, Registers
<1> QED BY <1>0, <1>1, <1>2 DEF Typed

LEMMA RecordClockTyped == ASSUME Typed, NEW t \in Threads, NEW failure \in BOOLEAN, RecordClock(t, failure) PROVE Typed'
<1>0. now \in Nat /\ now' = now /\ Registers /\ Atomics
  BY DEF Typed, RecordClock, shared
<1>1. Registers'
  BY <1>0 DEF RecordClock, Registers, Goto, Labels
<1>2. Atomics'
  BY <1>0, Kept DEF RecordClock
<1> QED BY <1>0, <1>1, <1>2 DEF Typed

LEMMA RecordStateTyped == ASSUME Typed, NEW t \in Threads, RecordState(t) PROVE Typed'
<1>0. now \in Nat /\ now' = now /\ Registers /\ Atomics
  BY DEF Typed, RecordState, shared
<1>1. Registers'
  <2>1. failed[t] \in BOOLEAN
    BY <1>0 DEF Registers
  <2>2. \E label \in Labels : Goto(t, label)
    BY <1>0, <2>1 DEF RecordState, Atomics, Labels
  <2> QED BY <1>0, <2>2, Moved DEF RecordState
<1>2. Atomics'
  BY <1>0, Kept DEF RecordState
<1> QED BY <1>0, <1>1, <1>2 DEF Typed

LEMMA SampleTyped ==
  ASSUME now \in Nat, Registers, Atomics, NEW t \in Threads PROVE RecordSample(t).entries \in Seq(Sample)
<1>1. clk[t] \in Nat /\ failed[t] \in BOOLEAN
  BY DEF Registers
<1>2. Push(window, failed[t], clk[t]).entries \in Seq(Sample)
  BY <1>1, PushTyped DEF Atomics
<1> QED BY <1>2, EvictTyped DEF RecordSample

LEMMA RecordClosedTyped == ASSUME Typed, NEW t \in Threads, RecordClosed(t) PROVE Typed'
<1>0. now \in Nat /\ now' = now /\ Registers /\ Atomics
  BY DEF Typed, RecordClosed, shared
<1>1. Registers'
  BY <1>0, Moved, Sent DEF RecordClosed, Labels, Admit, Reject
<1>2. Atomics'
  <2>1. window'.entries \in Seq(Sample)
    BY <1>0, SampleTyped DEF RecordClosed
  <2> QED BY <1>0, <2>1 DEF RecordClosed, Atomics
<1> QED BY <1>0, <1>1, <1>2 DEF Typed

LEMMA RecordOpenTyped == ASSUME Typed, NEW t \in Threads, RecordOpen(t) PROVE Typed'
<1>0. now \in Nat /\ now' = now /\ Registers /\ Atomics
  BY DEF Typed, RecordOpen, shared
<1>1. Registers'
  BY <1>0, Sent DEF RecordOpen, Labels, Admit, Reject
<1>2. Atomics'
  <2>1. window'.entries \in Seq(Sample)
    BY <1>0, SampleTyped DEF RecordOpen
  <2> QED BY <1>0, <2>1 DEF RecordOpen, Atomics
<1> QED BY <1>0, <1>1, <1>2 DEF Typed

LEMMA TripStateTyped == ASSUME Typed, NEW t \in Threads, TripState(t) PROVE Typed'
<1>0. now \in Nat /\ now' = now /\ Registers /\ Atomics
  BY DEF Typed, TripState, shared
<1>1. Registers'
  BY <1>0, Moved DEF TripState, Labels
<1>2. Atomics'
  BY <1>0 DEF TripState, Atomics
<1> QED BY <1>0, <1>1, <1>2 DEF Typed

LEMMA TripClockTyped == ASSUME Typed, NEW t \in Threads, TripClock(t) PROVE Typed'
<1>0. now \in Nat /\ now' = now /\ Registers /\ Atomics
  BY DEF Typed, TripClock, shared
<1>1. Registers'
  BY <1>0, Clocked DEF TripClock, Labels
<1>2. Atomics'
  BY <1>0, Kept DEF TripClock
<1> QED BY <1>0, <1>1, <1>2 DEF Typed

LEMMA TripOpenedTyped == ASSUME Typed, NEW t \in Threads, TripOpened(t) PROVE Typed'
<1>0. now \in Nat /\ now' = now /\ Registers /\ Atomics
  BY DEF Typed, TripOpened, shared
<1>1. Registers'
  BY <1>0, Moved DEF TripOpened, Labels
<1>2. Atomics'
  BY <1>0 DEF TripOpened, Atomics, Registers
<1> QED BY <1>0, <1>1, <1>2 DEF Typed

LEMMA TripProbesTyped == ASSUME Typed, NEW t \in Threads, TripProbes(t) PROVE Typed'
<1>0. now \in Nat /\ now' = now /\ Registers /\ Atomics
  BY DEF Typed, TripProbes, shared
<1>1. Registers'
  BY <1>0, Moved DEF TripProbes, Labels
<1>2. Atomics'
  <2>1. 0 \in 0..UsizeModulus - 1
    BY ThreadsAssumption
  <2> QED BY <1>0, <2>1 DEF TripProbes, Atomics
<1> QED BY <1>0, <1>1, <1>2 DEF Typed

LEMMA TripMirrorTyped == ASSUME Typed, NEW t \in Threads, TripMirror(t) PROVE Typed'
<1>0. now \in Nat /\ now' = now /\ Registers /\ Atomics
  BY DEF Typed, TripMirror, shared
<1>1. Registers'
  BY <1>0, Sent DEF TripMirror, Labels, Admit, Reject
<1>2. Atomics'
  BY <1>0 DEF TripMirror, Atomics
<1> QED BY <1>0, <1>1, <1>2 DEF Typed

LEMMA CloseStateTyped == ASSUME Typed, NEW t \in Threads, CloseState(t) PROVE Typed'
<1>0. now \in Nat /\ now' = now /\ Registers /\ Atomics
  BY DEF Typed, CloseState, shared
<1>1. Registers'
  BY <1>0, Moved DEF CloseState, Labels
<1>2. Atomics'
  BY <1>0 DEF CloseState, Atomics
<1> QED BY <1>0, <1>1, <1>2 DEF Typed

LEMMA CloseWindowTyped == ASSUME Typed, NEW t \in Threads, CloseWindow(t) PROVE Typed'
<1>0. now \in Nat /\ now' = now /\ Registers /\ Atomics
  BY DEF Typed, CloseWindow, shared
<1>1. Registers'
  BY <1>0, Moved DEF CloseWindow, Labels
<1>2. Atomics'
  <2>1. window'.entries \in Seq(Sample)
    BY DEF CloseWindow, EmptyWindow
  <2> QED BY <1>0, <2>1 DEF CloseWindow, Atomics
<1> QED BY <1>0, <1>1, <1>2 DEF Typed

LEMMA CloseProbesTyped == ASSUME Typed, NEW t \in Threads, CloseProbes(t) PROVE Typed'
<1>0. now \in Nat /\ now' = now /\ Registers /\ Atomics
  BY DEF Typed, CloseProbes, shared
<1>1. Registers'
  BY <1>0, Moved DEF CloseProbes, Labels
<1>2. Atomics'
  <2>1. 0 \in 0..UsizeModulus - 1
    BY ThreadsAssumption
  <2> QED BY <1>0, <2>1 DEF CloseProbes, Atomics
<1> QED BY <1>0, <1>1, <1>2 DEF Typed

LEMMA CloseMirrorTyped == ASSUME Typed, NEW t \in Threads, CloseMirror(t) PROVE Typed'
<1>0. now \in Nat /\ now' = now /\ Registers /\ Atomics
  BY DEF Typed, CloseMirror, shared
<1>1. Registers'
  BY <1>0, Sent DEF CloseMirror, Labels, Admit, Reject
<1>2. Atomics'
  BY <1>0 DEF CloseMirror, Atomics
<1> QED BY <1>0, <1>1, <1>2 DEF Typed

LEMMA DropTyped == ASSUME Typed, NEW t \in Threads, Drop(t) PROVE Typed'
<1>0. now \in Nat /\ now' = now /\ Registers /\ Atomics
  BY DEF Typed, Drop, shared
<1>1. Registers'
  BY <1>0, Sent DEF Drop, Labels, Admit, Reject
<1>2. Atomics'
  BY <1>0, Kept DEF Drop
<1> QED BY <1>0, <1>1, <1>2 DEF Typed

LEMMA ErrorRateTyped == ASSUME Typed, ErrorRate PROVE Typed'
<1>1. window'.entries \in Seq(Sample)
  BY EvictTyped DEF Typed, Atomics, ErrorRate
<1> QED BY <1>1 DEF Typed, Registers, Atomics, ErrorRate

LEMMA TickTyped == ASSUME Typed, Tick PROVE Typed'
<1>1. now' \in Nat /\ \A x \in 0..now : x \in 0..now'
  BY DEF Typed, Tick
<1>2. Registers'
  BY <1>1 DEF Typed, Tick, Registers
<1>3. Atomics'
  BY <1>1 DEF Typed, Tick, shared, Atomics
<1> QED BY <1>1, <1>2, <1>3 DEF Typed

LEMMA NextTyped == Typed /\ [Next]_vars => Typed'
<1> SUFFICES ASSUME Typed, [Next]_vars PROVE Typed'
  OBVIOUS
<1>1. CASE Tick
  BY <1>1, TickTyped
<1>2. CASE ErrorRate
  BY <1>2, ErrorRateTyped
<1>3. ASSUME NEW t \in Threads, Check(t) PROVE Typed'
  BY <1>3, CheckStateTyped, OpenedLoadTyped, OpenedElapsedTyped, OpenedCasTyped, OpenedMirrorTyped,
     OpenedLostTyped, ProbeClockTyped, ProbeAddTyped, ProbeClaimTyped, ProbeSubTyped, ProbeLeaseTyped,
     ProbeCasTyped DEF Check
<1>4. ASSUME NEW t \in Threads, NEW failure \in BOOLEAN, RecordClock(t, failure) PROVE Typed'
  BY <1>4, RecordClockTyped
<1>5. ASSUME NEW t \in Threads, Recording(t) PROVE Typed'
  BY <1>5, RecordStateTyped, RecordClosedTyped, RecordOpenTyped, TripStateTyped, TripClockTyped,
     TripOpenedTyped, TripProbesTyped, TripMirrorTyped, CloseStateTyped, CloseWindowTyped,
     CloseProbesTyped, CloseMirrorTyped DEF Recording
<1>6. ASSUME NEW t \in Threads, Drop(t) PROVE Typed'
  BY <1>6, DropTyped
<1>7. CASE UNCHANGED vars
  BY <1>7 DEF Typed, Registers, Atomics, vars, shared
<1> QED BY <1>1, <1>2, <1>3, <1>4, <1>5, <1>6, <1>7 DEF Next

LEMMA InitTyped == Init => Typed
<1> SUFFICES ASSUME Init PROVE Typed
  OBVIOUS
<1>1. 0 \in Nat /\ 0 \in 0..now /\ 0 \in 0..UsizeModulus - 1
  BY ThreadsAssumption DEF Init
<1>2. window.entries \in Seq(Sample)
  BY DEF Init, EmptyWindow
<1>3. Registers
  BY <1>1 DEF Init, Registers, Labels
<1> QED BY <1>1, <1>2, <1>3 DEF Init, Typed, Atomics

(* Whatever the interleaving, no thread stores a time that has not come,    *)
(* so that neither the cool-down nor a lease is measured from the future;   *)
(* half_open_probes stays a usize, though a decrement that comes after      *)
(* trip() or close() has zeroed it wraps around; and the window stays a     *)
(* queue of samples, though threads push them out of order.                 *)
THEOREM ThreadsTyped == Spec => []TypeOK
<1>1. Typed => TypeOK
  BY DEF Typed, Registers, Atomics, TypeOK
<1> QED BY <1>1, InitTyped, NextTyped, PTL DEF Spec

-----------------------------------------------------------------------------
(* The probe counter.                                                       *)

Undoing == {t \in Threads : At(t, "probe_sub")}

LEMMA UndoingFinite ==
  /\ IsFiniteSet(Undoing) /\ Cardinality(Undoing) \in Nat /\ Cardinality(Threads) \in Nat
  /\ Cardinality(Undoing) <= Cardinality(Threads)
<1>1. Undoing \subseteq Threads
  BY DEF Undoing
<1> QED BY <1>1, ThreadsAssumption, FS_Subset, FS_CardinalityType

(* A step that does not touch the counter and moves no thread to or from    *)
(* the undoing of a claim. *)
Elsewhere == probes' = probes /\ Undoing' = Undoing

LEMMA Undisturbed == ASSUME CounterNearRange, Elsewhere PROVE CounterNearRange'
BY DEF Elsewhere, CounterNearRange, Undoing

LEMMA Leaves ==
  ASSUME Typed, NEW t \in Threads, NEW from, NEW to, At(t, from), Goto(t, to),
         from # "probe_sub", to # "probe_sub"
  PROVE  Undoing' = Undoing
BY DEF Typed, Registers, At, Goto, Undoing

(* Zeroing the counter is safe whoever is undoing a claim. *)
LEMMA Zeroed == ASSUME probes' = 0, Cardinality(Undoing') \in Nat PROVE CounterNearRange'
<1>1. 0 <= MaxProbes + Cardinality(Undoing')
  BY ThreadsAssumption
<1> QED BY <1>1 DEF CounterNearRange, Undoing

LEMMA AddCounts == ASSUME Typed, CounterNearRange, NEW t \in Threads, ProbeAdd(t) PROVE CounterNearRange'
<1>1. PICK n \in Nat, N \in Nat, M \in Nat, P \in Nat, v \in Nat :
        n = Cardinality(Undoing) /\ N = Cardinality(Threads) /\ M = UsizeModulus /\ P = MaxProbes /\ v = probes
  BY UndoingFinite, ThreadsAssumption DEF Typed, Atomics
<1>2. v < M /\ n <= N /\ (v <= P + n \/ v >= M - N + n)
  BY <1>1, UndoingFinite DEF Typed, Atomics, CounterNearRange, Undoing
<1>3. PICK w \in Nat : w = probes'
  BY <1>1, <1>2 DEF ProbeAdd
<1>4. w = v + 1 \/ w = 0
  <2>1. w = (v + 1) % M
    BY <1>1, <1>3 DEF ProbeAdd
  <2>2. v + 1 < M \/ v + 1 = M
    BY <1>2
  <2> QED BY <2>1, <2>2, <1>2
<1>5. CASE v < P
  <2>1. Undoing' = Undoing
    BY <1>1, <1>5, Leaves DEF ProbeAdd
  <2>2. w <= P + n
    BY <1>4, <1>5
  <2> QED BY <2>1, <2>2, <1>1, <1>3 DEF CounterNearRange, Undoing
<1>6. CASE ~(v < P)
  <2>1. t \notin Undoing /\ Undoing' = Undoing \cup {t}
    BY <1>1, <1>6 DEF ProbeAdd, Typed, Registers, At, Goto, Undoing
  <2>2. Cardinality(Undoing') = n + 1
    BY <2>1, <1>1, UndoingFinite, FS_AddElement
  <2>3. w <= P + (n + 1) \/ w >= M - N + (n + 1)
    BY <1>2, <1>4
  <2> QED BY <2>2, <2>3, <1>1, <1>3 DEF CounterNearRange, Undoing
<1> QED BY <1>5, <1>6

LEMMA SubCounts == ASSUME Typed, CounterNearRange, NEW t \in Threads, ProbeSub(t) PROVE CounterNearRange'
<1>1. PICK n \in Nat, N \in Nat, M \in Nat, P \in Nat, v \in Nat :
        n = Cardinality(Undoing) /\ N = Cardinality(Threads) /\ M = UsizeModulus /\ P = MaxProbes /\ v = probes
  BY UndoingFinite, ThreadsAssumption DEF Typed, Atomics
<1>2. v < M /\ n <= N /\ (v <= P + n \/ v >= M - N + n)
  BY <1>1, UndoingFinite DEF Typed, Atomics, CounterNearRange, Undoing
<1>3. PICK w \in Int : w = probes'
  BY <1>1, <1>2 DEF ProbeSub
<1>4. (v > 0 /\ w = v - 1) \/ (v = 0 /\ w = M - 1)
  <2>1. w = (v + M - 1) % M
    BY <1>1, <1>3 DEF ProbeSub
  <2>2. CASE v = 0
    BY <2>1, <2>2, <1>2
  <2>3. CASE v > 0
    <3>1. PICK u \in Nat : u = v - 1
      BY <2>3
    <3>2. v + M - 1 = u + M /\ u < M
      BY <3>1, <1>2
    <3>3. (u + M) % M = u
      BY <3>2
    <3> QED BY <2>1, <2>3, <3>1, <3>2, <3>3
  <2> QED BY <2>2, <2>3
<1>5. t \in Undoing /\ Undoing' = Undoing \ {t}
  BY DEF ProbeSub, Typed, Registers, At, Goto, Undoing
<1>6. Cardinality(Undoing') = n - 1 /\ n - 1 \in Nat
  <2>1. Cardinality(Undoing') = n - 1
    BY <1>1, <1>5, UndoingFinite, FS_RemoveElement
  <2>2. IsFiniteSet(Undoing \ {t})
    BY UndoingFinite, FS_RemoveElement
  <2> QED BY <2>1, <2>2, <1>5, FS_CardinalityType
<1>7. w <= P + (n - 1) \/ w >= M - N + (n - 1)
  BY <1>2, <1>4
<1> QED BY <1>1, <1>3, <1>6, <1>7 DEF CounterNearRange, Undoing

LEMMA NextCounts == Typed /\ CounterNearRange /\ [Next]_vars => CounterNearRange'
<1> SUFFICES ASSUME Typed, CounterNearRange, [Next]_vars PROVE CounterNearRange'
  OBVIOUS
<1>1. CASE Tick \/ ErrorRate \/ UNCHANGED vars
  BY <1>1, Undisturbed DEF Tick, ErrorRate, vars, shared, Elsewhere, Undoing, At
<1>2. ASSUME NEW t \in Threads, NEW failure \in BOOLEAN, RecordClock(t, failure) PROVE CounterNearRange'
  BY <1>2, Leaves, Undisturbed DEF RecordClock, shared, Elsewhere
<1>3. ASSUME NEW t \in Threads, Drop(t) PROVE CounterNearRange'
  BY <1>3, Leaves, Undisturbed DEF Drop, Return, shared, Elsewhere
<1>4. ASSUME NEW t \in Threads, Check(t) PROVE CounterNearRange'
  <2>1. state \in {"Closed", "Open", "HalfOpen"}
    BY DEF Typed, Atomics
  <2>2. ASSUME CheckState(t) PROVE CounterNearRange'
    BY <2>1, <2>2, Leaves, Undisturbed DEF CheckState, Admit, Return, shared, Elsewhere
  <2>3. ASSUME OpenedLoad(t) PROVE CounterNearRange'
    BY <2>1, <2>3, Leaves, Undisturbed DEF OpenedLoad, shared, Elsewhere
  <2>4. ASSUME OpenedElapsed(t) PROVE CounterNearRange'
    BY <2>1, <2>4, Leaves, Undisturbed DEF OpenedElapsed, Reject, Return, shared, Elsewhere
  <2>5. ASSUME OpenedCas(t) PROVE CounterNearRange'
    BY <2>1, <2>5, Leaves, Undisturbed DEF OpenedCas, shared, Elsewhere
  <2>6. ASSUME OpenedMirror(t) PROVE CounterNearRange'
    BY <2>1, <2>6, Leaves, Undisturbed DEF OpenedMirror, shared, Elsewhere
  <2>7. ASSUME OpenedLost(t) PROVE CounterNearRange'
    BY <2>1, <2>7, Leaves, Undisturbed DEF OpenedLost, Admit, Reject, Return, shared, Elsewhere
  <2>8. ASSUME ProbeClock(t) PROVE CounterNearRange'
    BY <2>1, <2>8, Leaves, Undisturbed DEF ProbeClock, shared, Elsewhere
  <2>9. ASSUME ProbeClaim(t) PROVE CounterNearRange'
    BY <2>1, <2>9, Leaves, Undisturbed DEF ProbeClaim, Admit, Return, Elsewhere
  <2>10. ASSUME ProbeLease(t) PROVE CounterNearRange'
    BY <2>1, <2>10, Leaves, Undisturbed DEF ProbeLease, Reject, Return, shared, Elsewhere
  <2>11. ASSUME ProbeCas(t) PROVE CounterNearRange'
    BY <2>1, <2>11, Leaves, Undisturbed DEF ProbeCas, Admit, Reject, Return, Elsewhere
  <2> QED BY <1>4, AddCounts, SubCounts, <2>2, <2>3, <2>4, <2>5, <2>6, <2>7, <2>8, <2>9, <2>10, <2>11 DEF Check
<1>5. ASSUME NEW t \in Threads, Recording(t) PROVE CounterNearRange'
  <2>1. state \in {"Closed", "Open", "HalfOpen"} /\ failed[t] \in BOOLEAN
    BY DEF Typed, Atomics, Registers
  <2>2. ASSUME RecordState(t) PROVE CounterNearRange'
    BY <2>1, <2>2, Leaves, Undisturbed DEF RecordState, shared, Elsewhere
  <2>3. ASSUME RecordClosed(t) PROVE CounterNearRange'
    BY <2>1, <2>3, Leaves, Undisturbed DEF RecordClosed, Return, Elsewhere
  <2>4. ASSUME RecordOpen(t) PROVE CounterNearRange'
    BY <2>1, <2>4, Leaves, Undisturbed DEF RecordOpen, Return, Elsewhere
  <2>5. ASSUME TripState(t) PROVE CounterNearRange'
    BY <2>1, <2>5, Leaves, Undisturbed DEF TripState, shared, Elsewhere
  <2>6. ASSUME TripClock(t) PROVE CounterNearRange'
    BY <2>1, <2>6, Leaves, Undisturbed DEF TripClock, shared, Elsewhere
  <2>7. ASSUME TripOpened(t) PROVE CounterNearRange'
    BY <2>1, <2>7, Leaves, Undisturbed DEF TripOpened, shared, Elsewhere
  <2>8. ASSUME TripMirror(t) PROVE CounterNearRange'
    BY <2>1, <2>8, Leaves, Undisturbed DEF TripMirror, Return, Elsewhere
  <2>9. ASSUME CloseState(t) PROVE CounterNearRange'
    BY <2>1, <2>9, Leaves, Undisturbed DEF CloseState, shared, Elsewhere
  <2>10. ASSUME CloseWindow(t) PROVE CounterNearRange'
    BY <2>1, <2>10, Leaves, Undisturbed DEF CloseWindow, shared, Elsewhere
  <2>11. ASSUME CloseMirror(t) PROVE CounterNearRange'
    BY <2>1, <2>11, Leaves, Undisturbed DEF CloseMirror, Return, Elsewhere
  <2>20. ASSUME TripProbes(t) \/ CloseProbes(t) PROVE CounterNearRange'
    <3>1. probes' = 0 /\ Undoing' = Undoing
      BY <2>20, Leaves DEF TripProbes, CloseProbes
    <3>2. Cardinality(Undoing') \in Nat
      BY <3>1, UndoingFinite
    <3> QED BY <3>1, <3>2, Zeroed
  <2> QED BY <1>5, <2>20, <2>2, <2>3, <2>4, <2>5, <2>6, <2>7, <2>8, <2>9, <2>10, <2>11 DEF Recording
<1> QED BY <1>1, <1>2, <1>3, <1>4, <1>5 DEF Next

LEMMA InitCounts == Init => CounterNearRange
<1> SUFFICES ASSUME Init PROVE CounterNearRange
  OBVIOUS
<1>1. 0 <= MaxProbes + Cardinality(Undoing)
  BY UndoingFinite, ThreadsAssumption
<1> QED BY <1>1 DEF Init, CounterNearRange, Undoing

(* However many trips and closings zero half_open_probes while claims over  *)
(* the limit are being undone, the counter does not drift: it is at most as *)
(* far below zero as there are threads, for any number of them and any      *)
(* limit.                                                                   *)
THEOREM CounterStaysNear == Spec => []CounterNearRange
BY InitTyped, NextTyped, InitCounts, NextCounts, PTL DEF Spec

-----------------------------------------------------------------------------
(* The window gains samples at its back and loses them at its front.        *)
Suffix(a, b) ==
    /\ Len(a) <= Len(b)
    /\ \A i \in 1..Len(a) : a[i] = b[i + (Len(b) - Len(a))]

LEMMA SuffixTrans ==
  ASSUME NEW T, NEW a \in Seq(T), NEW b \in Seq(T), NEW c \in Seq(T), Suffix(a, b), Suffix(b, c)
  PROVE  Suffix(a, c)
<1>1. PICK l, m, n \in Nat : l = Len(a) /\ m = Len(b) /\ n = Len(c)
  OBVIOUS
<1>2. l <= m /\ m <= n
  BY <1>1 DEF Suffix
<1>3. ASSUME NEW i \in 1..l PROVE a[i] = c[i + (n - l)]
  <2>1. PICK j \in 1..m : j = i + (m - l)
    BY <1>2
  <2>2. a[i] = b[j] /\ b[j] = c[j + (n - m)]
    BY <1>1, <2>1 DEF Suffix
  <2>3. j + (n - m) = i + (n - l)
    BY <2>1
  <2> QED BY <2>2, <2>3
<1> QED BY <1>1, <1>2, <1>3 DEF Suffix

LEMMA SuffixCut ==
  ASSUME NEW T, NEW s \in Seq(T), NEW k \in 0..Len(s)
  PROVE  /\ SubSeq(s, k + 1, Len(s)) \in Seq(T)
         /\ Len(SubSeq(s, k + 1, Len(s))) = Len(s) - k
         /\ Suffix(SubSeq(s, k + 1, Len(s)), s)
<1>1. PICK a : a = SubSeq(s, k + 1, Len(s))
  OBVIOUS
<1>2. k + 1 \in Int /\ Len(s) \in Int /\ \A i \in (k + 1)..Len(s) : s[i] \in T
  OBVIOUS
<1>3. a \in Seq(T)
  BY <1>1, <1>2, SubSeqProperties
<1>4. Len(a) = Len(s) - k
  BY <1>1, <1>2, SubSeqProperties
<1>5. \A i \in 1..Len(a) : a[i] = s[i + k]
  BY <1>1, <1>4
<1>6. Len(s) - Len(a) = k
  BY <1>4
<1>7. Len(a) <= Len(s)
  BY <1>4
<1>8. Suffix(a, s)
  BY <1>5, <1>6, <1>7 DEF Suffix
<1> QED BY <1>1, <1>3, <1>4, <1>8

LEMMA SuffixSelf == ASSUME NEW T, NEW s \in Seq(T) PROVE Suffix(s, s)
BY DEF Suffix

LEMMA NewestSuffix ==
  ASSUME NEW s \in Seq(Nat), NEW n \in 0..Len(s)
  PROVE  Newest(s, n) \in Seq(Nat) /\ Len(Newest(s, n)) = n /\ Suffix(Newest(s, n), s)
<1>1. PICK k \in 0..Len(s) : k = Len(s) - n
  <2>1. Len(s) - n \in 0..Len(s)
    OBVIOUS
  <2> QED BY <2>1
<1>2. Newest(s, n) = SubSeq(s, k + 1, Len(s)) /\ Len(s) - k = n
  BY <1>1 DEF Newest
<1> QED BY <1>2, SuffixCut

LEMMA EvictSuffix ==
  ASSUME NEW w, w.entries \in Seq(Sample), NEW at
  PROVE  Suffix(Evict(w, at).entries, w.entries)
<1>1. PICK s \in Seq(Sample) : s = w.entries
  OBVIOUS
<1>2. PICK k \in 0..Len(s) : k = EvictCount(s, at)
  BY EvictStops
<1>3. Evict(w, at).entries = SubSeq(s, k + 1, Len(s))
  BY <1>1, <1>2 DEF Evict
<1> QED BY <1>1, <1>3, SuffixCut

(* What evict leaves at the front, if anything, is young. *)
LEMMA EvictFront ==
  ASSUME NEW w, w.entries \in Seq(Sample), NEW at, Len(Evict(w, at).entries) > 0
  PROVE  ~Expired(Evict(w, at).entries[1], at)
<1>1. PICK s \in Seq(Sample) : s = w.entries
  OBVIOUS
<1>2. PICK k \in 0..Len(s) : k = EvictCount(s, at) /\ (k < Len(s) => ~Expired(s[k + 1], at))
  BY EvictStops
<1>3. PICK a : a = SubSeq(s, k + 1, Len(s))
  OBVIOUS
<1>4. Evict(w, at).entries = a
  BY <1>1, <1>2, <1>3 DEF Evict
<1>5. Len(a) = Len(s) - k /\ Suffix(a, s)
  BY <1>3, SuffixCut
<1>6. Len(a) > 0
  BY <1>4
<1>7. k < Len(s) /\ a[1] = s[k + 1]
  BY <1>5, <1>6 DEF Suffix
<1> QED BY <1>2, <1>4, <1>7

LEMMA PushSuffix ==
  ASSUME NEW w, w.entries \in Seq(Sample), NEW failure \in BOOLEAN, NEW at \in Nat
  PROVE  Suffix(Push(w, failure, at).entries, Append(w.entries, [at |-> at, failure |-> failure]))
<1>1. PICK s \in Seq(Sample) : s = w.entries
  OBVIOUS
<1>2. PICK x : x = [at |-> at, failure |-> failure]
  OBVIOUS
<1>3. PICK kept : kept = IF Len(s) >= MaxWindowEntries THEN Tail(s) ELSE s
  OBVIOUS
<1>4. Push(w, failure, at).entries = Append(kept, x)
  BY <1>1, <1>2, <1>3 DEF Push
<1>5. Suffix(Append(kept, x), Append(s, x))
  <2>1. CASE Len(s) >= MaxWindowEntries
    <3>1. s # << >> /\ kept = Tail(s)
      BY <1>3, <2>1, WindowAssumption
    <3>2. Len(kept) = Len(s) - 1 /\ kept \in Seq(Sample) /\ \A i \in 1..Len(kept) : kept[i] = s[i + 1]
      BY <3>1
    <3>3. x \in Sample
      BY <1>2 DEF Sample
    <3>4. PICK a, b : a = Append(kept, x) /\ b = Append(s, x)
      OBVIOUS
    <3>5. Len(a) = Len(s) /\ Len(b) = Len(s) + 1 /\ Len(b) - Len(a) = 1 /\ Len(s) \in Nat
      BY <3>2, <3>4
    <3>6. ASSUME NEW i \in 1..Len(s) PROVE a[i] = b[i + 1]
      <4>1. CASE i = Len(s)
        BY <4>1, <3>2, <3>4
      <4>2. CASE i # Len(s)
        <5>1. i \in 1..Len(kept)
          BY <4>2, <3>2
        <5>2. a[i] = kept[i] /\ b[i + 1] = s[i + 1]
          BY <5>1, <3>2, <3>4
        <5> QED BY <5>1, <5>2, <3>2
      <4> QED BY <4>1, <4>2
    <3> QED BY <3>4, <3>5, <3>6 DEF Suffix
  <2>2. CASE ~(Len(s) >= MaxWindowEntries)
    BY <1>3, <2>2 DEF Suffix
  <2> QED BY <2>1, <2>2
<1> QED BY <1>1, <1>2, <1>4, <1>5

-----------------------------------------------------------------------------
(* Every sample has the time it was queued at, which is no earlier than its *)
(* own; these times are in queue order and none is in the future.           *)
Dated(e, q, n) ==
    /\ q \in Seq(Nat)
    /\ Len(q) = Len(e)
    /\ \A i \in 1..Len(q) : q[i] <= n /\ e[i].at <= q[i]
    /\ \A i, j \in 1..Len(q) : i <= j => q[i] <= q[j]

HInv == Typed /\ Dated(window.entries, queuedAt, now)

LEMMA DatedSuffix ==
  ASSUME NEW e \in Seq(Sample), NEW q, NEW n, Dated(e, q, n),
         NEW a \in Seq(Sample), NEW b \in Seq(Nat), Len(a) = Len(b), Suffix(a, e), Suffix(b, q)
  PROVE  Dated(a, b, n)
<1>1. PICK l, m \in Nat : l = Len(b) /\ m = Len(q) /\ l <= m
  BY DEF Suffix, Dated
<1>2. \A i \in 1..l : a[i] = e[i + (m - l)] /\ b[i] = q[i + (m - l)] /\ i + (m - l) \in 1..m
  BY <1>1 DEF Suffix, Dated
<1>3. \A i \in 1..l : b[i] <= n /\ a[i].at <= b[i]
  BY <1>1, <1>2 DEF Dated
<1>4. ASSUME NEW i \in 1..l, NEW j \in 1..l, i <= j PROVE b[i] <= b[j]
  <2>1. PICK c, d \in 1..m : c = i + (m - l) /\ d = j + (m - l)
    BY <1>2
  <2>2. c <= d /\ l \in Nat /\ m \in Nat
    BY <1>1, <1>4, <2>1
  <2> QED BY <1>1, <1>2, <2>1, <2>2 DEF Dated
<1> QED BY <1>1, <1>3, <1>4 DEF Dated

LEMMA DatedAppend ==
  ASSUME NEW e \in Seq(Sample), NEW q, NEW n \in Nat, Dated(e, q, n), NEW x \in Sample, x.at <= n
  PROVE  Dated(Append(e, x), Append(q, n), n)
<1>1. PICK l \in Nat : l = Len(q) /\ l = Len(e) /\ q \in Seq(Nat)
  BY DEF Dated
<1>2. PICK f, r : f = Append(e, x) /\ r = Append(q, n)
  OBVIOUS
<1>3. Len(f) = l + 1 /\ f[l + 1] = x /\ \A i \in 1..l : f[i] = e[i]
  BY <1>1, <1>2, AppendProperties
<1>4. r \in Seq(Nat) /\ Len(r) = l + 1 /\ r[l + 1] = n /\ \A i \in 1..l : r[i] = q[i]
  <2>1. q \in Seq(Nat) /\ Len(q) = l
    BY <1>1
  <2>2. /\ Append(q, n) \in Seq(Nat) /\ Len(Append(q, n)) = Len(q) + 1
        /\ \A i \in 1..Len(q) : Append(q, n)[i] = q[i]
        /\ Append(q, n)[Len(q) + 1] = n
    BY ONLY <2>1, n \in Nat, AppendProperties
  <2> QED BY <1>2, <2>1, <2>2
<1>5. \A i \in 1..l : f[i] = e[i] /\ r[i] = q[i] /\ r[i] \in Nat
  BY <1>3, <1>4, <1>1
<1>6. \A i \in 1..l : r[i] <= n /\ f[i].at <= r[i]
  BY <1>1, <1>5 DEF Dated
<1>7. \A i \in 1..(l + 1) : i \in 1..l \/ i = l + 1
  BY <1>1
<1>8. \A i \in 1..(l + 1) : r[i] <= n /\ f[i].at <= r[i]
  BY <1>3, <1>4, <1>6, <1>7
<1>9. \A i, j \in 1..(l + 1) : i <= j => r[i] <= r[j]
  <2> SUFFICES ASSUME NEW i \in 1..(l + 1), NEW j \in 1..(l + 1), i <= j PROVE r[i] <= r[j]
    OBVIOUS
  <2>1. CASE j = l + 1
    BY <1>3, <1>4, <1>8, <2>1
  <2>2. CASE j \in 1..l
    <3>1. i \in 1..l
      BY <2>2
    <3> QED BY <3>1, <2>2, <1>1, <1>5 DEF Dated
  <2> QED BY <1>7, <2>1, <2>2
<1> QED BY <1>2, <1>3, <1>4, <1>8, <1>9 DEF Dated

LEMMA DatedLater ==
  ASSUME NEW e, NEW q, NEW n \in Nat, NEW m \in Nat, n <= m, Dated(e, q, n)
  PROVE  Dated(e, q, m)
<1>1. \A i \in 1..Len(q) : q[i] \in Nat
  BY DEF Dated
<1>2. \A i \in 1..Len(q) : q[i] <= m
  BY <1>1 DEF Dated
<1> QED BY <1>2 DEF Dated

-----------------------------------------------------------------------------
(* A step pushes nothing, and then the window keeps a suffix; or it is a    *)
(* thread's record().                                                       *)
Quiet ==
    /\ \A t \in Threads : ~Records(t)
    /\ \/ window' = window
       \/ window' = EmptyWindow
       \/ \E at \in 0..now : window' = Evict(window, at)

Sampled(t) == Records(t) /\ window' = RecordSample(t) /\ now' = now

LEMMA MovedQuietly ==
  ASSUME Typed, NEW t \in Threads, NEW label, Goto(t, label), ~(pc[t] \in {"rec_closed", "rec_open"})
  PROVE  \A u \in Threads : ~Records(u)
BY DEF Typed, Registers, Goto, Records

LEMMA CheckQuiet == ASSUME Typed, NEW t \in Threads, Check(t) PROVE Quiet
<1>1. state \in {"Closed", "Open", "HalfOpen"}
  BY DEF Typed, Atomics
<1>2. window' = window /\ \E label : Goto(t, label)
  BY <1>1 DEF Check, CheckState, OpenedLoad, OpenedElapsed, OpenedCas, OpenedMirror, OpenedLost,
         ProbeClock, ProbeAdd, ProbeClaim, ProbeSub, ProbeLease, ProbeCas, Admit, Reject, Return, shared
<1>3. ~(pc[t] \in {"rec_closed", "rec_open"})
  BY DEF Check, CheckState, OpenedLoad, OpenedElapsed, OpenedCas, OpenedMirror, OpenedLost,
         ProbeClock, ProbeAdd, ProbeClaim, ProbeSub, ProbeLease, ProbeCas, At
<1> QED BY <1>2, <1>3, MovedQuietly DEF Quiet

LEMMA OutsideQuiet ==
  ASSUME Typed, NEW t \in Threads, Drop(t) \/ \E failure \in BOOLEAN : RecordClock(t, failure)
  PROVE  Quiet
<1>1. window' = window /\ \E label : Goto(t, label)
  BY DEF Drop, RecordClock, Return, shared
<1>2. ~(pc[t] \in {"rec_closed", "rec_open"})
  BY DEF Drop, RecordClock, At
<1> QED BY <1>1, <1>2, MovedQuietly DEF Quiet

LEMMA RecordingSteps ==
  ASSUME Typed, NEW t \in Threads, Recording(t)
  PROVE  Quiet \/ (Sampled(t) /\ \A u \in Threads : Records(u) => u = t)
<1> DEFINE Rest ==
      \/ RecordState(t)
      \/ TripState(t) \/ TripClock(t) \/ TripOpened(t) \/ TripProbes(t) \/ TripMirror(t)
      \/ CloseState(t) \/ CloseWindow(t) \/ CloseProbes(t) \/ CloseMirror(t)
<1>1. CASE Rest
  <2>1. (window' = window \/ window' = EmptyWindow) /\ \E label : Goto(t, label)
    <3>1. CASE RecordState(t)
      <4>1. state \in {"Closed", "Open", "HalfOpen"} /\ failed[t] \in BOOLEAN
        BY DEF Typed, Registers, Atomics
      <4> QED BY <3>1, <4>1 DEF RecordState, shared
    <3>2. CASE ~RecordState(t)
      BY <1>1, <3>2 DEF TripState, TripClock, TripOpened, TripProbes, TripMirror,
           CloseState, CloseWindow, CloseProbes, CloseMirror, Return, shared
    <3> QED BY <3>1, <3>2
  <2>2. ~(pc[t] \in {"rec_closed", "rec_open"})
    BY <1>1 DEF RecordState, TripState, TripClock, TripOpened, TripProbes, TripMirror,
         CloseState, CloseWindow, CloseProbes, CloseMirror, At
  <2> QED BY <2>1, <2>2, MovedQuietly DEF Quiet
<1>2. CASE RecordClosed(t) \/ RecordOpen(t)
  <2>1. window' = RecordSample(t) /\ now' = now
    BY <1>2 DEF RecordClosed, RecordOpen
  <2>2. pc[t] \in {"rec_closed", "rec_open"} /\ (Goto(t, "idle") \/ Goto(t, "trip_state"))
    BY <1>2 DEF RecordClosed, RecordOpen, At, Return
  <2>3. Records(t) /\ \A u \in Threads : Records(u) => u = t
    BY <2>2 DEF Typed, Registers, Goto, Records
  <2> QED BY <2>1, <2>3 DEF Sampled
<1> QED BY <1>1, <1>2 DEF Recording

LEMMA StepsOfWindow ==
  ASSUME Typed, Next
  PROVE  Quiet \/ \E t \in Threads : Sampled(t) /\ \A u \in Threads : Records(u) => u = t
<1>1. CASE Tick
  BY <1>1 DEF Tick, shared, Quiet, Records
<1>2. CASE ErrorRate
  BY <1>2 DEF ErrorRate, Quiet, Records
<1>3. ASSUME NEW t \in Threads, Check(t) PROVE Quiet
  BY <1>3, CheckQuiet
<1>4. ASSUME NEW t \in Threads, Drop(t) \/ \E failure \in BOOLEAN : RecordClock(t, failure) PROVE Quiet
  BY <1>4, OutsideQuiet
<1>5. ASSUME NEW t \in Threads, Recording(t)
      PROVE  Quiet \/ (Sampled(t) /\ \A u \in Threads : Records(u) => u = t)
  BY <1>5, RecordingSteps
<1> QED BY <1>1, <1>2, <1>3, <1>4, <1>5 DEF Next

LEMMA ClockForward == ASSUME Typed, Next PROVE now' \in Nat /\ now <= now'
<1>1. now' = now \/ now' = now + 1
  BY DEF Next, Tick, ErrorRate, Check, CheckState, OpenedLoad, OpenedElapsed, OpenedCas, OpenedMirror, OpenedLost,
         ProbeClock, ProbeAdd, ProbeClaim, ProbeSub, ProbeLease, ProbeCas, Drop, RecordClock,
         Recording, RecordState, RecordClosed, RecordOpen, TripState, TripClock, TripOpened, TripProbes, TripMirror,
         CloseState, CloseWindow, CloseProbes, CloseMirror
<1> QED BY <1>1 DEF Typed

LEMMA QuietDated ==
  ASSUME HInv, Typed', Quiet, HistoryNext
  PROVE  Dated(window'.entries, queuedAt', now')
<1>1. PICK e, f \in Seq(Sample) : e = window.entries /\ f = window'.entries
  BY DEF HInv, Typed, Atomics
<1>2. Dated(e, queuedAt, now)
  BY <1>1 DEF HInv
<1>3. Suffix(f, e)
  <2>1. CASE window' = window
    BY <1>1, <2>1, SuffixSelf
  <2>2. CASE window' = EmptyWindow
    BY <1>1, <2>2 DEF EmptyWindow, Suffix
  <2>3. CASE \E at \in 0..now : window' = Evict(window, at)
    BY <1>1, <2>3, EvictSuffix
  <2> QED BY <2>1, <2>2, <2>3 DEF Quiet
<1>4. queuedAt' = Newest(queuedAt, Len(f))
  BY <1>1 DEF HistoryNext, Quiet
<1>5. queuedAt \in Seq(Nat) /\ Len(f) \in 0..Len(queuedAt)
  BY <1>2, <1>3 DEF Dated, Suffix
<1>6. queuedAt' \in Seq(Nat) /\ Len(queuedAt') = Len(f) /\ Suffix(queuedAt', queuedAt)
  BY <1>4, <1>5, NewestSuffix
<1>7. Dated(f, queuedAt', now)
  BY <1>2, <1>3, <1>6, DatedSuffix
<1>8. now \in Nat /\ now' \in Nat /\ now <= now'
  BY ClockForward DEF HInv, Typed, HistoryNext
<1> QED BY <1>1, <1>7, <1>8, DatedLater

LEMMA SampledDated ==
  ASSUME HInv, Typed', NEW t \in Threads, Sampled(t), HistoryNext
  PROVE  Dated(window'.entries, queuedAt', now')
<1>1. PICK e, f \in Seq(Sample) : e = window.entries /\ f = window'.entries
  BY DEF HInv, Typed, Atomics
<1>2. PICK x : x = [at |-> clk[t], failure |-> failed[t]]
  OBVIOUS
<1>3. now \in Nat /\ clk[t] \in Nat /\ clk[t] <= now /\ failed[t] \in BOOLEAN
  BY DEF HInv, Typed, Registers
<1>4. x \in Sample /\ x.at <= now
  BY <1>2, <1>3 DEF Sample
<1>5. Dated(e, queuedAt, now)
  BY <1>1 DEF HInv
<1>6. Dated(Append(e, x), Append(queuedAt, now), now)
  BY <1>3, <1>4, <1>5, DatedAppend
<1>7. PICK g, q : g = Append(e, x) /\ q = Append(queuedAt, now)
  OBVIOUS
<1>8. g \in Seq(Sample) /\ q \in Seq(Nat) /\ Dated(g, q, now)
  BY <1>3, <1>4, <1>5, <1>6, <1>7 DEF Dated
<1>9. Suffix(f, g)
  <2>1. PICK w : w = Push(window, failed[t], clk[t])
    OBVIOUS
  <2>2. w.entries \in Seq(Sample) /\ Suffix(w.entries, g)
    BY <1>1, <1>2, <1>3, <1>7, <2>1, PushTyped, PushSuffix
  <2>3. f = Evict(w, clk[t]).entries
    BY <1>1, <2>1 DEF Sampled, RecordSample
  <2>4. Suffix(f, w.entries)
    BY <2>2, <2>3, EvictSuffix
  <2> QED BY <2>2, <2>4, <1>8, SuffixTrans
<1>10. queuedAt' = Newest(q, Len(f))
  BY <1>1, <1>7 DEF HistoryNext, Sampled
<1>11. Len(f) \in 0..Len(q)
  BY <1>8, <1>9 DEF Dated, Suffix
<1>12. queuedAt' \in Seq(Nat) /\ Len(queuedAt') = Len(f) /\ Suffix(queuedAt', q)
  BY <1>8, <1>10, <1>11, NewestSuffix
<1>13. Dated(f, queuedAt', now)
  BY <1>8, <1>9, <1>12, DatedSuffix
<1> QED BY <1>1, <1>13 DEF Sampled

LEMMA HistoryInvariant == HInv /\ [HistoryNext]_historyVars => HInv'
<1> SUFFICES ASSUME HInv, [HistoryNext]_historyVars PROVE HInv'
  OBVIOUS
<1>1. Typed'
  BY NextTyped DEF HInv, HistoryNext, historyVars
<1>2. CASE UNCHANGED historyVars
  BY <1>1, <1>2 DEF HInv, historyVars, vars, shared
<1>3. CASE HistoryNext
  <2>1. Quiet \/ \E t \in Threads : Sampled(t)
    BY <1>3, StepsOfWindow DEF HInv, HistoryNext
  <2> QED BY <1>1, <1>3, <2>1, QuietDated, SampledDated DEF HInv
<1> QED BY <1>2, <1>3

LEMMA HistoryStarts == HistoryInit => HInv
<1> SUFFICES ASSUME HistoryInit PROVE HInv
  OBVIOUS
<1>1. Typed
  BY InitTyped DEF HistoryInit
<1>2. window.entries = << >> /\ queuedAt = << >>
  BY DEF HistoryInit, Init, EmptyWindow
<1> QED BY <1>1, <1>2 DEF HInv, Dated

LEMMA RecordCountsRecent ==
  ASSUME HInv, HInv', HistoryNext, NEW t \in Threads, Records(t)
  PROVE  \A i \in DOMAIN queuedAt' : queuedAt'[i] + WindowDuration >= clk[t]
<1>1. Sampled(t)
  BY StepsOfWindow DEF HInv, HistoryNext, Quiet
<1>2. PICK w : w = Push(window, failed[t], clk[t])
  OBVIOUS
<1>3. clk[t] \in Nat /\ failed[t] \in BOOLEAN /\ window.entries \in Seq(Sample)
  BY DEF HInv, Typed, Registers, Atomics
<1>4. w.entries \in Seq(Sample)
  BY <1>2, <1>3, PushTyped
<1>5. PICK f \in Seq(Sample) : f = window'.entries
  BY DEF HInv, Typed, Atomics
<1>6. f = Evict(w, clk[t]).entries
  BY <1>1, <1>2, <1>5 DEF Sampled, RecordSample
<1>7. Len(f) > 0 => ~Expired(f[1], clk[t])
  BY <1>4, <1>6, EvictFront
<1>8. PICK q \in Seq(Nat) : q = queuedAt' /\ Dated(f, q, now')
  BY <1>5 DEF HInv, Dated
<1>9. ASSUME NEW i \in DOMAIN q PROVE q[i] + WindowDuration >= clk[t]
  <2>1. i \in 1..Len(q) /\ 1 \in 1..Len(q) /\ Len(f) > 0
    BY <1>8 DEF Dated
  <2>2. q[i] \in Nat /\ q[1] \in Nat /\ f[1].at \in Nat
    <3>1. f[1] \in Sample
      BY <2>1
    <3> QED BY <2>1, <3>1 DEF Sample
  <2>3. f[1].at <= q[1] /\ q[1] <= q[i]
    BY <1>8, <2>1 DEF Dated
  <2>4. PICK c, d \in Nat : c = clk[t] /\ d = WindowDuration
    BY <1>3, WindowAssumption
  <2>5. ~(f[1].at + d < c)
    BY <1>7, <2>1, <2>4 DEF Expired
  <2>6. q[i] + d >= c
    <3>1. PICK x, y, z \in Nat : x = f[1].at /\ y = q[1] /\ z = q[i]
      BY <2>2
    <3>2. x <= y /\ y <= z /\ ~(x + d < c)
      BY <2>3, <2>5, <3>1
    <3>3. z + d >= c
      BY <3>2
    <3> QED BY <3>1, <3>3
  <2> QED BY <2>4, <2>6
<1> QED BY <1>8, <1>9

(* No sample is counted for longer than a window: whatever record() counts  *)
(* in deciding whether to trip was queued within window_duration before its *)
(* reading of the clock, for any number of threads, any cap and whatever    *)
(* order they get the window's mutex in, although evict stops at the first  *)
(* young sample and the samples' own times are not in queue order.          *)
THEOREM NoSampleOverstays == HistorySpec => CountsOnlyRecent
<1>1. HInv /\ HInv' /\ [HistoryNext]_historyVars =>
        [\A t \in Threads : Records(t) =>
           \A i \in DOMAIN queuedAt' : queuedAt'[i] + WindowDuration >= clk[t]]_historyVars
  <2> SUFFICES ASSUME HInv, HInv', HistoryNext
               PROVE  \A t \in Threads : Records(t) =>
                        \A i \in DOMAIN queuedAt' : queuedAt'[i] + WindowDuration >= clk[t]
    OBVIOUS
  <2> QED BY RecordCountsRecent
<1> QED BY <1>1, HistoryStarts, HistoryInvariant, PTL DEF HistorySpec, CountsOnlyRecent
=============================================================================

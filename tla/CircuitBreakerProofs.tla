----------------------- MODULE CircuitBreakerProofs -------------------------
(***************************************************************************)
(* The accounting of the half-open probes and of the sliding window, for   *)
(* every number of requests in flight and every configuration.             *)
(***************************************************************************)
EXTENDS CircuitBreaker, FiniteSetTheorems, WellFoundedInduction, TLAPS

(* The shared counters without the window, which nothing below reads. *)
Counters ==
    /\ state \in States
    /\ openedAt \in Nat
    /\ probes \in Nat
    /\ claimedAt \in Nat
    /\ isOpenFast \in BOOLEAN
    /\ now \in Nat
    /\ inFlight \subseteq Requests
    /\ admitted \in Nat

(* ProbeBudget is not inductive: it follows from how far apart in time the *)
(* takeovers, which are the admissions beyond the slots, have been.        *)
TakeoversSpaced ==
    state = "HalfOpen" =>
        (admitted - probes) * OpenDuration <= claimedAt - (openedAt + OpenDuration)

IInv ==
    /\ Counters
    /\ openedAt <= now
    /\ claimedAt <= now
    /\ state # "HalfOpen" => admitted = 0
    /\ MirrorAgrees
    /\ ProbeSlots
    /\ FreshLease
    /\ TakeoversSpaced

LEMMA InitEstablishes == Init => IInv
<1> SUFFICES ASSUME Init PROVE IInv
  OBVIOUS
<1>1. MirrorAgrees /\ isOpenFast \in BOOLEAN
  <2>1. isOpenFast = FALSE /\ state # "Open"
    BY DEF Init
  <2> QED BY <2>1, Zenon DEF MirrorAgrees
<1> QED
  BY <1>1, BreakerAssumption
  DEF Init, IInv, Counters, States, ProbeSlots, FreshLease, TakeoversSpaced

(* The mirror is set by a step that opens and cleared by one that leaves   *)
(* Open; stated apart because the solvers treat Booleans differently.      *)
LEMMA MirrorOfTrip == ASSUME Trip PROVE MirrorAgrees' /\ isOpenFast' \in BOOLEAN
<1>1. isOpenFast' = TRUE /\ state' = "Open"
  BY DEF Trip
<1> QED BY <1>1, Zenon DEF MirrorAgrees

LEMMA MirrorOfClose == ASSUME Close PROVE MirrorAgrees' /\ isOpenFast' \in BOOLEAN
<1>1. isOpenFast' = FALSE /\ state' = "Closed"
  BY DEF Close
<1>2. state' # "Open"
  BY <1>1
<1> QED BY <1>1, <1>2, Zenon DEF MirrorAgrees

(* A takeover adds one admission and moves the claim by a whole lease. *)
LEMMA OneMoreTakeover ==
    ASSUME NEW a \in Int, NEW d \in Nat, NEW x \in Int, NEW y \in Int,
           a * d <= x, y >= x + d
    PROVE  (a + 1) * d <= y
<1>1. (a + 1) * d = a * d + d
  BY SMT
<1>2. a * d \in Int
  BY SMT
<1> QED BY <1>1, <1>2

LEMMA ProbePreserves ==
    ASSUME IInv, NEW r \in Requests, TryHalfOpenProbe(r), state = "HalfOpen",
           UNCHANGED <<state, openedAt, isOpenFast, now>>
    PROVE  IInv'
<1> USE DEF IInv
<1>1. CASE SlotFree
  <2>1. /\ probes' = probes + 1 /\ claimedAt' = now /\ admitted' = admitted + 1
        /\ inFlight' = inFlight \cup {r} /\ probes < MaxProbes
    BY <1>1 DEF TryHalfOpenProbe, SlotFree
  <2>2. admitted' - probes' = admitted - probes
    BY <2>1 DEF Counters
  <2>3. TakeoversSpaced'
    BY <2>1, <2>2, BreakerAssumption DEF TakeoversSpaced, Counters
  <2> QED BY <2>1, <2>3, BreakerAssumption
          DEF Counters, MirrorAgrees, ProbeSlots, FreshLease
<1>2. CASE ~SlotFree /\ LeaseExpired
  <2>1. /\ probes' = probes /\ claimedAt' = now /\ admitted' = admitted + 1
        /\ inFlight' = inFlight \cup {r} /\ now - claimedAt >= OpenDuration
    BY <1>2 DEF TryHalfOpenProbe, LeaseExpired
  <2>2. (admitted - probes + 1) * OpenDuration <= now - (openedAt + OpenDuration)
    BY <2>1, OneMoreTakeover, BreakerAssumption DEF TakeoversSpaced, Counters
  <2>3. admitted' - probes' = admitted - probes + 1
    BY <2>1 DEF Counters
  <2>4. TakeoversSpaced'
    BY <2>1, <2>2, <2>3 DEF TakeoversSpaced
  <2> QED BY <2>1, <2>4, BreakerAssumption
          DEF Counters, MirrorAgrees, ProbeSlots, FreshLease
<1>3. CASE ~SlotFree /\ ~LeaseExpired
  BY <1>3 DEF TryHalfOpenProbe, Counters, MirrorAgrees, ProbeSlots, FreshLease, TakeoversSpaced
<1> QED BY <1>1, <1>2, <1>3

LEMMA NextPreserves == IInv /\ [Next]_vars => IInv'
<1> SUFFICES ASSUME IInv, [Next]_vars PROVE IInv'
  OBVIOUS
<1> USE DEF IInv
<1>1. CASE Tick
  BY <1>1 DEF Tick, Counters, MirrorAgrees, ProbeSlots, FreshLease, TakeoversSpaced
<1>2. CASE ErrorRate
  BY <1>2 DEF ErrorRate, Counters, MirrorAgrees, ProbeSlots, FreshLease, TakeoversSpaced
<1>3. ASSUME NEW r \in Requests, CheckClosed(r) PROVE IInv'
  BY <1>3 DEF CheckClosed, Counters, MirrorAgrees, ProbeSlots, FreshLease, TakeoversSpaced
<1>4. ASSUME NEW r \in Requests, CheckOpen(r) PROVE IInv'
  <2>1. SlotFree
    BY <1>4, BreakerAssumption DEF CheckOpen, SlotFree, ProbeSlots
  <2>2. /\ state' = "HalfOpen" /\ ~isOpenFast' /\ openedAt' = openedAt /\ now' = now
        /\ probes' = probes + 1 /\ claimedAt' = now /\ admitted' = admitted + 1
        /\ inFlight' = inFlight \cup {r} /\ now - openedAt >= OpenDuration
        /\ isOpenFast' \in BOOLEAN
    BY <1>4, <2>1 DEF CheckOpen, TryHalfOpenProbe, CoolDownOver
  <2>3. admitted' = 1 /\ probes' = 1
    BY <1>4, <2>2 DEF CheckOpen, ProbeSlots
  <2>4. (admitted' - probes') * OpenDuration = 0
    BY <2>3, BreakerAssumption
  <2>5. TakeoversSpaced'
    BY <2>2, <2>4, BreakerAssumption DEF TakeoversSpaced, Counters
  <2> QED BY <2>2, <2>3, <2>5, BreakerAssumption
          DEF Counters, States, MirrorAgrees, ProbeSlots, FreshLease
<1>5. ASSUME NEW r \in Requests, CheckHalfOpen(r) PROVE IInv'
  BY <1>5, ProbePreserves DEF CheckHalfOpen
<1>6. ASSUME NEW r \in Requests, NEW failure \in BOOLEAN, RecordClosed(r, failure)
      PROVE  IInv'
  <2>1. CASE Trip
    BY <1>6, <2>1, MirrorOfTrip
    DEF RecordClosed, Trip, Counters, States, ProbeSlots, FreshLease, TakeoversSpaced
  <2>2. CASE UNCHANGED <<state, openedAt, probes, claimedAt, isOpenFast, admitted>>
    BY <1>6, <2>2
    DEF RecordClosed, Counters, MirrorAgrees, ProbeSlots, FreshLease, TakeoversSpaced
  <2> QED BY <1>6, <2>1, <2>2 DEF RecordClosed
<1>7. ASSUME NEW r \in Requests, NEW failure \in BOOLEAN, RecordHalfOpen(r, failure)
      PROVE  IInv'
  <2>1. CASE Trip
    BY <1>7, <2>1, MirrorOfTrip
    DEF RecordHalfOpen, Trip, Counters, States, ProbeSlots, FreshLease, TakeoversSpaced
  <2>2. CASE Close
    BY <1>7, <2>2, MirrorOfClose
    DEF RecordHalfOpen, Close, Counters, States, ProbeSlots, FreshLease, TakeoversSpaced
  <2> QED BY <1>7, <2>1, <2>2 DEF RecordHalfOpen
<1>8. ASSUME NEW r \in Requests, NEW failure \in BOOLEAN, RecordOpen(r, failure)
      PROVE  IInv'
  BY <1>8 DEF RecordOpen, Counters, MirrorAgrees, ProbeSlots, FreshLease, TakeoversSpaced
<1>9. ASSUME NEW r \in Requests, Drop(r) PROVE IInv'
  BY <1>9 DEF Drop, Counters, MirrorAgrees, ProbeSlots, FreshLease, TakeoversSpaced
<1>10. CASE UNCHANGED vars
  BY <1>10 DEF vars, Counters, MirrorAgrees, ProbeSlots, FreshLease, TakeoversSpaced
<1> QED
  BY <1>1, <1>2, <1>3, <1>4, <1>5, <1>6, <1>7, <1>8, <1>9, <1>10
  DEF Next, Check, Record

LEMMA Invariant == Spec => []IInv
BY InitEstablishes, NextPreserves, PTL DEF Spec

(* In every reachable state is_open() answers what state() would: every    *)
(* call that changes the state writes the mirror too (trip, close,         *)
(* check_open).                                                            *)
THEOREM MirrorFollows == Spec => []MirrorAgrees
<1>1. IInv => MirrorAgrees
  BY DEF IInv
<1> QED BY <1>1, Invariant, PTL

(* Probe slots exist only in HalfOpen, where between one and MaxProbes are *)
(* taken, although check_open does not reset the counter.                  *)
THEOREM SlotsOnlyHalfOpen == Spec => []ProbeSlots
<1>1. IInv => ProbeSlots
  BY DEF IInv
<1> QED BY <1>1, Invariant, PTL

(* No claim time survives from an earlier half-open period, although       *)
(* neither trip nor close resets it (try_half_open_probe).                 *)
THEOREM LeaseIsFresh == Spec => []FreshLease
<1>1. IInv => FreshLease
  BY DEF IInv
<1> QED BY <1>1, Invariant, PTL

LEMMA BudgetFromSpacing == IInv => ProbeBudget
<1> SUFFICES ASSUME IInv, state = "HalfOpen"
             PROVE  (admitted - MaxProbes) * OpenDuration <= now - (openedAt + OpenDuration)
  BY DEF ProbeBudget
<1>1. admitted - MaxProbes <= admitted - probes
  BY BreakerAssumption DEF IInv, Counters, ProbeSlots
<1>2. (admitted - MaxProbes) * OpenDuration <= (admitted - probes) * OpenDuration
  <2>1. ASSUME NEW a \in Int, NEW b \in Int, NEW d \in Nat, a <= b
        PROVE  a * d <= b * d
    BY <2>1, SMT
  <2> QED BY <1>1, <2>1, BreakerAssumption DEF IInv, Counters
<1>3. /\ (admitted - MaxProbes) * OpenDuration \in Int
      /\ (admitted - probes) * OpenDuration \in Int
  BY BreakerAssumption DEF IInv, Counters
<1> QED BY <1>2, <1>3, BreakerAssumption DEF IInv, Counters, TakeoversSpaced

(* A half-open period of length d admits at most MaxProbes probes plus one *)
(* for each whole open_duration in d, however many of them are abandoned   *)
(* (the lease of try_half_open_probe).                                     *)
THEOREM BoundedProbing == Spec => []ProbeBudget
BY Invariant, BudgetFromSpacing, PTL

-----------------------------------------------------------------------------
(* The sliding window.                                                      *)

(* Any set of naturals has a least element. *)
LEMMA LeastNatural ==
  ASSUME NEW T, T \subseteq Nat, T # {}
  PROVE  \E x \in T : \A y \in T : x <= y
<1>1. PICK x \in T : \A y \in T : ~(<<y, x>> \in OpToRel(<, Nat))
  BY NatLessThanWellFounded, WFMin
<1>2. \A y \in T : ~(y < x)
  BY <1>1 DEF OpToRel
<1>3. \A y \in T : x <= y
  BY <1>2
<1> QED BY <1>3

LEMMA FailuresFinite ==
  ASSUME NEW s \in Seq(Sample)
  PROVE  /\ IsFiniteSet({i \in DOMAIN s : s[i].failure})
         /\ FailuresIn(s) \in Nat
<1>1. DOMAIN s = 1..Len(s) /\ Len(s) \in Nat
  OBVIOUS
<1>2. IsFiniteSet(DOMAIN s)
  BY <1>1, FS_Interval
<1> QED BY <1>2, FS_Subset, FS_CardinalityType DEF FailuresIn

(* The failing samples of a queue are those of its first k and those of     *)
(* the rest, which the rest numbers from one again.                         *)
LEMMA FailuresSplit ==
  ASSUME NEW s \in Seq(Sample), NEW k \in 0..Len(s)
  PROVE  /\ SubSeq(s, k + 1, Len(s)) \in Seq(Sample)
         /\ Len(SubSeq(s, k + 1, Len(s))) = Len(s) - k
         /\ FailuresIn(SubSeq(s, k + 1, Len(s)))
              = FailuresIn(s) - FailuresIn(SubSeq(s, 1, k))
<1> DEFINE a == SubSeq(s, 1, k)
           b == SubSeq(s, k + 1, Len(s))
           F == {i \in DOMAIN s : s[i].failure}
           A == {i \in DOMAIN a : a[i].failure}
           B == {i \in DOMAIN b : b[i].failure}
           C == {i \in F : i > k}
           shift == [i \in B |-> i + k]
<1>1. a \in Seq(Sample) /\ Len(a) = k /\ \A i \in 1..k : a[i] = s[i]
  OBVIOUS
<1>2. b \in Seq(Sample) /\ Len(b) = Len(s) - k /\ \A i \in 1..(Len(s) - k) : b[i] = s[i + k]
  OBVIOUS
<1>3. DOMAIN a = 1..k /\ DOMAIN b = 1..(Len(s) - k) /\ DOMAIN s = 1..Len(s) /\ Len(s) \in Nat
  BY <1>1, <1>2
<1> HIDE DEF a, b
<1>4. IsFiniteSet(F) /\ IsFiniteSet(A) /\ IsFiniteSet(B)
  BY <1>1, <1>2, FailuresFinite
<1>5. IsFiniteSet(C) /\ C \in SUBSET F
  BY <1>4, FS_Subset
<1>6. shift \in Bijection(B, C)
  <2>1. \A i \in B : i + k \in C
    BY <1>2, <1>3
  <2>2. \A i, j \in B : i + k = j + k => i = j
    BY <1>3
  <2>3. \A c \in C : c - k \in B /\ (c - k) + k = c
    BY <1>2, <1>3
  <2>4. shift \in [B -> C]
    BY <2>1
  <2>5. shift \in Injection(B, C)
    BY <2>2, <2>4 DEF Injection, IsInjective
  <2>6. \A c \in C : \E i \in B : shift[i] = c
    BY <2>3
  <2> QED BY <2>4, <2>5, <2>6 DEF Bijection, Surjection
<1>7. Cardinality(C) = Cardinality(B)
  BY <1>4, <1>6, FS_Bijection DEF ExistsBijection
<1>8. F = A \cup C /\ A \cap C = {}
  BY <1>1, <1>3
<1>9. Cardinality(F) = Cardinality(A) + Cardinality(C)
  <2>1. Cardinality(A \cup C) = Cardinality(A) + Cardinality(C) - Cardinality(A \cap C)
    BY <1>4, <1>5, FS_Union
  <2>2. Cardinality(A \cap C) = 0
    BY <1>8, FS_EmptySet
  <2>3. Cardinality(A) \in Nat /\ Cardinality(C) \in Nat
    BY <1>4, <1>5, FS_CardinalityType
  <2> HIDE DEF F, A, C
  <2> QED BY <1>8, <2>1, <2>2, <2>3
<1>10. FailuresIn(s) = Cardinality(F) /\ FailuresIn(a) = Cardinality(A) /\ FailuresIn(b) = Cardinality(B)
  BY DEF FailuresIn
<1>11. Cardinality(A) \in Nat /\ Cardinality(C) \in Nat
  BY <1>4, <1>5, FS_CardinalityType
<1> HIDE DEF F, A, B, C
<1> QED BY <1>2, <1>7, <1>9, <1>10, <1>11 DEF a, b

LEMMA FailuresAppend ==
  ASSUME NEW s \in Seq(Sample), NEW e \in Sample
  PROVE  /\ Append(s, e) \in Seq(Sample)
         /\ Len(Append(s, e)) = Len(s) + 1
         /\ FailuresIn(Append(s, e)) = IF e.failure THEN FailuresIn(s) + 1 ELSE FailuresIn(s)
<1> DEFINE t == Append(s, e)
           F == {i \in DOMAIN s : s[i].failure}
           G == {i \in DOMAIN t : t[i].failure}
           n == Len(s) + 1
<1>1. t \in Seq(Sample) /\ Len(t) = n /\ t[n] = e /\ \A i \in 1..Len(s) : t[i] = s[i]
  OBVIOUS
<1>2. DOMAIN s = 1..Len(s) /\ DOMAIN t = 1..n /\ Len(s) \in Nat
  BY <1>1
<1> HIDE DEF t
<1>3. IsFiniteSet(F) /\ n \notin F
  <2>1. IsFiniteSet(F)
    BY FailuresFinite
  <2> QED BY <2>1, <1>2
<1>4. CASE e.failure
  <2>1. G = F \cup {n}
    BY <1>1, <1>2, <1>4
  <2>2. Cardinality(G) = Cardinality(F) + 1
    BY <2>1, <1>3, FS_AddElement
  <2> QED BY <2>2, <1>1, <1>4 DEF FailuresIn, t
<1>5. CASE ~e.failure
  <2>1. G = F
    BY <1>1, <1>2, <1>5
  <2> QED BY <2>1, <1>1, <1>5 DEF FailuresIn, t
<1> QED BY <1>4, <1>5

(* A window that is of its type and counts what it holds. *)
Sound(w) == w.entries \in Seq(Sample) /\ WindowConsistent(w)

LEMMA EmptySound == Sound(EmptyWindow)
<1>1. EmptyWindow.entries = << >> /\ EmptyWindow.failures = 0
  BY DEF EmptyWindow
<1>2. << >> \in Seq(Sample) /\ Len(<< >>) = 0
  OBVIOUS
<1>3. FailuresIn(<< >>) = 0
  <2>1. {i \in DOMAIN << >> : << >>[i].failure} = {}
    OBVIOUS
  <2> QED BY <2>1, FS_EmptySet DEF FailuresIn
<1> QED BY <1>1, <1>2, <1>3, WindowAssumption DEF Sound, WindowConsistent

LEMMA PushSound ==
  ASSUME NEW w, Sound(w), NEW failure \in BOOLEAN, NEW at \in Nat
  PROVE  Sound(Push(w, failure, at))
<1> DEFINE s == w.entries
           n == w.failures
           e == [at |-> at, failure |-> failure]
           full == Len(s) >= MaxWindowEntries
           kept == IF full THEN Tail(s) ELSE s
           left == IF full THEN Decrement(n, Head(s).failure) ELSE n
           r == Push(w, failure, at)
<1>1. s \in Seq(Sample) /\ n = FailuresIn(s) /\ Len(s) <= MaxWindowEntries
  BY DEF Sound, WindowConsistent
<1>2. e \in Sample /\ e.failure = failure
  BY DEF Sample
<1>3. r.entries = Append(kept, e) /\ r.failures = IF failure THEN left + 1 ELSE left
  BY DEF Push
<1> HIDE DEF s, n, e, r
<1>4. kept \in Seq(Sample) /\ left = FailuresIn(kept) /\ Len(kept) < MaxWindowEntries
  <2>1. CASE ~full
    BY <1>1, <2>1, WindowAssumption
  <2>2. CASE full
    <3>1. Len(s) = MaxWindowEntries /\ Len(s) >= 1 /\ s # << >> /\ 1 \in 0..Len(s)
      BY <1>1, <2>2, WindowAssumption
    <3>2. Tail(s) \in Seq(Sample) /\ Len(Tail(s)) = Len(s) - 1
      BY <1>1, <3>1
    <3>3. FailuresIn(Tail(s)) = n - FailuresIn(SubSeq(s, 1, 1))
      <4>1. FailuresIn(SubSeq(s, 1 + 1, Len(s))) = FailuresIn(s) - FailuresIn(SubSeq(s, 1, 1))
        BY <1>1, <3>1, FailuresSplit
      <4>2. Tail(s) = SubSeq(s, 1 + 1, Len(s))
        BY <1>1, <3>1
      <4> QED BY <4>1, <4>2, <1>1
    <3>4. FailuresIn(SubSeq(s, 1, 1)) = IF Head(s).failure THEN 1 ELSE 0
      <4> DEFINE h == SubSeq(s, 1, 1)
      <4>1. DOMAIN h = {1} /\ h[1] = Head(s)
        BY <1>1, <3>1
      <4> HIDE DEF h
      <4>2. {i \in DOMAIN h : h[i].failure} = IF Head(s).failure THEN {1} ELSE {}
        BY <4>1
      <4>3. FailuresIn(h) = IF Head(s).failure THEN 1 ELSE 0
        BY <4>2, FS_Singleton, FS_EmptySet DEF FailuresIn
      <4> QED BY <4>3 DEF h
    <3>5. n \in Nat
      BY <1>1, FailuresFinite
    <3>6. left = FailuresIn(Tail(s))
      BY <2>2, <3>3, <3>4, <3>5 DEF Decrement
    <3> QED BY <2>2, <3>1, <3>2, <3>6, WindowAssumption
  <2> QED BY <2>1, <2>2
<1> HIDE DEF kept, left
<1>5. r.entries \in Seq(Sample) /\ Len(r.entries) = Len(kept) + 1 /\ r.failures = FailuresIn(r.entries)
  BY <1>2, <1>3, <1>4, FailuresAppend
<1>6. Len(r.entries) <= MaxWindowEntries
  BY <1>4, <1>5, WindowAssumption
<1> QED BY <1>5, <1>6 DEF Sound, WindowConsistent, r

(* The number of samples evicted exists: the loop stops at the first young  *)
(* sample, or at the end.                                                   *)
LEMMA EvictCountExists ==
  ASSUME NEW s \in Seq(Sample), NEW t
  PROVE  EvictCount(s, t) \in 0..Len(s)
<1> DEFINE Y == {i \in 1..Len(s) : ~Expired(s[i], t)}
<1>1. \E k \in 0..Len(s) : /\ \A i \in 1..k : Expired(s[i], t)
                           /\ k < Len(s) => ~Expired(s[k + 1], t)
  <2>1. CASE Y = {}
    <3>1. Len(s) \in 0..Len(s) /\ \A i \in 1..Len(s) : Expired(s[i], t)
      BY <2>1
    <3> QED BY <3>1
  <2>2. CASE Y # {}
    <3>1. Y \subseteq Nat
      OBVIOUS
    <3>2. PICK y \in Y : \A i \in Y : y <= i
      BY <3>1, <2>2, LeastNatural
    <3>3. y - 1 \in 0..Len(s) /\ (y - 1) + 1 = y
      OBVIOUS
    <3>4. \A i \in 1..(y - 1) : Expired(s[i], t)
      BY <3>2
    <3>5. ~Expired(s[y], t)
      OBVIOUS
    <3> QED BY <3>3, <3>4, <3>5
  <2> QED BY <2>1, <2>2
<1> QED BY <1>1 DEF EvictCount

LEMMA EvictSound ==
  ASSUME NEW w, Sound(w), NEW t
  PROVE  Sound(Evict(w, t))
<1> DEFINE s == w.entries
           k == EvictCount(s, t)
           r == Evict(w, t)
<1>1. s \in Seq(Sample) /\ w.failures = FailuresIn(s) /\ Len(s) <= MaxWindowEntries
  BY DEF Sound, WindowConsistent
<1>2. k \in 0..Len(s)
  BY <1>1, EvictCountExists
<1>3. /\ r.entries = SubSeq(s, k + 1, Len(s))
      /\ r.failures = w.failures - FailuresIn(SubSeq(s, 1, k))
  BY DEF Evict
<1> HIDE DEF s, k, r
<1>4. /\ r.entries \in Seq(Sample) /\ Len(r.entries) = Len(s) - k
      /\ r.failures = FailuresIn(r.entries)
  BY <1>1, <1>2, <1>3, FailuresSplit
<1>5. Len(r.entries) <= MaxWindowEntries
  BY <1>1, <1>2, <1>4, WindowAssumption
<1> QED BY <1>4, <1>5 DEF Sound, WindowConsistent, r

LEMMA NextKeepsWindow == IInv /\ Sound(window) /\ [Next]_vars => Sound(window)'
<1> SUFFICES ASSUME IInv, Sound(window), [Next]_vars PROVE Sound(window')
  BY DEF Sound, WindowConsistent
<1>1. now \in Nat
  BY DEF IInv, Counters
<1>2. ASSUME NEW failure \in BOOLEAN, window' = RecordSample(failure) PROVE Sound(window')
  BY <1>1, <1>2, PushSound, EvictSound DEF RecordSample
<1>3. CASE ErrorRate
  BY <1>3, EvictSound DEF ErrorRate
<1>4. ASSUME NEW r \in Requests, NEW failure \in BOOLEAN,
             RecordClosed(r, failure) \/ RecordHalfOpen(r, failure) \/ RecordOpen(r, failure)
      PROVE  Sound(window')
  BY <1>2, <1>4, EmptySound DEF RecordClosed, RecordHalfOpen, RecordOpen, Close
<1>5. ASSUME NEW r \in Requests, Check(r) \/ Drop(r) PROVE Sound(window')
  BY <1>5 DEF Check, CheckClosed, CheckOpen, CheckHalfOpen, Drop
<1>6. CASE Tick \/ UNCHANGED vars
  BY <1>6 DEF Tick, vars
<1> QED BY <1>3, <1>4, <1>5, <1>6 DEF Next, Record

LEMMA WindowInvariant == Spec => [](IInv /\ Sound(window))
<1>1. Init => Sound(window)
  BY EmptySound DEF Init
<1> QED BY <1>1, Invariant, NextKeepsWindow, PTL DEF Spec

(* However samples are pushed at the cap, evicted and cleared, the counter  *)
(* equals the number of failing samples in the queue, which stays within    *)
(* its cap (SlidingWindow::push, evict_expired, clear).                     *)
THEOREM WindowStaysCounted == Spec => []WindowCounted
<1>1. Sound(window) => WindowCounted
  BY DEF Sound, WindowCounted
<1> QED BY <1>1, WindowInvariant, PTL

(* Every variable of the breaker keeps its type: no counter goes below      *)
(* zero, and the window is a queue of samples.                              *)
THEOREM BreakerTyped == Spec => []TypeOK
<1>1. IInv /\ Sound(window) => TypeOK
  BY DEF IInv, Counters, Sound, TypeOK
<1> QED BY <1>1, WindowInvariant, PTL
=============================================================================

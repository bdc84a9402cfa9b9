--------------------------- MODULE CircuitBreaker --------------------------
(***************************************************************************)
(* CircuitBreaker (breaker.rs) with every call of check(), record() and    *)
(* error_rate() executed as one step: what the breaker promises to callers *)
(* whose calls do not overlap, for instance tasks of one runtime thread,   *)
(* since none of the calls awaits.  Requests still overlap: any number of  *)
(* them is in flight between their check() and their record(), and a       *)
(* request's future may be dropped so that it never records.  The breaker  *)
(* is enabled: with config.enabled off, check() admits everything and      *)
(* record() returns at once, and nothing of the state below changes.       *)
(*                                                                         *)
(* CircuitBreakerThreads has the same calls split into their atomic memory *)
(* accesses.                                                               *)
(***************************************************************************)
EXTENDS Integers, SlidingWindow

CONSTANTS
    Requests,        \* slots for requests that may be in flight together
    OpenDuration,    \* BreakerConfig::open_duration, in clock ticks
    MaxProbes,       \* BreakerConfig::half_open_max_probes, clamped to >= 1
    MinSamples,      \* BreakerConfig::min_samples
    ThresholdNum,    \* BreakerConfig::error_rate_threshold, as the fraction
    ThresholdDen,    \*   ThresholdNum / ThresholdDen
    MaxTime          \* bound on the clock

ASSUME BreakerAssumption ==
    /\ OpenDuration \in Nat \ {0}
    /\ MaxProbes \in Nat \ {0}
    /\ MinSamples \in Nat
    /\ ThresholdNum \in Nat
    /\ ThresholdDen \in Nat \ {0}
    /\ MaxTime \in Nat

VARIABLES
    state,        \* the authoritative BreakerState
    openedAt,     \* opened_at_millis
    probes,       \* half_open_probes
    claimedAt,    \* probe_claimed_at_millis
    isOpenFast,   \* the mirror read by is_open()
    window,       \* the sliding window
    now,          \* the clock, as an offset from the baseline
    inFlight,     \* requests admitted by check() that have not recorded
    admitted      \* history: probes admitted in this half-open period

vars == <<state, openedAt, probes, claimedAt, isOpenFast, window, now,
          inFlight, admitted>>

States == {"Closed", "Open", "HalfOpen"}

TypeOK ==
    /\ state \in States
    /\ openedAt \in Nat
    /\ probes \in Nat
    /\ claimedAt \in Nat
    /\ isOpenFast \in BOOLEAN
    /\ window.entries \in Seq(Sample)
    /\ now \in Nat
    /\ inFlight \subseteq Requests
    /\ admitted \in Nat

Init ==
    /\ state = "Closed"
    /\ openedAt = 0
    /\ probes = 0
    /\ claimedAt = 0
    /\ isOpenFast = FALSE
    /\ window = EmptyWindow
    /\ now = 0
    /\ inFlight = {}
    /\ admitted = 0

-----------------------------------------------------------------------------
(* sample_count >= min_samples and error_rate >= error_rate_threshold; the *)
(* rate of an empty window is 0.                                           *)
ShouldTrip(w) ==
    LET count == Len(w.entries)
    IN  /\ count >= MinSamples
        /\ IF count = 0 THEN ThresholdNum = 0
                        ELSE w.failures * ThresholdDen >= ThresholdNum * count

\* Mutation of Trip: the mirror is not written.
TripForgetsMirror ==
    /\ state' = "Open"
    /\ openedAt' = now
    /\ probes' = 0
    /\ admitted' = 0
    /\ UNCHANGED <<claimedAt, isOpenFast>>

\* Mutation of Trip: the probe slots are not given back.
TripKeepsSlots ==
    /\ state' = "Open"
    /\ openedAt' = now
    /\ isOpenFast' = TRUE
    /\ admitted' = 0
    /\ UNCHANGED <<claimedAt, probes>>

Trip ==
    /\ state' = "Open"
    /\ openedAt' = now
    /\ probes' = 0
    /\ isOpenFast' = TRUE
    /\ admitted' = 0
    /\ UNCHANGED claimedAt

Close ==
    /\ state' = "Closed"
    /\ window' = EmptyWindow
    /\ probes' = 0
    /\ isOpenFast' = FALSE
    /\ admitted' = 0
    /\ UNCHANGED <<openedAt, claimedAt>>

(* try_half_open_probe: a free slot is claimed; with none free, a claim    *)
(* whose lease of one open_duration has run out is taken over.             *)
SlotFree == probes < MaxProbes

\* Mutation of LeaseExpired: the lease runs from the opening, not the claim.
LeaseFromOpening == now - openedAt >= OpenDuration

LeaseExpired == now - claimedAt >= OpenDuration

\* Mutation of TryHalfOpenProbe: claiming a free slot does not date the claim.
ProbeUndated(r) ==
    IF SlotFree \/ LeaseExpired
      THEN /\ probes' = IF SlotFree THEN probes + 1 ELSE probes
           /\ claimedAt' = IF SlotFree THEN claimedAt ELSE now
           /\ admitted' = admitted + 1
           /\ inFlight' = inFlight \cup {r}
      ELSE UNCHANGED <<probes, claimedAt, admitted, inFlight>>

TryHalfOpenProbe(r) ==
    IF SlotFree \/ LeaseExpired
      THEN /\ probes' = IF SlotFree THEN probes + 1 ELSE probes
           /\ claimedAt' = now
           /\ admitted' = admitted + 1
           /\ inFlight' = inFlight \cup {r}
      ELSE UNCHANGED <<probes, claimedAt, admitted, inFlight>>

-----------------------------------------------------------------------------
CheckClosed(r) ==
    /\ r \notin inFlight
    /\ state = "Closed"
    /\ inFlight' = inFlight \cup {r}
    /\ UNCHANGED <<state, openedAt, probes, claimedAt, isOpenFast, window, now,
                   admitted>>

(* check_open once the cool-down is over.  The probe counter was zeroed by *)
(* trip(), so the caller that moves the breaker to HalfOpen claims a slot. *)
CoolDownOver == now - openedAt >= OpenDuration

CheckOpen(r) ==
    /\ r \notin inFlight
    /\ state = "Open"
    /\ CoolDownOver
    /\ state' = "HalfOpen"
    /\ isOpenFast' = FALSE
    /\ TryHalfOpenProbe(r)
    /\ UNCHANGED <<openedAt, window, now>>

CheckHalfOpen(r) ==
    /\ r \notin inFlight
    /\ state = "HalfOpen"
    /\ TryHalfOpenProbe(r)
    /\ UNCHANGED <<state, openedAt, isOpenFast, window, now>>

(* record(): the breaker does not ask whether the request was a probe, so  *)
(* in HalfOpen the first outcome of any request decides.                   *)
RecordSample(failure) == Evict(Push(window, failure, now), now)

RecordClosed(r, failure) ==
    /\ r \in inFlight
    /\ state = "Closed"
    /\ inFlight' = inFlight \ {r}
    /\ window' = RecordSample(failure)
    /\ IF ShouldTrip(window')
         THEN Trip
         ELSE UNCHANGED <<state, openedAt, probes, claimedAt, isOpenFast, admitted>>
    /\ UNCHANGED now

RecordHalfOpen(r, failure) ==
    /\ r \in inFlight
    /\ state = "HalfOpen"
    /\ inFlight' = inFlight \ {r}
    /\ IF failure THEN Trip /\ UNCHANGED window ELSE Close
    /\ UNCHANGED now

RecordOpen(r, failure) ==
    /\ r \in inFlight
    /\ state = "Open"
    /\ inFlight' = inFlight \ {r}
    /\ window' = RecordSample(failure)
    /\ UNCHANGED <<state, openedAt, probes, claimedAt, isOpenFast, now, admitted>>

ErrorRate ==
    /\ window' = Evict(window, now)
    /\ UNCHANGED <<state, openedAt, probes, claimedAt, isOpenFast, now, inFlight,
                   admitted>>

\* Mutation of Drop: a dropped request gives back a slot it may not hold.
DropReturnsSlot(r) ==
    /\ r \in inFlight
    /\ inFlight' = inFlight \ {r}
    /\ probes' = probes - 1
    /\ UNCHANGED <<state, openedAt, claimedAt, isOpenFast, window, now, admitted>>

(* The caller of an admitted request is cancelled before it records. *)
Drop(r) ==
    /\ r \in inFlight
    /\ inFlight' = inFlight \ {r}
    /\ UNCHANGED <<state, openedAt, probes, claimedAt, isOpenFast, window, now,
                   admitted>>

Tick ==
    /\ now < MaxTime
    /\ now' = now + 1
    /\ UNCHANGED <<state, openedAt, probes, claimedAt, isOpenFast, window,
                   inFlight, admitted>>

Check(r) == CheckClosed(r) \/ CheckOpen(r) \/ CheckHalfOpen(r)

Record(r) ==
    \E failure \in BOOLEAN :
        RecordClosed(r, failure) \/ RecordHalfOpen(r, failure) \/ RecordOpen(r, failure)

Next == Tick \/ ErrorRate \/ \E r \in Requests : Check(r) \/ Record(r) \/ Drop(r)

Spec == Init /\ [][Next]_vars

-----------------------------------------------------------------------------
(* The counter of failing samples agrees with the queue it summarises,     *)
(* through every push at the cap, eviction and clear (window.rs).          *)
WindowCounted == WindowConsistent(window)

(* is_open(), which reads only the mirror, answers what state() would.     *)
MirrorAgrees == isOpenFast <=> state = "Open"

(* Probe slots exist only in HalfOpen: trip() and close() both return      *)
(* them all, and check_open() relies on it by not resetting the counter    *)
(* when it enters HalfOpen.  In HalfOpen at least the caller that entered  *)
(* holds one and never more than the configured number are given out.      *)
ProbeSlots ==
    /\ state # "HalfOpen" => probes = 0
    /\ state = "HalfOpen" => probes \in 1..MaxProbes

(* A claim time left over from an earlier half-open period is never        *)
(* visible in a later one, where it would make every caller's lease test   *)
(* succeed: probe_claimed_at is not reset by trip() or close().            *)
FreshLease == state = "HalfOpen" => claimedAt >= openedAt + OpenDuration

(* However many probes are abandoned, a half-open period of length d sends *)
(* at most MaxProbes + d / OpenDuration probes to the sick upstream.       *)
ProbeBudget ==
    state = "HalfOpen" =>
        (admitted - MaxProbes) * OpenDuration <= now - (openedAt + OpenDuration)
=============================================================================

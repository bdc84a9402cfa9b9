----------------------- MODULE CircuitBreakerThreads ------------------------
(***************************************************************************)
(* CircuitBreaker (breaker.rs) called by several threads: every load,      *)
(* store, fetch_add, fetch_sub and compare_exchange on a shared atomic is  *)
(* a step of its own, in program order; the window's critical sections     *)
(* (taken under its mutex) and reads of the clock are single steps.  The   *)
(* atomics are Acquire/Release and each location has one modification      *)
(* order, so interleavings of these steps are executions of the program.   *)
(*                                                                         *)
(* A thread issues one request at a time: check(), and, once admitted,     *)
(* either record() of an outcome or nothing (its future was dropped).  The *)
(* breaker is enabled: with config.enabled off, check() admits everything  *)
(* and record() returns at once, and nothing of the state below changes.   *)
(***************************************************************************)
EXTENDS Integers, SlidingWindow

CONSTANTS
    Threads,
    OpenDuration, MaxProbes, MinSamples, ThresholdNum, ThresholdDen,
    UsizeModulus,    \* 2^64 in the program; half_open_probes wraps around it
    MaxTime          \* bound on the clock

ASSUME ThreadsAssumption ==
    /\ IsFiniteSet(Threads)
    /\ OpenDuration \in Nat \ {0}
    /\ MaxProbes \in Nat \ {0}
    /\ MinSamples \in Nat
    /\ ThresholdNum \in Nat
    /\ ThresholdDen \in Nat \ {0}
    /\ UsizeModulus \in Nat /\ UsizeModulus > MaxProbes
    /\ MaxTime \in Nat

VARIABLES
    state, openedAt, probes, claimedAt, isOpenFast, window,   \* shared
    now,        \* the clock
    pc,         \* where each thread is; "idle" and "sent" are between calls
    clk,        \* a thread's reading of the clock
    seen,       \* the opened_at or claimed_at value a thread has loaded
    failed      \* the outcome a thread is recording

shared == <<state, openedAt, probes, claimedAt, isOpenFast, window>>
vars == <<shared, now, pc, clk, seen, failed>>

Labels ==
    {"idle", "sent",
     "opened_load", "opened_elapsed", "opened_cas", "opened_mirror", "opened_lost",
     "probe_clock", "probe_add", "probe_claim", "probe_sub", "probe_lease", "probe_cas",
     "rec_state", "rec_closed", "rec_open",
     "trip_state", "trip_clock", "trip_opened", "trip_probes", "trip_mirror",
     "close_state", "close_window", "close_probes", "close_mirror"}

TypeOK ==
    /\ state \in {"Closed", "Open", "HalfOpen"}
    /\ openedAt \in 0..now
    /\ probes \in 0..UsizeModulus - 1
    /\ claimedAt \in 0..now
    /\ isOpenFast \in BOOLEAN
    /\ window.entries \in Seq(Sample)
    /\ pc \in [Threads -> Labels]
    /\ clk \in [Threads -> 0..now]
    /\ seen \in [Threads -> 0..now]
    /\ failed \in [Threads -> BOOLEAN]

Init ==
    /\ state = "Closed"
    /\ openedAt = 0
    /\ probes = 0
    /\ claimedAt = 0
    /\ isOpenFast = FALSE
    /\ window = EmptyWindow
    /\ now = 0
    /\ pc = [t \in Threads |-> "idle"]
    /\ clk = [t \in Threads |-> 0]
    /\ seen = [t \in Threads |-> 0]
    /\ failed = [t \in Threads |-> FALSE]

-----------------------------------------------------------------------------
(* Control flow: one step of a thread, from one label to another. *)
At(t, label) == pc[t] = label

Goto(t, label) == pc' = [pc EXCEPT ![t] = label]

(* The registers are dead once a call returns. *)
Return(t, label) ==
    /\ Goto(t, label)
    /\ clk' = [clk EXCEPT ![t] = 0]
    /\ seen' = [seen EXCEPT ![t] = 0]
    /\ failed' = [failed EXCEPT ![t] = FALSE]

KeepRegisters == UNCHANGED <<clk, seen, failed>>

Admit(t) == Return(t, "sent")

Reject(t) == Return(t, "idle")

ReadClock(t) ==
    /\ clk' = [clk EXCEPT ![t] = now]
    /\ UNCHANGED <<seen, failed>>

-----------------------------------------------------------------------------
(* check(): the load of state and the dispatch on it. *)
CheckState(t) ==
    /\ At(t, "idle")
    /\ CASE state = "Closed"   -> Admit(t)
         [] state = "Open"     -> Goto(t, "opened_load") /\ KeepRegisters
         [] state = "HalfOpen" -> Goto(t, "probe_clock") /\ KeepRegisters
    /\ UNCHANGED <<shared, now>>

(* check_open(). *)
OpenedLoad(t) ==
    /\ At(t, "opened_load")
    /\ seen' = [seen EXCEPT ![t] = openedAt]
    /\ Goto(t, "opened_elapsed")
    /\ UNCHANGED <<shared, now, clk, failed>>

OpenedElapsed(t) ==
    /\ At(t, "opened_elapsed")
    /\ IF now - seen[t] >= OpenDuration
         THEN Goto(t, "opened_cas") /\ KeepRegisters
         ELSE Reject(t)
    /\ UNCHANGED <<shared, now>>

\* Mutation of OpenedCas: the arguments of compare_exchange are swapped.
OpenedCasSwapped(t) ==
    /\ At(t, "opened_cas")
    /\ IF state = "HalfOpen"
         THEN state' = "Open" /\ Goto(t, "opened_mirror")
         ELSE Goto(t, "opened_lost") /\ UNCHANGED state
    /\ UNCHANGED <<openedAt, probes, claimedAt, isOpenFast, window, now>>
    /\ KeepRegisters

OpenedCas(t) ==
    /\ At(t, "opened_cas")
    /\ IF state = "Open"
         THEN state' = "HalfOpen" /\ Goto(t, "opened_mirror")
         ELSE Goto(t, "opened_lost") /\ UNCHANGED state
    /\ UNCHANGED <<openedAt, probes, claimedAt, isOpenFast, window, now>>
    /\ KeepRegisters

OpenedMirror(t) ==
    /\ At(t, "opened_mirror")
    /\ isOpenFast' = FALSE
    /\ Goto(t, "probe_clock")
    /\ UNCHANGED <<state, openedAt, probes, claimedAt, window, now>>
    /\ KeepRegisters

OpenedLost(t) ==
    /\ At(t, "opened_lost")
    /\ CASE state = "Closed"   -> Admit(t)
         [] state = "HalfOpen" -> Goto(t, "probe_clock") /\ KeepRegisters
         [] state = "Open"     -> Reject(t)
    /\ UNCHANGED <<shared, now>>

(* try_half_open_probe(). *)
ProbeClock(t) ==
    /\ At(t, "probe_clock")
    /\ ReadClock(t)
    /\ Goto(t, "probe_add")
    /\ UNCHANGED <<shared, now>>

ProbeAdd(t) ==
    /\ At(t, "probe_add")
    /\ probes' = (probes + 1) % UsizeModulus
    /\ Goto(t, IF probes < MaxProbes THEN "probe_claim" ELSE "probe_sub")
    /\ UNCHANGED <<state, openedAt, claimedAt, isOpenFast, window, now>>
    /\ KeepRegisters

ProbeClaim(t) ==
    /\ At(t, "probe_claim")
    /\ claimedAt' = clk[t]
    /\ Admit(t)
    /\ UNCHANGED <<state, openedAt, probes, isOpenFast, window, now>>

\* Mutation of ProbeSub: the decrement does not wrap around.
ProbeSubSigned(t) ==
    /\ At(t, "probe_sub")
    /\ probes' = probes - 1
    /\ Goto(t, "probe_lease")
    /\ UNCHANGED <<state, openedAt, claimedAt, isOpenFast, window, now>>
    /\ KeepRegisters

\* Mutation of ProbeSub: a claim over the limit is not undone.
ProbeSubForgotten(t) ==
    /\ At(t, "probe_sub")
    /\ Goto(t, "probe_lease")
    /\ UNCHANGED <<shared, now>>
    /\ KeepRegisters

ProbeSub(t) ==
    /\ At(t, "probe_sub")
    /\ probes' = (probes + UsizeModulus - 1) % UsizeModulus
    /\ Goto(t, "probe_lease")
    /\ UNCHANGED <<state, openedAt, claimedAt, isOpenFast, window, now>>
    /\ KeepRegisters

\* Mutation of ProbeLease: there is no lease, a claim is held for ever.
ProbeNoLease(t) ==
    /\ At(t, "probe_lease")
    /\ Reject(t)
    /\ UNCHANGED <<shared, now>>

(* now was read before claimed is loaded, so the difference can be negative *)
(* here, which the code's saturating_sub turns into 0.                      *)
ProbeLease(t) ==
    /\ At(t, "probe_lease")
    /\ IF clk[t] - claimedAt >= OpenDuration
         THEN /\ seen' = [seen EXCEPT ![t] = claimedAt]
              /\ Goto(t, "probe_cas")
              /\ UNCHANGED <<clk, failed>>
         ELSE Reject(t)
    /\ UNCHANGED <<shared, now>>

ProbeCas(t) ==
    /\ At(t, "probe_cas")
    /\ IF claimedAt = seen[t]
         THEN claimedAt' = clk[t] /\ Admit(t)
         ELSE Reject(t) /\ UNCHANGED claimedAt
    /\ UNCHANGED <<state, openedAt, probes, isOpenFast, window, now>>

-----------------------------------------------------------------------------
(* record(): the clock is read first, then the state. *)
RecordClock(t, failure) ==
    /\ At(t, "sent")
    /\ clk' = [clk EXCEPT ![t] = now]
    /\ failed' = [failed EXCEPT ![t] = failure]
    /\ Goto(t, "rec_state")
    /\ UNCHANGED <<shared, now, seen>>

RecordState(t) ==
    /\ At(t, "rec_state")
    /\ CASE state = "Closed" -> Goto(t, "rec_closed")
         [] state = "Open"   -> Goto(t, "rec_open")
         [] state = "HalfOpen" /\ failed[t]  -> Goto(t, "trip_state")
         [] state = "HalfOpen" /\ ~failed[t] -> Goto(t, "close_state")
    /\ UNCHANGED <<shared, now>>
    /\ KeepRegisters

RecordSample(t) == Evict(Push(window, failed[t], clk[t]), clk[t])

ShouldTrip(w) ==
    LET count == Len(w.entries)
    IN  /\ count >= MinSamples
        /\ IF count = 0 THEN ThresholdNum = 0
                        ELSE w.failures * ThresholdDen >= ThresholdNum * count

RecordClosed(t) ==
    /\ At(t, "rec_closed")
    /\ window' = RecordSample(t)
    /\ IF ShouldTrip(window')
         THEN Goto(t, "trip_state") /\ KeepRegisters
         ELSE Return(t, "idle")
    /\ UNCHANGED <<state, openedAt, probes, claimedAt, isOpenFast, now>>

RecordOpen(t) ==
    /\ At(t, "rec_open")
    /\ window' = RecordSample(t)
    /\ Return(t, "idle")
    /\ UNCHANGED <<state, openedAt, probes, claimedAt, isOpenFast, now>>

(* trip(). *)
TripState(t) ==
    /\ At(t, "trip_state")
    /\ state' = "Open"
    /\ Goto(t, "trip_clock")
    /\ UNCHANGED <<openedAt, probes, claimedAt, isOpenFast, window, now>>
    /\ KeepRegisters

TripClock(t) ==
    /\ At(t, "trip_clock")
    /\ ReadClock(t)
    /\ Goto(t, "trip_opened")
    /\ UNCHANGED <<shared, now>>

TripOpened(t) ==
    /\ At(t, "trip_opened")
    /\ openedAt' = clk[t]
    /\ Goto(t, "trip_probes")
    /\ UNCHANGED <<state, probes, claimedAt, isOpenFast, window, now>>
    /\ KeepRegisters

TripProbes(t) ==
    /\ At(t, "trip_probes")
    /\ probes' = 0
    /\ Goto(t, "trip_mirror")
    /\ UNCHANGED <<state, openedAt, claimedAt, isOpenFast, window, now>>
    /\ KeepRegisters

TripMirror(t) ==
    /\ At(t, "trip_mirror")
    /\ isOpenFast' = TRUE
    /\ Return(t, "idle")
    /\ UNCHANGED <<state, openedAt, probes, claimedAt, window, now>>

(* close(). *)
CloseState(t) ==
    /\ At(t, "close_state")
    /\ state' = "Closed"
    /\ Goto(t, "close_window")
    /\ UNCHANGED <<openedAt, probes, claimedAt, isOpenFast, window, now>>
    /\ KeepRegisters

CloseWindow(t) ==
    /\ At(t, "close_window")
    /\ window' = EmptyWindow
    /\ Goto(t, "close_probes")
    /\ UNCHANGED <<state, openedAt, probes, claimedAt, isOpenFast, now>>
    /\ KeepRegisters

CloseProbes(t) ==
    /\ At(t, "close_probes")
    /\ probes' = 0
    /\ Goto(t, "close_mirror")
    /\ UNCHANGED <<state, openedAt, claimedAt, isOpenFast, window, now>>
    /\ KeepRegisters

CloseMirror(t) ==
    /\ At(t, "close_mirror")
    /\ isOpenFast' = FALSE
    /\ Return(t, "idle")
    /\ UNCHANGED <<state, openedAt, probes, claimedAt, window, now>>

-----------------------------------------------------------------------------
(* error_rate() reads the clock and then takes the window's lock, so that it *)
(* may evict against a time that is past when it gets the lock.             *)
ErrorRate ==
    /\ \E at \in 0..now : window' = Evict(window, at)
    /\ UNCHANGED <<state, openedAt, probes, claimedAt, isOpenFast, now>>
    /\ UNCHANGED <<pc, clk, seen, failed>>

Drop(t) ==
    /\ At(t, "sent")
    /\ Return(t, "idle")
    /\ UNCHANGED <<shared, now>>

Tick ==
    /\ now < MaxTime
    /\ now' = now + 1
    /\ UNCHANGED <<shared, pc, clk, seen, failed>>

Check(t) ==
    \/ CheckState(t)
    \/ OpenedLoad(t) \/ OpenedElapsed(t) \/ OpenedCas(t) \/ OpenedMirror(t) \/ OpenedLost(t)
    \/ ProbeClock(t) \/ ProbeAdd(t) \/ ProbeClaim(t)
    \/ ProbeSub(t) \/ ProbeLease(t) \/ ProbeCas(t)

Recording(t) ==
    \/ RecordState(t) \/ RecordClosed(t) \/ RecordOpen(t)
    \/ TripState(t) \/ TripClock(t) \/ TripOpened(t) \/ TripProbes(t) \/ TripMirror(t)
    \/ CloseState(t) \/ CloseWindow(t) \/ CloseProbes(t) \/ CloseMirror(t)

Next ==
    \/ Tick
    \/ ErrorRate
    \/ \E t \in Threads :
         \/ Check(t)
         \/ \E failure \in BOOLEAN : RecordClock(t, failure)
         \/ Recording(t)
         \/ Drop(t)

Spec == Init /\ [][Next]_vars

(* Time passes, a thread inside a call is scheduled again, and callers     *)
(* keep issuing requests.  Nothing makes an admitted request record.       *)
FairSpec ==
    /\ Spec
    /\ WF_vars(Tick)
    /\ \A t \in Threads : WF_vars(Check(t)) /\ WF_vars(Recording(t))

-----------------------------------------------------------------------------
(* A claim over the limit is undone by fetch_sub, which wraps below zero if *)
(* trip() or close() zeroed half_open_probes in between.  It stays near its *)
(* range all the same: above the limit by no more than the claims still to  *)
(* be undone, below zero by no more than the threads; nothing accumulates.  *)
CounterNearRange ==
    LET undoing == Cardinality({t \in Threads : At(t, "probe_sub")})
    IN  \/ probes <= MaxProbes + undoing
        \/ probes >= UsizeModulus - Cardinality(Threads) + undoing

(* The field's comment on probe_claimed_at: a probe that never records     *)
(* does not strand the breaker in HalfOpen.  With every probe abandoned    *)
(* and traffic still arriving, some later caller is admitted, as long as   *)
(* a lease can still run out before the clock's bound.                     *)
NotStranded ==
    (/\ state = "HalfOpen"
     /\ \A t \in Threads : pc[t] # "sent")
        ~> \/ state # "HalfOpen"
           \/ \E t \in Threads : pc[t] = "sent"
           \/ claimedAt + OpenDuration > MaxTime

(* An open breaker is left once its cool-down is over and a caller asks:   *)
(* no interleaving of overlapping trips loses the way back.                *)
OpenIsLeft ==
    state = "Open"
        ~> \/ state # "Open"
           \/ \A t \in Threads : pc[t] = "sent"
           \/ openedAt + OpenDuration > MaxTime
=============================================================================

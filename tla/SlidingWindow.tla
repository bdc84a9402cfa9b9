--------------------------- MODULE SlidingWindow ---------------------------
(***************************************************************************)
(* The bounded sliding window of xai-circuit-breaker (window.rs): a queue  *)
(* of (timestamp, is_failure) samples with an incrementally maintained     *)
(* count of the failing ones.  The functions are pure; the breaker calls   *)
(* them while it holds the window's mutex.                                 *)
(***************************************************************************)
EXTENDS Naturals, Sequences, FiniteSets

CONSTANTS
    MaxWindowEntries,   \* MAX_WINDOW_ENTRIES, the cap on the queue
    WindowDuration      \* BreakerConfig::window_duration, in clock ticks

ASSUME WindowAssumption ==
    /\ MaxWindowEntries \in Nat \ {0}
    /\ WindowDuration \in Nat

Sample == [at : Nat, failure : BOOLEAN]

Window == [entries : Seq(Sample), failures : Nat]

EmptyWindow == [entries |-> << >>, failures |-> 0]

FailuresIn(entries) == Cardinality({i \in DOMAIN entries : entries[i].failure})

Decrement(n, failure) == IF failure THEN n - 1 ELSE n

\* Mutation of Push: the sample popped at the cap stays counted.
PushForgetsPopped(w, failure, at) ==
    LET full == Len(w.entries) >= MaxWindowEntries
    IN  [entries  |-> Append(IF full THEN Tail(w.entries) ELSE w.entries,
                             [at |-> at, failure |-> failure]),
         failures |-> IF failure THEN w.failures + 1 ELSE w.failures]

(* At the cap the oldest sample makes room before the new one is appended. *)
Push(w, failure, at) ==
    LET full == Len(w.entries) >= MaxWindowEntries
        kept == IF full THEN Tail(w.entries) ELSE w.entries
        left == IF full THEN Decrement(w.failures, Head(w.entries).failure)
                        ELSE w.failures
    IN  [entries  |-> Append(kept, [at |-> at, failure |-> failure]),
         failures |-> IF failure THEN left + 1 ELSE left]

(* Samples are popped from the front as long as they are older than the    *)
(* cut-off; the first young one stops the loop, whatever is behind it.     *)
Expired(sample, now) == sample.at + WindowDuration < now

EvictCount(entries, now) ==
    CHOOSE k \in 0..Len(entries) :
        /\ \A i \in 1..k : Expired(entries[i], now)
        /\ k < Len(entries) => ~Expired(entries[k + 1], now)

Evict(w, now) ==
    LET k == EvictCount(w.entries, now)
    IN  [entries  |-> SubSeq(w.entries, k + 1, Len(w.entries)),
         failures |-> w.failures - FailuresIn(SubSeq(w.entries, 1, k))]

(* What the incremental counter must always equal: the number of failing   *)
(* samples in the queue, which never grows past its cap.                   *)
WindowConsistent(w) ==
    /\ w.failures = FailuresIn(w.entries)
    /\ Len(w.entries) <= MaxWindowEntries
=============================================================================

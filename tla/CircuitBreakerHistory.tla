----------------------- MODULE CircuitBreakerHistory ------------------------
(***************************************************************************)
(* CircuitBreakerThreads with a history variable: when each sample of the  *)
(* window was queued.  A thread reads the clock, and takes the mutex       *)
(* later, so the samples' own times need not be in queue order, while      *)
(* evict pops from the front until it meets a young one.                   *)
(***************************************************************************)
EXTENDS CircuitBreakerThreads

VARIABLE queuedAt

historyVars == <<vars, queuedAt>>

(* The last n elements: the window gains samples at its back and loses     *)
(* them at its front only.                                                 *)
Newest(s, n) == SubSeq(s, Len(s) - n + 1, Len(s))

(* A step that pushes a sample: record() past its look at the state. *)
Records(t) == pc[t] \in {"rec_closed", "rec_open"} /\ pc'[t] # pc[t]

HistoryInit == Init /\ queuedAt = << >>

HistoryNext ==
    /\ Next
    /\ LET queued == IF \E t \in Threads : Records(t) THEN Append(queuedAt, now) ELSE queuedAt
       IN  queuedAt' = Newest(queued, Len(window'.entries))

HistorySpec == HistoryInit /\ [][HistoryNext]_historyVars

-----------------------------------------------------------------------------
(* A sample that arrives late may be counted after it has expired, behind a *)
(* younger one; but whatever record() counts, in deciding whether to trip,  *)
(* was queued within the window's length before its reading of the clock:   *)
(* no sample stays for longer than a window, however late it came and       *)
(* whatever order the threads got the mutex in.                             *)
CountsOnlyRecent ==
    [][\A t \in Threads : Records(t) =>
          \A i \in DOMAIN queuedAt' : queuedAt'[i] + WindowDuration >= clk[t]]_historyVars
=============================================================================

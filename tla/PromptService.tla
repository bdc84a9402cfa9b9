---------------------------- MODULE PromptService ---------------------------
(***************************************************************************)
(* What a session promises the senders of messages, without queues, tasks  *)
(* or cancels: a message is submitted once, waits, and then either has a   *)
(* turn of its own or is withdrawn (removed, cleared, merged into another  *)
(* turn, or interjected into a running one).  At most one turn runs at a   *)
(* time, a message has at most one turn, and one that was withdrawn has    *)
(* none.                                                                   *)
(***************************************************************************)
CONSTANTS Messages

VARIABLE status

Init == status = [m \in Messages |-> "unsent"]

Submit(m) ==
    /\ status[m] = "unsent"
    /\ status' = [status EXCEPT ![m] = "waiting"]

(* Starting a turn may merge waiting messages into it.                     *)
Start(m, merged) ==
    /\ \A n \in Messages : status[n] # "running"
    /\ m \notin merged
    /\ \A n \in merged \cup {m} : status[n] = "waiting"
    /\ status' = [n \in Messages |-> IF n = m THEN "running"
                                     ELSE IF n \in merged THEN "over" ELSE status[n]]

(* A turn ends by itself or is cancelled or rewound; a shutdown withdraws   *)
(* what still waits.                                                        *)
Finish(m) ==
    /\ status[m] = "running"
    /\ status' = [status EXCEPT ![m] = "over"]

Withdraw(S) ==
    /\ S # {} /\ \A m \in S : status[m] = "waiting"
    /\ status' = [n \in Messages |-> IF n \in S THEN "over" ELSE status[n]]

Next ==
    \/ \E m \in Messages : Submit(m) \/ Finish(m)
    \/ \E m \in Messages, merged \in SUBSET Messages : Start(m, merged)
    \/ \E S \in SUBSET Messages : Withdraw(S)

Spec == Init /\ [][Next]_status
=============================================================================

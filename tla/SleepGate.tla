------------------------------ MODULE SleepGate -----------------------------
(***************************************************************************)
(* Keeping a token exchange from straddling a system sleep (ezer-login:    *)
(* manager/sleep_gate.rs, and the part of manager/refresh_chain.rs that    *)
(* consults it).                                                           *)
(*                                                                         *)
(* The refresh tasks and the OS power listener run on threads of their     *)
(* own; a step is one access to the gate, the in-flight count or the drain *)
(* lock.  While the machine is asleep nothing but the wall clock moves.    *)
(*                                                                         *)
(* Time is an action: the gate may expire at any moment, except while a    *)
(* sleep is being announced, since SLEEP_GATE_MAX (120 s) is far beyond    *)
(* SLEEP_ACK_MAX_WAIT (20 s or 3 s).  A gate's identity, the instant it    *)
(* was raised, is kept as whether a reader's copy is still the current one.*)
(***************************************************************************)
EXTENDS Integers, FiniteSets

CONSTANTS
    Task,           \* tasks that refresh or look at the gate
    MaxSleeps       \* bound: how often the machine sleeps

ASSUME SleepAssumption == MaxSleeps \in Nat

VARIABLES
    os,             \* "full", "dark" (awake, display off) or "asleep"
    waking,         \* a DidWake the listener has not handled
    listener,       \* where the listener is in set_system_sleep_imminent
    gate,           \* SleepGate::raised_at: "none", "fresh" or "expired"
    copy,           \* each task's copy of it: "none", "current" or "old"
    inFlight,       \* refresh_in_flight
    awake,          \* tasks that hold the system awake
    run,            \* dark_wake_defer_since: "none", "started" or "spent"
    pc,             \* where each task is in refresh_chain
    sleeps,         \* how often the machine slept
    unheld          \* history: exchanges for which the machine is not kept awake

vars == <<os, waking, listener, gate, copy, inFlight, awake, run, pc, sleeps, unheld>>

Init ==
    /\ os = "full" /\ waking = FALSE /\ listener = "idle"
    /\ gate = "none" /\ copy = [t \in Task |-> "none"]
    /\ inFlight = 0 /\ awake = {} /\ run = "none"
    /\ pc = [t \in Task |-> "idle"]
    /\ sleeps = 0 /\ unheld = {}

Running == os # "asleep"
Goto(t, s) == pc' = [pc EXCEPT ![t] = s]

-----------------------------------------------------------------------------
(* The power listener                                                      *)

\* WillSleep: raise the gate first.
Raise ==
    /\ os = "full" /\ ~waking /\ listener = "idle" /\ sleeps < MaxSleeps
    /\ gate' = "fresh"
    /\ copy' = [t \in Task |-> IF copy[t] = "current" THEN "old" ELSE copy[t]]
    /\ listener' = "load"
    /\ UNCHANGED <<os, waking, inFlight, awake, run, pc, sleeps, unheld>>

\* hold_sleep_ack_until_refresh_drains: nothing in flight, or take the lock.
LoadInFlight ==
    /\ listener = "load" /\ Running
    /\ listener' = IF inFlight = 0 THEN "acked" ELSE "locked"
    /\ UNCHANGED <<os, waking, gate, copy, inFlight, awake, run, pc, sleeps, unheld>>

\* The loop's condition, under the drain lock.
HoldLoop ==
    /\ listener = "locked" /\ Running
    /\ listener' = IF inFlight = 0 THEN "acked" ELSE "parking"
    /\ UNCHANGED <<os, waking, gate, copy, inFlight, awake, run, pc, sleeps, unheld>>

\* wait_for gives the lock up and parks.
Park ==
    /\ listener = "parking" /\ Running
    /\ listener' = "parked"
    /\ UNCHANGED <<os, waking, gate, copy, inFlight, awake, run, pc, sleeps, unheld>>

\* SLEEP_ACK_MAX_WAIT
HoldTimeout ==
    /\ listener = "parked" /\ Running
    /\ listener' = "acked"
    /\ unheld' = {t \in Task : pc[t] \in {"send", "wire"}}
    /\ UNCHANGED <<os, waking, gate, copy, inFlight, awake, run, pc, sleeps>>

\* DidWake: lower the gate; only a full wake ends the deferral run.
DidWake ==
    /\ waking /\ Running
    /\ waking' = FALSE
    /\ gate' = "none"
    /\ run' = IF os = "dark" THEN run ELSE "none"
    /\ UNCHANGED <<os, listener, copy, inFlight, awake, pc, sleeps, unheld>>

-----------------------------------------------------------------------------
(* The machine                                                             *)

\* The acknowledged sleep begins.
Suspend ==
    /\ listener = "acked" /\ Running
    /\ os' = "asleep" /\ listener' = "idle" /\ sleeps' = sleeps + 1
    /\ UNCHANGED <<waking, gate, copy, inFlight, awake, run, pc, unheld>>

\* A dark wake ends without a WillSleep, unless someone holds it awake.
Resleep ==
    /\ os = "dark" /\ listener = "idle" /\ awake = {} /\ sleeps < MaxSleeps
    /\ os' = "asleep" /\ sleeps' = sleeps + 1
    /\ UNCHANGED <<waking, listener, gate, copy, inFlight, awake, run, pc, unheld>>

\* The machine wakes, and the event is delivered or missed.
Wake ==
    /\ os = "asleep"
    /\ os' \in {"full", "dark"}
    /\ waking' \in {waking, TRUE}
    /\ UNCHANGED <<listener, gate, copy, inFlight, awake, run, pc, sleeps, unheld>>

LightsOn ==
    /\ os = "dark" /\ os' = "full"
    /\ UNCHANGED <<waking, listener, gate, copy, inFlight, awake, run, pc, sleeps, unheld>>

\* SLEEP_GATE_MAX has passed on one of the two clocks.
Expire ==
    /\ gate = "fresh" /\ listener = "idle"
    /\ gate' = "expired"
    /\ UNCHANGED <<os, waking, listener, copy, inFlight, awake, run, pc, sleeps, unheld>>

\* DARK_WAKE_DEFER_MAX has passed on one of the two clocks.
SpendBudget ==
    /\ run = "started" /\ run' = "spent"
    /\ UNCHANGED <<os, waking, listener, gate, copy, inFlight, awake, pc, sleeps, unheld>>

-----------------------------------------------------------------------------
(* A refresh                                                               *)

InChain(t) == pc[t] \notin {"idle", "peek", "clear peek"}

\* A refresh queues on refresh_lock; the proactive loop only looks.
Start(t) ==
    /\ pc[t] = "idle" /\ Running
    /\ \/ Goto(t, "peek")
       \/ (\A u \in Task : ~InChain(u)) /\ Goto(t, "defer")
    /\ UNCHANGED <<os, waking, listener, gate, copy, inFlight, awake, run, sleeps, unheld>>

ClearOf == [defer |-> "clear defer", recheck |-> "clear recheck", peek |-> "clear peek"]

\* Where is_gated's answer sends its caller.
Gated(t, where) == Goto(t, IF where = "recheck" THEN "release" ELSE "idle")
NotGated(t, where) ==
    Goto(t, CASE where = "defer" -> "dark" [] where = "recheck" -> "send"
              [] where = "peek" -> "idle")

(* Mutant: only the monotonic clock counts, which stands still in a sleep.  *)
ReadGateNeverStale(t) ==
    /\ pc[t] \in DOMAIN ClearOf /\ Running
    /\ \/ gate = "none" /\ NotGated(t, pc[t])
       \/ gate # "none" /\ Gated(t, pc[t])
    /\ UNCHANGED <<os, waking, listener, gate, copy, inFlight, awake, run, sleeps, unheld>>

\* is_gated: copy the gate under the read lock.
ReadGate(t) ==
    /\ pc[t] \in DOMAIN ClearOf /\ Running
    /\ \/ gate = "none" /\ NotGated(t, pc[t]) /\ UNCHANGED copy
       \/ gate = "fresh" /\ Gated(t, pc[t]) /\ UNCHANGED copy
       \/ /\ gate = "expired"
          /\ copy' = [copy EXCEPT ![t] = "current"] /\ Goto(t, ClearOf[pc[t]])
    /\ UNCHANGED <<os, waking, listener, gate, inFlight, awake, run, sleeps, unheld>>

(* Mutant: the gate is cleared without looking at it again.                 *)
ClearGateUnchecked(t) ==
    \E where \in DOMAIN ClearOf :
    /\ pc[t] = ClearOf[where] /\ Running
    /\ copy' = [copy EXCEPT ![t] = "none"]
    /\ gate' = "none" /\ NotGated(t, where)
    /\ UNCHANGED <<os, waking, listener, inFlight, awake, run, sleeps, unheld>>

\* A stale gate is cleared under the write lock, if it is still the same one.
ClearGate(t) ==
    \E where \in DOMAIN ClearOf :
    /\ pc[t] = ClearOf[where] /\ Running
    /\ copy' = [copy EXCEPT ![t] = "none"]
    /\ \/ gate # "none" /\ copy[t] = "current" /\ gate' = "none" /\ NotGated(t, where)
       \/ gate # "none" /\ copy[t] = "old" /\ Gated(t, where) /\ UNCHANGED gate
       \/ gate = "none" /\ NotGated(t, where) /\ UNCHANGED gate
    /\ UNCHANGED <<os, waking, listener, inFlight, awake, run, sleeps, unheld>>

\* should_defer_for_dark_wake, asked when the token is still good on the wire.
DeferDarkWake(t) ==
    /\ pc[t] = "dark" /\ Running
    /\ \/ \* full wake, budget spent, or not asked: go on and end the run
          Goto(t, "claim") /\ run' = "none"
       \/ /\ os = "dark" /\ run \in {"none", "started"}
          /\ run' = "started" /\ Goto(t, "idle")
    /\ UNCHANGED <<os, waking, listener, gate, copy, inFlight, awake, sleeps, unheld>>

\* InFlightGuard::new, before the gate is looked at again.
Claim(t) ==
    /\ pc[t] = "claim" /\ Running
    /\ inFlight' = inFlight + 1
    /\ Goto(t, "recheck")
    /\ UNCHANGED <<os, waking, listener, gate, copy, awake, run, sleeps, unheld>>

\* In a dark wake the system is held awake for the exchange, which goes on
\* without when hold_awake gives nothing.
Send(t) ==
    /\ pc[t] = "send" /\ Running
    /\ \/ os # "dark" /\ UNCHANGED <<awake, unheld>>
       \/ os = "dark" /\ awake' = awake \cup {t} /\ UNCHANGED unheld
       \/ os = "dark" /\ unheld' = unheld \cup {t} /\ UNCHANGED awake
    /\ Goto(t, "wire")
    /\ UNCHANGED <<os, waking, listener, gate, copy, inFlight, run, sleeps>>

Reply(t) ==
    /\ pc[t] = "wire" /\ Running
    /\ awake' = awake \ {t}
    /\ unheld' = unheld \ {t}
    /\ Goto(t, "release")
    /\ UNCHANGED <<os, waking, listener, gate, copy, inFlight, run, sleeps>>

(* Mutant: the slot is not given back.                                      *)
ReleaseKeepsSlot(t) ==
    /\ pc[t] = "release" /\ Running
    /\ Goto(t, "idle")
    /\ UNCHANGED <<os, waking, listener, gate, copy, inFlight, awake, run, sleeps, unheld>>

\* InFlightGuard::drop: the last one wakes the listener...
Release(t) ==
    /\ pc[t] = "release" /\ Running
    /\ inFlight' = inFlight - 1
    /\ Goto(t, IF inFlight = 1 THEN "notify" ELSE "idle")
    /\ UNCHANGED <<os, waking, listener, gate, copy, awake, run, sleeps, unheld>>

(* Mutant: the listener is woken without the drain lock.                    *)
NotifyUnlocked(t) ==
    /\ pc[t] = "notify" /\ Running
    /\ listener' = IF listener = "parked" THEN "locked" ELSE listener
    /\ Goto(t, "idle")
    /\ UNCHANGED <<os, waking, gate, copy, inFlight, awake, run, sleeps, unheld>>

\* ... under the drain lock, so not between its check and its park.
Notify(t) ==
    /\ pc[t] = "notify" /\ Running
    /\ listener \notin {"locked", "parking"}
    /\ listener' = IF listener = "parked" THEN "locked" ELSE listener
    /\ Goto(t, "idle")
    /\ UNCHANGED <<os, waking, gate, copy, inFlight, awake, run, sleeps, unheld>>

-----------------------------------------------------------------------------
ListenerStep == LoadInFlight \/ HoldLoop \/ Park \/ HoldTimeout \/ DidWake
TaskStep(t) ==
    \/ ReadGate(t) \/ ClearGate(t) \/ DeferDarkWake(t) \/ Claim(t) \/ Send(t)
    \/ Reply(t) \/ Release(t) \/ Notify(t)

Next ==
    \/ Raise \/ ListenerStep \/ Suspend \/ Resleep \/ Wake \/ LightsOn
    \/ Expire \/ SpendBudget
    \/ \E t \in Task : Start(t) \/ TaskStep(t)

\* Threads run while the machine does, an announced sleep comes, a machine
\* wakes, time passes, and every task tries a refresh again and again.
Fairness ==
    /\ WF_vars(ListenerStep) /\ WF_vars(Suspend) /\ WF_vars(Wake)
    /\ WF_vars(Expire) /\ WF_vars(SpendBudget)
    /\ \A t \in Task : WF_vars(TaskStep(t)) /\ SF_vars(Start(t) /\ pc'[t] = "defer")

Spec == Init /\ [][Next]_vars /\ Fairness

-----------------------------------------------------------------------------
TypeOK ==
    /\ os \in {"full", "dark", "asleep"} /\ waking \in BOOLEAN
    /\ listener \in {"idle", "load", "locked", "parking", "parked", "acked"}
    /\ gate \in {"none", "fresh", "expired"}
    /\ copy \in [Task -> {"none", "current", "old"}]
    /\ inFlight \in 0 .. 1
    /\ awake \subseteq Task
    /\ run \in {"none", "started", "spent"}
    /\ pc \in [Task -> {"idle", "peek", "clear peek", "defer", "clear defer", "dark", "claim",
                        "recheck", "clear recheck", "send", "wire", "release", "notify"}]
    /\ sleeps \in 0 .. MaxSleeps /\ unheld \subseteq Task

(* The machine sleeps with an exchange on the wire only after holding the   *)
(* acknowledgment for it until the time limit, or in a dark wake the OS let *)
(* nobody hold: a sleep sees the refresh's slot, or the refresh sees the    *)
(* sleep's gate.                                                            *)
NoStraddle == os = "asleep" => \A t \in Task \ unheld : pc[t] # "wire"

(* A listener parked on the drain condition has a refresh in flight or a    *)
(* wake-up on its way: the notify never falls between its check and park.   *)
NoLostWakeup == listener = "parked" /\ inFlight = 0 => \E t \in Task : pc[t] = "notify"

(* Whatever wakes are missed and however long a dark wake lasts, refreshes  *)
(* go out again and again: neither gate nor budget blocks them for good.    *)
RefreshResumes == []<>(\E t \in Task : pc[t] = "wire")
=============================================================================

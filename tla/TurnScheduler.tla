---------------------------- MODULE TurnScheduler ---------------------------
(***************************************************************************)
(* The turn scheduler of a session (SessionActor, session/acp_session_impl).*)
(*                                                                         *)
(* One actor loop serves client commands and turn completions, one at a    *)
(* time; each turn is a task of its own, and two more tasks can promote    *)
(* the queue: the startup task and a resumed plan approval.  Everything    *)
(* runs on one thread, so a step here is the code between two awaits at    *)
(* which another task can run.                                             *)
(*                                                                         *)
(* A message is submitted once and runs at most once, so a message also    *)
(* names its turn: the (prompt id, epoch, task identity) triple the code   *)
(* compares is equality of messages.                                       *)
(*                                                                         *)
(* Left out: runtime wakes and notifications, an active goal, and messages *)
(* of a parent agent.  Texts and row versions are abstracted: a queue      *)
(* edit's view of its row is fresh or stale by choice.                     *)
(***************************************************************************)
EXTENDS PromptQueue

CONSTANTS
    Interjections,  \* messages sent to interject
    Resumes,        \* messages queued by a resumed plan approval
    Startups,       \* startup tasks that promote once they are done: at most one
    FollowUpSteer,  \* ui.follow_up_behavior = steer
    CombineQueued,  \* ui.combine_queued_prompts
    Commands        \* the command families the clients use

ASSUME SchedulerAssumption ==
    /\ Messages = Prompts \cup Interjections \cup Resumes
    /\ Prompts \cap Interjections = {}
    /\ Prompts \cap Resumes = {}
    /\ Interjections \cap Resumes = {}
    /\ None \notin Startups /\ Startups \cap Messages = {}
    /\ None \notin [front : Messages \cup {None}, task : BOOLEAN]
    /\ FollowUpSteer \in BOOLEAN
    /\ CombineQueued \in BOOLEAN

VARIABLES
    queue,          \* State::pending_inputs
    running,        \* State::running_task
    gate,           \* State::finalization_gate: the lease it was claimed for
    holds,          \* State::edit_holds
    aged,           \* the holds older than EDIT_HOLD_TTL
    hookHold,       \* State::hook_block_hold
    rewindable,     \* State::rewindable
    committed,      \* State::front_message_committed
    pin,            \* SessionActor::current_prompt_id
    buffer,         \* SessionActor::pending_interjections
    waiting,        \* the turns counted by blocking_wait_depth
    turn,           \* how far each turn task is
    aborting,       \* turn tasks aborted and not yet dropped
    drawn,          \* what each turn's RestoreOnCancel guard holds
    completions,    \* completion_rx
    loop,           \* the actor loop: where it is and its locals
    helper,         \* the other two tasks that promote
    unsent,         \* messages their sender has not sent yet
    open,           \* prompts whose RPC is unanswered
    done,           \* messages disposed of
    outcomes        \* the terminals recorded for each turn

state == <<queue, running, gate, holds, aged, hookHold, rewindable, committed>>
turns == <<turn, aborting, drawn, waiting>>
book == <<unsent, open, done, outcomes>>
vars == <<state, pin, buffer, turns, completions, loop, helper, book>>

Starters == Resumes \cup Startups

Idle == [at |-> "idle", kind |-> "none", msg |-> None, lease |-> None,
         hand |-> <<>>, victim |-> None, pinned |-> None]

At(label) == loop.at = label

GoTo(label) == loop' = [loop EXCEPT !.at = label]

Return(label) == loop' = [Idle EXCEPT !.at = label]

(* A cancel that lost its lease does not kick the queue; the shutdown      *)
(* command ends the loop whatever its cancel did.                          *)
Unsettled == Return(IF loop.kind = "shutdown" THEN "closed" ELSE "idle")

Init ==
    /\ queue = <<>> /\ running = None /\ gate = None
    /\ holds = {} /\ aged = {} /\ hookHold = FALSE
    /\ rewindable = FALSE /\ committed = FALSE
    /\ pin = None /\ buffer = <<>> /\ waiting = {}
    /\ turn = [m \in Messages |-> "none"] /\ aborting = {}
    /\ drawn = [m \in Messages |-> <<>>] /\ completions = <<>>
    /\ loop = Idle
    /\ helper = [h \in Starters |-> IF h \in Resumes THEN "queue" ELSE "start"]
    /\ unsent = Messages /\ open = {} /\ done = {}
    /\ outcomes = [m \in Messages |-> <<>>]

-----------------------------------------------------------------------------
(* Shared pieces.                                                          *)

MessagesOf(s) == {s[i].msg : i \in DOMAIN s}

Live == {"intake", "committed", "loop", "wait", "drain", "blocked", "returned"}

Guarded == {"loop", "wait", "drain", "blocked"}   \* TurnSubagentScopeGuard exists

Alive(m) == turn[m] \in Live /\ m \notin aborting

(* Aborting a task that has finished does nothing.                         *)
Aborted(m) == IF m # None /\ turn[m] \in Live THEN aborting \cup {m} ELSE aborting

(* Mutant: the pin is cleared without looking whose it is.                 *)
UnpinnedAnyway(m) == None

Unpinned(m) == IF pin = m THEN None ELSE pin

(* What the restore guard leaves in the buffer.  Mutant: nothing.          *)
RestoredNothing(m) == buffer

Restored(m) == drawn[m] \o buffer

(* Answer the rows' RPCs and be done with them.                            *)
Dispose(ms) == open' = open \ ms /\ done' = done \cup ms

Record(m, outcome) ==
    outcomes' = IF m = None THEN outcomes
                ELSE [outcomes EXCEPT ![m] = Append(@, outcome)]

(* Mutant: a hold that goes leaves its stamp behind.                       *)
HoldingKeepsStamp(S) == holds' = S /\ aged' = aged

Holding(S) == holds' = S /\ aged' = aged \cap S

FrontAwaitingCommit == ~committed /\ queue # <<>> /\ running = queue[1].msg

(* Mutant: a turn still taking in its message is cancelled too.            *)
CancelsAnyTurn == running # None

SendNowCancels == running # None /\ ~FrontAwaitingCommit

RewindPoppable == queue # <<>> /\ queue[1].kind = "prompt"

Lease == [front |-> FrontMsg(queue), task |-> running # None]

BindingIsCurrent(lease) ==
    /\ gate = lease
    /\ FrontMsg(queue) = lease.front
    /\ running = IF lease.task THEN lease.front ELSE None

-----------------------------------------------------------------------------
(* The turn task.                                                          *)

(* The user message reaches the chat state.                                *)
TurnCommit(m) ==
    /\ Alive(m) /\ turn[m] = "intake"
    /\ turn' = [turn EXCEPT ![m] = "committed"]
    /\ committed' = TRUE
    /\ UNCHANGED <<queue, running, gate, holds, aged, hookHold, rewindable, pin, buffer,
                   aborting, drawn, waiting, completions, loop, helper, book>>

(* A slash command answers without running the model; only some of the     *)
(* commands mark the commit.                                               *)
TurnReturnEarly(m) ==
    /\ Alive(m) /\ turn[m] = "intake"
    /\ turn' = [turn EXCEPT ![m] = "returned"]
    /\ committed' \in {committed, TRUE}
    /\ UNCHANGED <<queue, running, gate, holds, aged, hookHold, rewindable, pin, buffer,
                   aborting, drawn, waiting, completions, loop, helper, book>>

(* The scope guard comes into being; without a commit when the chat state  *)
(* was unavailable.                                                        *)
TurnGuard(m) ==
    /\ Alive(m) /\ turn[m] \in {"intake", "committed"}
    /\ turn' = [turn EXCEPT ![m] = "loop"]
    /\ UNCHANGED <<state, pin, buffer, aborting, drawn, waiting, completions, loop,
                   helper, book>>

(* A prompt hook blocked the prompt: nothing queued may start on its own.  *)
TurnBlocked(m) ==
    /\ Alive(m) /\ turn[m] = "intake"
    /\ turn' = [turn EXCEPT ![m] = "blocked"]
    /\ hookHold' = TRUE
    /\ UNCHANGED <<queue, running, gate, holds, aged, rewindable, committed, pin, buffer,
                   aborting, drawn, waiting, completions, loop, helper, book>>

(* The first visible output closes the rewind window.                      *)
TurnOutput(m) ==
    /\ Alive(m) /\ turn[m] = "loop" /\ rewindable
    /\ rewindable' = FALSE
    /\ UNCHANGED <<queue, running, gate, holds, aged, hookHold, committed, pin, buffer,
                   turns, completions, loop, helper, book>>

(* Rows a steering turn takes out of the queue become interjections aimed  *)
(* at it; their RPCs are answered.                                         *)
Steered == IF FollowUpSteer /\ running # None
           THEN SteeredRows(queue, running, holds) ELSE {}

BufferAfterSteer(m) ==
    { buffer \o [i \in DOMAIN taken |-> [msg |-> taken[i].msg, aim |-> m]] :
        taken \in Keeping(queue, Steered) }

(* Mutant: the row stays queued.                                           *)
SteerKeepsRow ==
    /\ queue' = queue
    /\ open' = open \ {queue[i].msg : i \in Steered}

Steer ==
    /\ queue' \in Without(queue, Steered)
    /\ open' = open \ {queue[i].msg : i \in Steered}

(* A blocking wait; the tool call has been announced, so there was output. *)
TurnWait(m) ==
    /\ Alive(m) /\ turn[m] = "loop" /\ ~rewindable
    /\ Steer /\ buffer' \in BufferAfterSteer(m)
    /\ turn' = [turn EXCEPT ![m] = "wait"]
    /\ waiting' = waiting \cup {m}
    /\ UNCHANGED <<running, gate, holds, aged, hookHold, rewindable, committed, pin,
                   aborting, drawn, completions, loop, helper, unsent, done, outcomes>>

TurnWake(m) ==
    /\ Alive(m) /\ turn[m] = "wait"
    /\ turn' = [turn EXCEPT ![m] = "loop"]
    /\ waiting' = waiting \ {m}
    /\ UNCHANGED <<state, pin, buffer, aborting, drawn, completions, loop, helper, book>>

(* A safe point: steer, then take the whole buffer under a restore guard.  *)
TurnDrain(m) ==
    /\ Alive(m) /\ turn[m] = "loop"
    /\ Steer
    /\ \E entries \in BufferAfterSteer(m) :
         /\ entries # <<>>
         /\ drawn' = [drawn EXCEPT ![m] = entries]
    /\ turn' = [turn EXCEPT ![m] = "drain"]
    /\ buffer' = <<>>
    /\ UNCHANGED <<running, gate, holds, aged, hookHold, rewindable, committed, pin,
                   aborting, waiting, completions, loop, helper, unsent, done, outcomes>>

TurnSubmit(m) ==
    /\ Alive(m) /\ turn[m] = "drain"
    /\ turn' = [turn EXCEPT ![m] = "loop"]
    /\ done' = done \cup MessagesOf(drawn[m])
    /\ drawn' = [drawn EXCEPT ![m] = <<>>]
    /\ UNCHANGED <<state, pin, buffer, aborting, waiting, completions, loop, helper,
                   unsent, open, outcomes>>

(* The chat state was unavailable: the guard puts the entries back.        *)
TurnUnsubmitted(m) ==
    /\ Alive(m) /\ turn[m] = "drain"
    /\ turn' = [turn EXCEPT ![m] = "loop"]
    /\ buffer' = Restored(m)
    /\ drawn' = [drawn EXCEPT ![m] = <<>>]
    /\ UNCHANGED <<state, pin, aborting, waiting, completions, loop, helper, book>>

(* The scope guard drops before the turn's result is sent.                 *)
TurnEnd(m) ==
    /\ Alive(m) /\ turn[m] \in {"loop", "blocked"}
    /\ turn' = [turn EXCEPT ![m] = "returned"]
    /\ pin' = Unpinned(m)
    /\ UNCHANGED <<state, buffer, aborting, drawn, waiting, completions, loop, helper, book>>

TurnSend(m) ==
    /\ Alive(m) /\ turn[m] = "returned"
    /\ turn' = [turn EXCEPT ![m] = "sent"]
    /\ completions' = Append(completions, m)
    /\ UNCHANGED <<state, pin, buffer, aborting, drawn, waiting, loop, helper, book>>

(* The runtime drops an aborted task's future, and with it its guards.     *)
TurnDrop(m) ==
    /\ m \in aborting
    /\ aborting' = aborting \ {m}
    /\ turn' = [turn EXCEPT ![m] = "gone"]
    /\ pin' = IF turn[m] \in Guarded THEN Unpinned(m) ELSE pin
    /\ buffer' = Restored(m)
    /\ drawn' = [drawn EXCEPT ![m] = <<>>]
    /\ waiting' = waiting \ {m}
    /\ UNCHANGED <<state, completions, loop, helper, book>>

-----------------------------------------------------------------------------
(* Submitting a prompt.                                                    *)

(* SessionCommand::Prompt: the user re-engages, which lifts a hook hold.   *)
Prompt(p, now) ==
    /\ At("idle") /\ p \in unsent
    /\ now => "now" \in Commands
    /\ unsent' = unsent \ {p} /\ open' = open \cup {p}
    /\ hookHold' = FALSE
    /\ loop' = [Idle EXCEPT !.at = "queue", !.kind = IF now THEN "sendnow" ELSE "plain",
                            !.msg = p]
    /\ UNCHANGED <<queue, running, gate, holds, aged, rewindable, committed, pin, buffer,
                   turns, completions, helper, done, outcomes>>

(* A follow-up to a turn blocked in a wait is sent now, unless other human  *)
(* work is already queued.                                                  *)
AutoSendNow ==
    /\ FollowUpSteer /\ running # None /\ waiting # {}
    /\ \A i \in DOMAIN queue : DrainsAtShutdown(queue[i]) => queue[i].msg = running

(* Where the send-now command goes next: a cancel of the running turn, or  *)
(* straight to the promoter.                                               *)
AfterSendNow ==
    IF SendNowCancels THEN loop' = [Idle EXCEPT !.at = "flush", !.kind = "sendnow"]
                      ELSE Return("start")

QueueSendNow ==
    /\ At("queue") /\ (loop.kind = "sendnow" \/ AutoSendNow)
    /\ \E i \in SendNowSlots(queue, running) :
         queue' = InsertAt(queue, i, [msg |-> loop.msg, kind |-> "prompt", sendNow |-> TRUE])
    /\ AfterSendNow
    /\ UNCHANGED <<running, gate, holds, aged, hookHold, rewindable, committed, pin, buffer,
                   turns, completions, helper, book>>

QueueBehind ==
    /\ At("queue") /\ loop.kind = "plain" /\ ~AutoSendNow
    /\ queue' = Append(queue, [msg |-> loop.msg, kind |-> "prompt", sendNow |-> FALSE])
    /\ Return("start")
    /\ UNCHANGED <<running, gate, holds, aged, hookHold, rewindable, committed, pin, buffer,
                   turns, completions, helper, book>>

(* Interjections that missed their turn become rows at the head.           *)
FlushStranded ==
    /\ queue' = WithFallbacks(queue, running, buffer)
    /\ buffer' = <<>>

(* A send-now cancel keeps the interjections: it flushes them first.       *)
Flush ==
    /\ At("flush")
    /\ FlushStranded
    /\ GoTo("claim")
    /\ UNCHANGED <<running, gate, holds, aged, hookHold, rewindable, committed, pin,
                   turns, completions, helper, book>>

-----------------------------------------------------------------------------
(* Cancelling.  Kinds: "keep" a plain cancel, "stop" one that cancels the   *)
(* subagents, "named" a rewind of one prompt, "legacy" a rewind of whatever *)
(* runs, "sendnow", and "shutdown".                                         *)

(* SessionCommand::Cancel clears the interjections: the user wants a stop.  *)
Cancel(kind, name) ==
    /\ At("idle") /\ kind \in Commands
    /\ buffer' = <<>> /\ done' = done \cup MessagesOf(buffer)
    /\ loop' = [Idle EXCEPT !.kind = kind, !.msg = name,
                            !.at = CASE kind = "named"  -> "rewind"
                                     [] kind = "legacy" -> "teardown"
                                     [] OTHER           -> "claim"]
    /\ UNCHANGED <<state, pin, turns, completions, helper, unsent, open, outcomes>>

(* SessionCommand::Shutdown(CancelRunningTurn).                            *)
Shutdown ==
    /\ At("idle") /\ "shutdown" \in Commands
    /\ loop' = [Idle EXCEPT !.at = "claim", !.kind = "shutdown"]
    /\ UNCHANGED <<state, pin, buffer, turns, completions, helper, book>>

(* claim_cancel_finalization                                               *)
MayClaim == gate = None /\ (running = None \/ running = FrontMsg(queue))

Claim ==
    /\ At("claim")
    /\ IF MayClaim
       THEN gate' = Lease /\ loop' = [loop EXCEPT !.at = "teardown", !.lease = Lease]
       ELSE gate' = gate /\ Unsettled
    /\ UNCHANGED <<queue, running, holds, aged, hookHold, rewindable, committed, pin, buffer,
                   turns, completions, helper, book>>

(* Mutant: the removed rows' RPCs are not answered.                        *)
RowDropped(S) ==
    /\ queue' \in Without(queue, S)
    /\ done' = done \cup {queue[i].msg : i \in S} /\ open' = open

RowRemoved(S) ==
    /\ queue' \in Without(queue, S)
    /\ Dispose({queue[i].msg : i \in S})

(* A named rewind whose prompt is not the front drops the prompt's row if  *)
(* it is queued and not running; a stale name does nothing.                *)
RewindBehind ==
    /\ At("rewind") /\ FrontMsg(queue) # loop.msg
    /\ LET S == IF running = loop.msg THEN {} ELSE Positions(queue, loop.msg)
       IN  RowRemoved(S) /\ Holding(holds \ {queue[i].msg : i \in S})
    /\ Return("start")
    /\ UNCHANGED <<running, gate, hookHold, rewindable, committed, pin, buffer, turns,
                   completions, helper, unsent, outcomes>>

(* The front is taken before the teardown while its window is open.        *)
RewindFront ==
    /\ At("rewind") /\ FrontMsg(queue) = loop.msg
    /\ rewindable /\ RewindPoppable
    /\ aborting' = IF running = loop.msg THEN Aborted(running) ELSE aborting
    /\ running' = IF running = loop.msg THEN None ELSE running
    /\ rewindable' = FALSE
    /\ queue' = Tail(queue)
    /\ loop' = [loop EXCEPT !.at = "rewound", !.hand = <<Head(queue)>>]
    /\ UNCHANGED <<gate, holds, aged, hookHold, committed, pin, buffer, turn, drawn, waiting,
                   completions, helper, book>>

RewindClosed ==
    /\ At("rewind") /\ FrontMsg(queue) = loop.msg
    /\ ~(rewindable /\ RewindPoppable)
    /\ GoTo("teardown")
    /\ UNCHANGED <<state, pin, buffer, turns, completions, helper, book>>

(* finish_rewound_cancel, after the history was cut.                       *)
Rewound ==
    /\ At("rewound")
    /\ Dispose(MessagesOf(loop.hand))
    /\ Record(IF turn[loop.msg] = "none" THEN None ELSE loop.msg, "rewound")
    /\ Return("start")
    /\ UNCHANGED <<state, pin, buffer, turns, completions, helper, unsent>>

(* The awaits of the teardown begin; a stop aborts the task before them.   *)
Teardown ==
    /\ At("teardown")
    /\ aborting' = IF loop.kind \in {"stop", "shutdown"} /\ loop.lease # None /\ loop.lease.task
                   THEN Aborted(running) ELSE aborting
    /\ loop' = [loop EXCEPT !.at = "sweep", !.pinned = pin]
    /\ UNCHANGED <<state, pin, buffer, turn, drawn, waiting, completions, helper, book>>

(* After the awaits the cancel must still describe the queue: its lease's   *)
(* binding, or the prompt it named.                                         *)
StillCurrent ==
    /\ loop.lease # None => BindingIsCurrent(loop.lease)
    /\ loop.kind = "named" => FrontMsg(queue) = loop.msg

(* Otherwise it gives up and leaves the promoted turn alone.               *)
SweepLost ==
    /\ At("sweep") /\ ~StillCurrent
    /\ IF loop.lease # None THEN Unsettled ELSE Return("start")
    /\ UNCHANGED <<state, pin, buffer, turns, completions, helper, book>>

LegacyRewinds == loop.kind = "legacy" /\ rewindable /\ RewindPoppable

SweepRewind ==
    /\ At("sweep") /\ LegacyRewinds
    /\ aborting' = Aborted(running)
    /\ running' = None
    /\ rewindable' = FALSE
    /\ queue' = Tail(queue)
    /\ loop' = [loop EXCEPT !.at = "tail", !.kind = "rewound", !.victim = running,
                            !.hand = <<Head(queue)>>]
    /\ UNCHANGED <<gate, holds, aged, hookHold, committed, pin, buffer, turn, drawn, waiting,
                   completions, helper, book>>

(* Abort the turn and take the front row; shutdown takes them all.  Under  *)
(* a lease the task stays registered until the lease is released.          *)
(* Mutant: shutdown takes the front like any cancel.                       *)
SweepTakesFront == IF queue = <<>> THEN 0 ELSE 1

SweepTakes == IF loop.kind = "shutdown" \/ queue = <<>> THEN Len(queue) ELSE 1

SweepKeep ==
    /\ At("sweep") /\ StillCurrent /\ ~LegacyRewinds
    /\ aborting' = Aborted(running)
    /\ running' = IF loop.lease # None THEN running ELSE None
    /\ queue' = SubSeq(queue, SweepTakes + 1, Len(queue))
    /\ loop' = [loop EXCEPT !.at = "tail", !.victim = running,
                            !.hand = SubSeq(queue, 1, SweepTakes)]
    /\ UNCHANGED <<gate, holds, aged, hookHold, rewindable, committed, pin, buffer, turn, drawn,
                   waiting, completions, helper, book>>

(* The rest of the teardown: the turn's terminal, the end of its waits, the *)
(* answers to the rows taken.  A rewind holds no lease, so it drops the pin *)
(* here.                                                                    *)
NoTaskPinned == loop.lease # None /\ ~loop.lease.task /\ loop.lease.front = loop.pinned

(* The turn that gets the terminal.  Mutant: the one the pin named, which   *)
(* the scope guard may have cleared early.                                  *)
TerminalByPin == loop.pinned

Terminal == IF loop.victim # None \/ loop.kind = "rewound" THEN loop.victim
            ELSE IF NoTaskPinned THEN loop.lease.front ELSE None

Tailed ==
    /\ At("tail")
    /\ Record(Terminal, IF loop.kind = "rewound" THEN "rewound" ELSE "cancelled")
    /\ waiting' = IF loop.victim # None THEN {} ELSE waiting
    /\ pin' = IF loop.lease = None /\ loop.victim # None THEN Unpinned(loop.victim) ELSE pin
    /\ Dispose(MessagesOf(loop.hand))
    /\ IF loop.lease # None THEN loop' = [loop EXCEPT !.at = "release", !.hand = <<>>]
                            ELSE Return("start")
    /\ UNCHANGED <<state, buffer, turn, aborting, drawn, completions, helper, unsent>>

(* finish_finalization_lease: the task leaves the slot and the pin goes     *)
(* with it, then the gate opens.                                            *)
Release ==
    /\ At("release")
    /\ IF loop.lease.task /\ ~(gate = loop.lease /\ running = loop.lease.front)
       THEN Unsettled /\ UNCHANGED <<running, pin>>
       ELSE /\ running' = IF loop.lease.task THEN None ELSE running
            /\ pin' = IF loop.lease.front # None THEN Unpinned(loop.lease.front) ELSE pin
            /\ GoTo("finish")
    /\ UNCHANGED <<queue, gate, holds, aged, hookHold, rewindable, committed, buffer, turns,
                   completions, helper, book>>

Finish ==
    /\ At("finish")
    /\ IF gate = loop.lease /\ running = None
       THEN /\ gate' = None
            /\ hookHold' = (hookHold /\ loop.kind # "sendnow")
            /\ CASE loop.kind = "shutdown" -> Return("closed")
                 [] loop.kind = "complete" -> loop' = [Idle EXCEPT !.at = "settle",
                                                                   !.msg = loop.msg]
                 [] OTHER                  -> Return("start")
       ELSE Unsettled /\ UNCHANGED <<gate, hookHold>>
    /\ UNCHANGED <<queue, running, holds, aged, rewindable, committed, pin, buffer, turns,
                   completions, helper, book>>

-----------------------------------------------------------------------------
(* A turn's completion arrives.                                            *)

(* claim_task_finalization; the completion of a turn that a cancel already *)
(* finalized is dropped.                                                   *)
Complete ==
    /\ At("idle") /\ completions # <<>>
    /\ completions' = Tail(completions)
    /\ LET m == Head(completions)
       IN  IF gate = None /\ FrontMsg(queue) = m /\ running = m
           THEN /\ gate' = Lease
                /\ loop' = [Idle EXCEPT !.at = "pop", !.kind = "complete", !.msg = m,
                                        !.lease = Lease]
           ELSE UNCHANGED <<gate, loop>>
    /\ UNCHANGED <<queue, running, holds, aged, hookHold, rewindable, committed, pin, buffer,
                   turns, helper, book>>

Pop ==
    /\ At("pop")
    /\ IF FrontMsg(queue) = loop.msg
       THEN queue' = Tail(queue) /\ Dispose({loop.msg}) /\ Record(loop.msg, "completed")
       ELSE UNCHANGED <<queue, open, done, outcomes>>
    /\ GoTo("release")
    /\ UNCHANGED <<running, gate, holds, aged, hookHold, rewindable, committed, pin, buffer,
                   turns, completions, helper, unsent>>

(* Interjections the turn's last drain missed run next.                    *)
Settle ==
    /\ At("settle")
    /\ FlushStranded
    /\ Return("start")
    /\ UNCHANGED <<running, gate, holds, aged, hookHold, rewindable, committed, pin, turns,
                   completions, helper, book>>

-----------------------------------------------------------------------------
(* Promotion (maybe_start_running_task): a first look, awaits, then the     *)
(* decision under the lock.                                                 *)

NothingToStart == running # None \/ gate # None \/ queue = <<>>

(* Whether to merge is sampled at the first look.                          *)
FirstLook == IF NothingToStart THEN "none"
             ELSE IF CombineQueued /\ Len(queue) >= 2 THEN "combine" ELSE "promote"

Start ==
    /\ At("start")
    /\ Return(IF FirstLook = "none" THEN "idle" ELSE FirstLook)
    /\ UNCHANGED <<state, pin, buffer, turns, completions, helper, book>>

LiveHolds == (holds \cap MessagesOf(queue)) \ aged

(* Mutant: only the queue is looked at again after the awaits.             *)
MayPromoteUnchecked == queue # <<>> /\ ~hookHold

MayPromote == ~NothingToStart /\ ~hookHold

Promote(combine) ==
    /\ MayPromote /\ FrontMsg(queue) \notin LiveHolds
    /\ RowRemoved(IF combine THEN MergedRows(queue, LiveHolds) ELSE {})
    /\ Holding(LiveHolds)
    /\ running' = queue[1].msg
    /\ pin' = queue[1].msg
    /\ turn' = [turn EXCEPT ![queue[1].msg] = "intake"]
    /\ rewindable' = TRUE /\ committed' = FALSE
    /\ UNCHANGED <<gate, hookHold, buffer, aborting, drawn, waiting, completions, unsent,
                   outcomes>>

(* Expired holds go even when the front stays where it is.                 *)
Park ==
    /\ MayPromote => FrontMsg(queue) \in LiveHolds
    /\ Holding(IF MayPromote THEN LiveHolds ELSE holds)
    /\ UNCHANGED <<queue, running, gate, hookHold, rewindable, committed, pin, buffer, turns,
                   completions, book>>

LoopPromote ==
    /\ loop.at \in {"promote", "combine"}
    /\ Promote(At("combine")) \/ Park
    /\ Return("idle")
    /\ UNCHANGED helper

-----------------------------------------------------------------------------
(* The other promoters.  They live as long as the loop does.               *)

HelperQueue(h) ==
    /\ h \in Resumes /\ helper[h] = "queue" /\ ~At("closed")
    /\ queue' = Append(queue, [msg |-> h, kind |-> "resume", sendNow |-> FALSE])
    /\ unsent' = unsent \ {h}
    /\ helper' = [helper EXCEPT ![h] = "start"]
    /\ UNCHANGED <<running, gate, holds, aged, hookHold, rewindable, committed, pin, buffer,
                   turns, completions, loop, open, done, outcomes>>

HelperStart(h) ==
    /\ helper[h] = "start" /\ ~At("closed")
    /\ helper' = [helper EXCEPT ![h] = IF FirstLook = "none" THEN "off" ELSE FirstLook]
    /\ UNCHANGED <<state, pin, buffer, turns, completions, loop, book>>

HelperPromote(h) ==
    /\ helper[h] \in {"promote", "combine"} /\ ~At("closed")
    /\ Promote(helper[h] = "combine") \/ Park
    /\ helper' = [helper EXCEPT ![h] = "off"]
    /\ UNCHANGED loop

-----------------------------------------------------------------------------
(* Queue edits.  Every one but HoldEdit ends by kicking the promoter, and   *)
(* one that changed a row lifts a hook hold.                                *)

EditableRows(p) == {i \in Positions(queue, p) : IsEditable(queue[i]) /\ p # running}

(* RemoveQueuedPrompt; a remove that misses still clears a leaked hold.    *)
RemoveRow(p, fresh) ==
    /\ At("idle") /\ "remove" \in Commands /\ p \notin unsent
    /\ LET S == IF fresh THEN EditableRows(p) ELSE {}
       IN  RowRemoved(S) /\ hookHold' = (hookHold /\ S = {})
    /\ Holding(holds \ {p})
    /\ Return("start")
    /\ UNCHANGED <<running, gate, rewindable, committed, pin, buffer, turns, completions,
                   helper, unsent, outcomes>>

ReorderRows ==
    /\ At("idle") /\ "reorder" \in Commands
    /\ queue' \in Reorderings(queue, running)
    /\ hookHold' = (hookHold /\ queue' = queue)
    /\ Return("start")
    /\ UNCHANGED <<running, gate, holds, aged, rewindable, committed, pin, buffer, turns,
                   completions, helper, book>>

(* ClearQueue by one owner, or by None for every owner's rows.             *)
ClearRows(owner) ==
    /\ At("idle") /\ "clear" \in Commands
    /\ LET S == { i \in DOMAIN queue : /\ IsEditable(queue[i]) /\ queue[i].msg # running
                                       /\ owner \in {None, OwnerOf(queue[i])} }
       IN  RowRemoved(S) /\ hookHold' = (hookHold /\ S = {})
    /\ Return("start")
    /\ UNCHANGED <<running, gate, holds, aged, rewindable, committed, pin, buffer, turns,
                   completions, helper, unsent, outcomes>>

(* EditQueuedPrompt; blank text changes nothing but the hold.              *)
EditRow(p, blank) ==
    /\ At("idle") /\ "edit" \in Commands /\ p \notin unsent
    /\ hookHold' = (hookHold /\ (blank \/ EditableRows(p) = {}))
    /\ Holding(holds \ {p})
    /\ Return("start")
    /\ UNCHANGED <<queue, running, gate, rewindable, committed, pin, buffer, turns,
                   completions, helper, book>>

(* HoldEdit stamps a hold, afresh if there was one.  The running row is     *)
(* editable too.                                                            *)
HoldRow(p) ==
    /\ At("idle") /\ "hold" \in Commands
    /\ \E i \in Positions(queue, p) : IsEditable(queue[i])
    /\ holds' = holds \cup {p} /\ aged' = aged \ {p}
    /\ UNCHANGED <<queue, running, gate, hookHold, rewindable, committed, pin, buffer, turns,
                   completions, loop, helper, book>>

(* Mutant: releasing a hold does not kick the promoter.                    *)
ReleaseRowOnly(p) ==
    /\ At("idle") /\ "hold" \in Commands /\ p \notin unsent
    /\ Holding(holds \ {p})
    /\ UNCHANGED <<queue, running, gate, hookHold, rewindable, committed, pin, buffer, turns,
                   completions, loop, helper, book>>

ReleaseRow(p) ==
    /\ At("idle") /\ "hold" \in Commands /\ p \notin unsent
    /\ Holding(IF \E i \in Positions(queue, p) : IsEditable(queue[i])
               THEN holds \ {p} ELSE holds)
    /\ Return("start")
    /\ UNCHANGED <<queue, running, gate, hookHold, rewindable, committed, pin, buffer, turns,
                   completions, helper, book>>

(* InterjectQueuedPrompt: the row moves to the send-now slot; whether the   *)
(* running turn is cancelled was decided before the move.                   *)
SendRowNow(p, fresh) ==
    /\ At("idle") /\ "queuenow" \in Commands /\ p \notin unsent
    /\ Holding(holds \ {p})
    /\ IF fresh /\ EditableRows(p) # {}
       THEN /\ \E rest \in Without(queue, EditableRows(p)) :
                 \E i \in SendNowSlots(rest, running) :
                   queue' = InsertAt(rest, i, [msg |-> p, kind |-> "prompt", sendNow |-> TRUE])
            /\ hookHold' = (hookHold /\ SendNowCancels)
            /\ AfterSendNow
       ELSE Return("start") /\ UNCHANGED <<queue, hookHold>>
    /\ UNCHANGED <<running, gate, rewindable, committed, pin, buffer, turns, completions,
                   helper, book>>

(* Ten minutes pass: EDIT_HOLD_TTL.                                        *)
HoldAges(p) ==
    /\ p \in holds \ aged /\ ~At("closed")
    /\ aged' = aged \cup {p}
    /\ UNCHANGED <<queue, running, gate, holds, hookHold, rewindable, committed, pin, buffer,
                   turns, completions, loop, helper, book>>

(* Interject: the pin says whether a turn runs.  If none does, the text     *)
(* becomes a prompt of its own at the head of the queue.                    *)
Interject(m) ==
    /\ At("idle") /\ m \in unsent
    /\ unsent' = unsent \ {m}
    /\ IF pin # None
       THEN /\ buffer' = Append(buffer, [msg |-> m, aim |-> pin])
            /\ UNCHANGED <<queue, loop>>
       ELSE /\ queue' = WithFallbacks(queue, running, <<[msg |-> m]>>)
            /\ Return("start")
            /\ UNCHANGED buffer
    /\ UNCHANGED <<running, gate, holds, aged, hookHold, rewindable, committed, pin, turns,
                   completions, helper, open, done, outcomes>>

-----------------------------------------------------------------------------
TurnStep(m) ==
    \/ TurnCommit(m) \/ TurnReturnEarly(m) \/ TurnGuard(m) \/ TurnBlocked(m)
    \/ TurnOutput(m) \/ TurnWait(m) \/ TurnWake(m)
    \/ TurnDrain(m) \/ TurnSubmit(m) \/ TurnUnsubmitted(m)
    \/ TurnEnd(m) \/ TurnSend(m)

(* What the loop does once it has begun to serve a command or completion.  *)
LoopStep ==
    \/ QueueSendNow \/ QueueBehind \/ Flush \/ Claim
    \/ RewindBehind \/ RewindFront \/ RewindClosed \/ Rewound
    \/ Teardown \/ SweepLost \/ SweepRewind \/ SweepKeep \/ Tailed
    \/ Release \/ Finish \/ Pop \/ Settle
    \/ Start \/ LoopPromote

HelperStep(h) == HelperQueue(h) \/ HelperStart(h) \/ HelperPromote(h)

Command ==
    \/ \E p \in Prompts, now \in BOOLEAN : Prompt(p, now)
    \/ \E m \in Interjections : Interject(m)
    \/ \E kind \in {"keep", "stop", "legacy"} : Cancel(kind, None)
    \/ \E p \in Prompts \ unsent : Cancel("named", p)
    \/ Shutdown
    \/ \E p \in Prompts, fresh \in BOOLEAN : RemoveRow(p, fresh) \/ SendRowNow(p, fresh)
    \/ \E p \in Prompts, blank \in BOOLEAN : EditRow(p, blank)
    \/ \E p \in Prompts : HoldRow(p) \/ ReleaseRow(p)
    \/ ReorderRows
    \/ \E o \in {Owners[p] : p \in Prompts} \cup {None} : ClearRows(o)

Next ==
    \/ Command
    \/ Complete
    \/ LoopStep
    \/ \E h \in Starters : HelperStep(h)
    \/ \E m \in Messages : TurnStep(m) \/ TurnDrop(m)
    \/ \E p \in Prompts : HoldAges(p)

Spec == Init /\ [][Next]_vars

(* The runtime polls every ready task: the loop finishes what it began and *)
(* takes the completions it is sent, the promoters run, aborted futures    *)
(* are dropped.  How long a turn runs is up to the model.                  *)
Fairness ==
    /\ WF_vars(LoopStep) /\ WF_vars(Complete)
    /\ \A h \in Starters : WF_vars(HelperStep(h))
    /\ \A m \in Messages : WF_vars(TurnDrop(m))

FairSpec == Spec /\ Fairness

-----------------------------------------------------------------------------
Entry == [msg : Messages, aim : Messages]

Leases == [front : Messages \cup {None}, task : BOOLEAN] \cup {None}

Labels == {"idle", "queue", "flush", "claim", "rewind", "rewound", "teardown", "sweep", "tail",
           "release", "finish", "pop", "settle", "start", "promote", "combine", "closed"}

Loops == [at : Labels, msg : Messages \cup {None}, lease : Leases, hand : Seq(Row),
          victim : Messages \cup {None}, pinned : Messages \cup {None},
          kind : {"none", "plain", "sendnow", "keep", "stop", "named", "legacy",
                  "rewound", "shutdown", "complete"}]

QueueType ==
    /\ queue \in Seq(Row) /\ running \in Messages \cup {None} /\ gate \in Leases
    /\ holds \subseteq Prompts /\ aged \subseteq holds
    /\ hookHold \in BOOLEAN /\ rewindable \in BOOLEAN /\ committed \in BOOLEAN

TurnType ==
    /\ pin \in Messages \cup {None} /\ buffer \in Seq(Entry)
    /\ turn \in [Messages -> Live \cup {"none", "sent", "gone"}]
    /\ aborting \subseteq Messages /\ drawn \in [Messages -> Seq(Entry)]
    /\ waiting \subseteq Messages /\ completions \in Seq(Messages)

BookType ==
    /\ helper \in [Starters -> {"queue", "start", "promote", "combine", "off"}]
    /\ unsent \subseteq Messages /\ open \subseteq Prompts /\ done \subseteq Messages
    /\ outcomes \in [Messages -> Seq({"completed", "cancelled", "rewound"})]

(* Types of the session's state; a hold's stamp goes with the hold.        *)
TypeOK == QueueType /\ TurnType /\ loop \in Loops /\ BookType

(* While no finalization is under way, the running turn's row is the front  *)
(* of the queue, whatever clients reorder, remove, insert or interject: the *)
(* completion and cancel paths take the front for the running turn.         *)
RunningIsFront ==
    running # None /\ gate = None => FrontMsg(queue) = running

(* Where a message is: exactly one place holds it from submission on.  A    *)
(* prompt never both interjects and runs, and nothing is lost or doubled    *)
(* between the queue, the interjection buffer, a turn's restore guard and   *)
(* the rows a cancel took.                                                  *)
Copies(s, m) == Cardinality({i \in DOMAIN s : s[i].msg = m})

Places(m) ==
    Copies(queue, m) + Copies(loop.hand, m) + Copies(buffer, m)
      + Cardinality({t \in Messages : Copies(drawn[t], m) > 0})
      + (IF At("queue") /\ loop.msg = m THEN 1 ELSE 0)
      + (IF m \in done THEN 1 ELSE 0) + (IF m \in unsent THEN 1 ELSE 0)

OnePlace == \A m \in Messages : Places(m) = 1

(* A prompt's RPC is unanswered exactly while its row is queued or in hand: *)
(* no client waits for an answer that will not come, and none is answered   *)
(* while its row can still run.                                             *)
PromptRows(s) == {s[i].msg : i \in {j \in DOMAIN s : s[j].kind = "prompt"}}

AnsweredWhenGone ==
    open = PromptRows(queue) \cup PromptRows(loop.hand)
             \cup (IF At("queue") THEN {loop.msg} ELSE {})

(* A turn that began and is over has exactly one terminal, whichever of     *)
(* completion, cancel and rewind settled it; any other message has none.    *)
OneOutcome ==
    \A m \in Messages :
        Len(outcomes[m]) = IF turn[m] # "none" /\ m \in done THEN 1 ELSE 0

(* A turn task that nobody aborted is the registered one: promotion never   *)
(* overlaps two turns, and no path forgets a task it did not abort.         *)
OneLiveTurn == \A m \in Messages : Alive(m) => running = m

(* While a turn can still drain interjections the pin names it, so that an  *)
(* interjection is routed to it: no late guard of an aborted turn, and no   *)
(* cancel, takes the pin of its successor.                                  *)
LiveTurnPinned == \A m \in Messages : Alive(m) /\ turn[m] # "returned" => pin = m

(* A message sent now is never behind one that was not, except the running  *)
(* turn's own row.  Of a session whose clients do not reorder the queue: a  *)
(* reorder command places rows as it is told.                               *)
SendNowAhead ==
    \A i, j \in DOMAIN queue :
        i < j /\ queue[j].sendNow => queue[i].sendNow \/ (i = 1 /\ queue[1].msg = running)

(* A send-now never cancels a turn whose own message is not yet part of the *)
(* conversation, although the decision is taken several awaits earlier.     *)
SendNowSparesUncommitted ==
    [][aborting' \ aborting # {} /\ loop.kind = "sendnow" => committed]_vars

(* A shutdown that cancels answers every prompt.                           *)
ShutdownAnswersAll == At("closed") => open = {}

(* A front that may start is not left waiting: someone kicks the promoter   *)
(* after every step that made it startable.                                 *)
Startable ==
    /\ ~At("closed") /\ MayPromote
    /\ FrontMsg(queue) \notin holds

NoParkedQueue == Startable ~> ~Startable

-----------------------------------------------------------------------------
(* The scheduler implements PromptService: each message is submitted once   *)
(* and has at most one turn, one turn runs at a time, and a message that    *)
(* was withdrawn or interjected never runs.                                 *)
Status(m) ==
    IF m \in unsent THEN "unsent"
    ELSE IF running = m THEN "running"
    ELSE IF m \in done \/ turn[m] # "none" THEN "over"
    ELSE "waiting"

Service == INSTANCE PromptService WITH status <- [m \in Messages |-> Status(m)]

ImplementsService == Service!Spec

-----------------------------------------------------------------------------
(* What a comment says that the code does not do.                          *)

(* "An unsettled non-rewind cancel lost the finalization claim; the owner's *)
(* release re-kicks the queue": the gate, when claimed, has an owner.       *)
GateOwned == gate # None => loop.lease = gate
=============================================================================

----------------------------- MODULE WorkflowRun ----------------------------
(***************************************************************************)
(* One background workflow run: its journal (xai-workflow/src/journal.rs), *)
(* the engine that executes its script (engine.rs), the host service that  *)
(* serves the engine's calls, and the manager that pauses, stops and       *)
(* resumes the run (ezer-shell session/workflow: host_service.rs,          *)
(* manager.rs, tracker.rs).                                                *)
(*                                                                         *)
(* Every launch or resume is an episode: a thread with the engine, a host  *)
(* task and a watcher that applies the engine's outcome and saves it.  A   *)
(* paused or stopped episode retires on its own, while the user may resume *)
(* the run.                                                                *)
(*                                                                         *)
(* The script is a sequence of calls, the same in every episode, so that   *)
(* replay never diverges; a call stands for its kind and request hash.  An *)
(* answer is known by the episode that obtained it, a host error by its    *)
(* place in the journal: the code compares texts, so that here a script    *)
(* that catches an error and fails at once in words that quote it is one   *)
(* that does not catch it, and no two errors read the same.  Left out:     *)
(* reserve requests whose manifest cannot be written, the byte and entry   *)
(* caps (a full journal is an append that fails), the limit of four runs   *)
(* in a session, the roster and telemetry.                                 *)
(***************************************************************************)
EXTENDS Integers, Sequences, FiniteSets, SequencesExt

CONSTANTS
    Script,         \* the calls: [kind, n, catch], n agents for a parallel
    MaxEpisodes,    \* bound: launches and resumes
    Budget,         \* agent_budget at launch
    MaxBudget,      \* MAX_AGENT_BUDGET, the most a resume raises it to
    Faults,         \* the faults that happen
    MaxFaults,      \* bound: how many of them
    Overtaken       \* where an engine may be when a resume overtakes it

Stages == {"check", "call", "reserve", "wait", "release", "record", "done"}
Kinds == {"call", "agent", "parallel", "await"}

ASSUME WorkflowAssumption ==
    /\ Script \in Seq([kind : Kinds, n : Nat \ {0}, catch : BOOLEAN])
    /\ \A i \in 1 .. Len(Script) : Script[i].kind # "parallel" => Script[i].n = 1
    /\ MaxEpisodes \in Nat \ {0}
    /\ Budget \in Nat /\ MaxBudget \in Nat /\ Budget <= MaxBudget
    /\ Faults \subseteq {"crash", "append", "drain", "persist"}
    /\ MaxFaults \in Nat
    /\ Overtaken \subseteq Stages

VARIABLES
    file,           \* the lines of journal.jsonl
    status,         \* WorkflowRunState::status
    used, budget,   \* agents_used, agent_budget
    blame,          \* the call whose host error is the pause_message, 0 for none
    epoch,          \* the latest episode
    active,         \* the episode in WorkflowManager::active, 0 for none
    eng,            \* the engine of each episode
    host,           \* the host service of each episode
    cancelled,      \* the cancellation token of each episode
    intent,         \* pause_intent of each episode
    saving,         \* episodes whose watcher awaits persist_ack
    faults,         \* how many faults happened
    seen,           \* history: the answer the script got for each call
    forked,         \* history: calls that were answered in two ways
    stomped         \* history: a watcher interrupted its successor

run == <<status, used, budget, blame>>
vars == <<file, run, epoch, active, eng, host, cancelled, intent, saving, faults,
          seen, forked, stomped>>

Episode == 1 .. MaxEpisodes
\* The calls of the script, an agent of a parallel() each for itself.
Calls == UNION {{i} \X (1 .. Script[i].n) : i \in 1 .. Len(Script)}
MaxSeq == Cardinality(Calls)
Tags == {"ok", "killed", "error", "null", "dropped"}
Entry == [seq : 0 .. (MaxSeq - 1), agent : BOOLEAN, tag : Tags, by : Episode]
Forms == {"whole", "open", "torn", "bad"}
Statuses == {"Active", "UserPaused", "Paused", "BudgetLimited", "Interrupted",
             "Complete", "Failed", "Cancelled"}
Terminal == {"Interrupted", "Complete", "Failed", "Cancelled"}
Resumable == Statuses \ {"Active", "Interrupted", "Complete"}
Waiting == {"queued", "running"}

\* The tracker ignores an outcome once the run has one of these.
Settled == {"Interrupted", "Failed", "Cancelled"}

Off == [pc |-> "gone", step |-> 1, seq |-> 0, mem |-> <<>>, slots |-> <<>>,
        todo |-> <<>>, out |-> "none", err |-> 0]
Started(mem) == [Off EXCEPT !.pc = "check", !.mem = mem]

Init ==
    /\ file = <<>>
    /\ status = "Active" /\ used = 0 /\ budget = Budget /\ blame = 0
    /\ epoch = 1 /\ active = 1
    /\ eng = [e \in Episode |-> IF e = 1 THEN Started(<<>>) ELSE Off]
    /\ host = [e \in Episode |-> IF e = 1 THEN "serving" ELSE "gone"]
    /\ cancelled = [e \in Episode |-> FALSE]
    /\ intent = [e \in Episode |-> FALSE]
    /\ saving = {}
    /\ faults = 0
    /\ seen = [k \in 0 .. (MaxSeq - 1) |-> {}]
    /\ forked = {}
    /\ stomped = FALSE

Fault(kind) == kind \in Faults /\ faults < MaxFaults /\ faults' = faults + 1

-----------------------------------------------------------------------------
(* The journal                                                             *)

\* append_line on a file whose last line may lack its newline.
AppendLine(f, en, form) ==
    IF f # <<>> /\ Last(f).form # "whole"
    THEN [f EXCEPT ![Len(f)].form = "bad"]
    ELSE Append(f, [entry |-> en, form |-> form])

\* Journal::load accepts a dense file whose last line alone is unfinished.
Loads(f) ==
    \A i \in 1 .. Len(f) :
        /\ f[i].form = "whole" \/ (i = Len(f) /\ f[i].form \in {"open", "torn"})
        /\ f[i].form # "torn" => f[i].entry.seq = i - 1

(* Mutant: an unterminated last line is kept as it is.                     *)
RepairedUnterminated(f) == IF f # <<>> /\ Last(f).form = "torn" THEN Front(f) ELSE f

\* What load leaves: a torn tail is cut, an unterminated one terminated.
Repaired(f) ==
    IF f = <<>> THEN f
    ELSE IF Last(f).form = "torn" THEN Front(f)
    ELSE [f EXCEPT ![Len(f)].form = "whole"]

(* Mutant: any failed run loses its last entry.                            *)
PrunesAnyFailure(f) == status = "Failed" /\ f # <<>>

\* prune_trailing_host_error of a failed run, when that error failed it.
Prunes(f) ==
    /\ status = "Failed" /\ f # <<>>
    /\ Last(f).entry.tag = "error" /\ blame = Len(f)

Entries(f) == [i \in 1 .. Len(f) |-> f[i].entry]
AgentEntries(f) == Cardinality({i \in 1 .. Len(f) : f[i].entry.agent})

(* Mutant: a resume starts with nothing charged.                           *)
ReconciledNone(f) == 0

\* reconcile_agents_used: the agents charged at a resume.
Reconciled(f) == AgentEntries(f)

-----------------------------------------------------------------------------
(* The engine                                                              *)

Step(e) == Script[eng[e].step]
IsAgent(e) == Step(e).kind \in {"agent", "parallel"}

\* The calls of this step the journal does not cover.
LiveCount(e) ==
    LET left == eng[e].seq + Step(e).n - Len(eng[e].mem) IN
    IF left <= 0 THEN 0 ELSE IF left >= Step(e).n THEN Step(e).n ELSE left

(* Mutant: an engine that ends keeps the lines it had still to write.      *)
ExitedKeepsLines(r, out, err) == [r EXCEPT !.pc = "done", !.out = out, !.err = err,
                                           !.slots = <<>>]

Exited(r, out, err) == [r EXCEPT !.pc = "done", !.out = out, !.err = err,
                                 !.slots = <<>>, !.todo = <<>>]

HungUp(e) == host[e] \in {"gone", "stuck"}

\* A request is sent, unless the host has dropped its receiver.
Sent(e, r, pc, k) ==
    IF HungUp(e) THEN Exited(r, "Failed", 0)
    ELSE [r EXCEPT !.pc = pc, !.slots = [j \in 1 .. k |-> "queued"]]

\* The answers of the current step, all in the journal by now.
Answers(e, r) == SubSeq(r.mem, r.seq - Step(e).n + 1, r.seq)

\* The answers reach the script, which goes on, fails or pauses.
Delivered(e, r, recorded) ==
    LET a == Answers(e, r) IN
    IF \E i \in 1 .. Len(a) : a[i].tag = "dropped" THEN Exited(r, "Failed", 0)
    ELSE IF a[1].tag = "error" /\ ~Step(e).catch THEN Exited(r, "Failed", r.seq)
    ELSE IF Step(e).kind = "await" /\ recorded THEN Exited(r, "Paused", 0)
    ELSE [r EXCEPT !.pc = "check", !.step = @ + 1, !.slots = <<>>]

\* What the script has seen of each call.
Witness(e, r) ==
    LET a == Answers(e, r)
        new == {i \in 1 .. Len(a) : seen[a[i].seq] # {a[i]}} IN
    /\ seen' = [k \in DOMAIN seen |->
                    IF \E i \in 1 .. Len(a) : a[i].seq = k
                    THEN {a[k - r.seq + Len(a) + 1]} ELSE seen[k]]
    /\ forked' = forked \cup {a[i].seq : i \in {j \in new : seen[a[j].seq] # {}}}

Engine(e, r) == eng' = [eng EXCEPT ![e] = r]
SameHistory == UNCHANGED <<seen, forked, stomped>>

\* on_progress between two operations, and the end of the script.
Progress(e) ==
    /\ eng[e].pc = "check"
    /\ \/ cancelled[e] /\ Engine(e, Exited(eng[e], "Cancelled", 0))
       \/ /\ ~cancelled[e] /\ eng[e].step > Len(Script)
          /\ Engine(e, Exited(eng[e], "Completed", 0))
       \/ /\ ~cancelled[e] /\ eng[e].step <= Len(Script)
          /\ Engine(e, [eng[e] EXCEPT !.pc = "call"])
    /\ UNCHANGED <<file, run, epoch, active, host, cancelled, intent, saving, faults>>
    /\ SameHistory

\* A call whose answers are all in the journal.
Replay(e) ==
    LET r == [eng[e] EXCEPT !.seq = @ + Step(e).n] IN
    /\ eng[e].pc = "call" /\ LiveCount(e) = 0
    /\ Engine(e, Delivered(e, r, FALSE))
    /\ Witness(e, r) /\ UNCHANGED stomped
    /\ UNCHANGED <<file, run, epoch, active, host, cancelled, intent, saving, faults>>

NewEntry(e, r, i, tag) ==
    [seq |-> Len(r.mem) + i - 1, agent |-> IsAgent(e), tag |-> tag, by |-> e]

\* A call that goes to the host: agents are reserved first, await_user is
\* only recorded.
LiveCall(e) ==
    LET r == [eng[e] EXCEPT !.seq = @ + 1] IN
    /\ eng[e].pc = "call" /\ LiveCount(e) > 0
    /\ \/ IsAgent(e) /\ Engine(e, Sent(e, eng[e], "reserve", 1))
       \/ Step(e).kind = "call" /\ Engine(e, Sent(e, r, "wait", 1))
       \/ /\ Step(e).kind = "await"
          /\ Engine(e, [r EXCEPT !.pc = "record", !.todo = <<NewEntry(e, r, 1, "null")>>])
    /\ UNCHANGED <<file, run, epoch, active, host, cancelled, intent, saving, faults>>
    /\ SameHistory

\* The reply to a reservation: all agents of the step start, or the engine
\* ends.
Reserved(e) ==
    /\ eng[e].pc = "reserve" /\ eng[e].slots[1] \notin Waiting
    /\ Engine(e, CASE eng[e].slots[1] = "ok" ->
                        Sent(e, [eng[e] EXCEPT !.seq = @ + Step(e).n], "wait", LiveCount(e))
                   [] eng[e].slots[1] = "quota" -> Exited(eng[e], "BudgetExceeded", 0)
                   [] eng[e].slots[1] = "cancelled" -> Exited(eng[e], "Cancelled", 0)
                   [] OTHER -> Exited(eng[e], "Failed", 0))
    /\ UNCHANGED <<file, run, epoch, active, host, cancelled, intent, saving, faults>>
    /\ SameHistory

\* The tag under which an answer is journaled: agent() and the other calls
\* keep a failure as an error to throw again, parallel() as a null.
TagOf(e, s) ==
    CASE s = "failed" -> IF Step(e).kind = "parallel" THEN "null" ELSE "error"
      [] OTHER -> s

\* All replies are in.  A cancelled one discards the step and gives its
\* reservation back; otherwise every answer is to be recorded.
Answered(e) ==
    LET r == eng[e]
        s == r.slots
        gone == {j \in 1 .. Len(s) : s[j] \in {"cancelled", "dropped"}}
        first == s[CHOOSE j \in gone : \A k \in gone : j <= k]
        held == Step(e).n - Len(s) > 0
                /\ \E i \in r.seq - Step(e).n + 1 .. Len(r.mem) : r.mem[i].tag = "dropped"
        out == IF ~held /\ first = "cancelled" THEN "Cancelled" ELSE "Failed"
    IN
    /\ r.pc = "wait" /\ \A j \in 1 .. Len(s) : s[j] \notin Waiting
    /\ \/ /\ \E j \in gone : s[j] = "cancelled"
          /\ Engine(e, IF IsAgent(e) /\ ~HungUp(e)
                       THEN [r EXCEPT !.pc = "release", !.out = out, !.slots = <<"queued">>]
                       ELSE Exited(r, out, 0))
       \/ /\ gone # {} /\ \A j \in gone : s[j] = "dropped"
          /\ Step(e).kind # "parallel"
          /\ Engine(e, Exited(r, "Failed", 0))
       \/ /\ \A j \in gone : s[j] = "dropped"
          /\ gone = {} \/ Step(e).kind = "parallel"
          /\ Engine(e, [r EXCEPT !.pc = "record",
                            !.todo = [j \in 1 .. Len(s) |-> NewEntry(e, r, j, TagOf(e, s[j]))]])
    /\ UNCHANGED <<file, run, epoch, active, host, cancelled, intent, saving, faults>>
    /\ SameHistory

Released(e) ==
    /\ eng[e].pc = "release" /\ eng[e].slots[1] \notin Waiting
    /\ Engine(e, Exited(eng[e], eng[e].out, 0))
    /\ UNCHANGED <<file, run, epoch, active, host, cancelled, intent, saving, faults>>
    /\ SameHistory

\* Journal::record, line by line: on disk, then in memory; after the last
\* one the script has its answers.
Record(e) ==
    LET en == Head(eng[e].todo)
        r == [eng[e] EXCEPT !.mem = Append(@, en), !.todo = Tail(@)] IN
    /\ eng[e].pc = "record"
    /\ file' = AppendLine(file, en, "whole")
    /\ \/ /\ r.todo # <<>>
          /\ Engine(e, r) /\ UNCHANGED <<seen, forked>>
       \/ /\ r.todo = <<>>
          /\ Engine(e, Delivered(e, r, TRUE)) /\ Witness(e, r)
    /\ UNCHANGED <<run, epoch, active, host, cancelled, intent, saving, faults, stomped>>

\* What an interrupted append of en may leave behind.
PartialAppends(en) == {file} \cup {AppendLine(file, en, form) : form \in {"torn", "open", "whole"}}

\* The append fails, or the journal is full: fatal to the engine.
RecordFails(e) ==
    /\ eng[e].pc = "record"
    /\ Fault("append")
    /\ file' \in PartialAppends(Head(eng[e].todo))
    /\ Engine(e, Exited(eng[e], "Failed", 0))
    /\ UNCHANGED <<run, epoch, active, host, cancelled, intent, saving>>
    /\ SameHistory

-----------------------------------------------------------------------------
(* The host service                                                        *)

Slot(e, j, s) == eng' = [eng EXCEPT ![e].slots[j] = s]

\* The live calls of the step under way.
Unjournaled(e) == eng[e].seq - Len(eng[e].mem)

\* The next request is dispatched; reservations are answered at once.
HostTake(e) ==
    LET q == {j \in 1 .. Len(eng[e].slots) : eng[e].slots[j] = "queued"}
        j == CHOOSE i \in q : \A k \in q : i <= k IN
    /\ host[e] = "serving" /\ q # {}
    /\ \/ eng[e].pc = "wait" /\ Slot(e, j, "running") /\ UNCHANGED used
       \/ /\ eng[e].pc = "reserve" /\ used + LiveCount(e) > budget
          /\ Slot(e, j, "quota") /\ UNCHANGED used
       \/ /\ eng[e].pc = "reserve" /\ used + LiveCount(e) <= budget
          /\ Slot(e, j, "ok") /\ used' = used + LiveCount(e)
       \/ /\ eng[e].pc = "release"
          /\ Slot(e, j, "ok")
          /\ used' = IF used < Unjournaled(e) THEN 0 ELSE used - Unjournaled(e)
    /\ UNCHANGED <<file, status, budget, blame, epoch, active, host, cancelled, intent, saving, faults>>
    /\ SameHistory

\* The work is done; an agent notices the cancellation, unless the subagent
\* coordinator is gone by then, the others do not.
HostReply(e, j) ==
    /\ eng[e].pc = "wait" /\ j \in 1 .. Len(eng[e].slots)
    /\ eng[e].slots[j] = "running"
    /\ \/ /\ IsAgent(e) => ~cancelled[e]
          /\ \E s \in {"ok", "failed"} : Slot(e, j, s)
       \/ /\ IsAgent(e) /\ cancelled[e]
          /\ \E s \in {"cancelled", "failed"} : Slot(e, j, s)
    /\ UNCHANGED <<file, run, epoch, active, host, cancelled, intent, saving, faults>>
    /\ SameHistory

\* What the start of a drain makes of a slot of episode f.
Refused(e, f, s) ==
    CASE f = e /\ s = "queued" -> "cancelled"
      [] f # e /\ s = "running" /\ IsAgent(f) -> "killed"
      [] OTHER -> s

\* Cancelled, or the engine has hung up: refuse what is queued and drain.
\* The children of the run are cancelled by its id, those of a newer episode
\* too.
HostStop(e) ==
    /\ host[e] = "serving"
    /\ cancelled[e] \/ eng[e].pc = "done"
    /\ host' = [host EXCEPT ![e] = "draining"]
    /\ eng' = [f \in Episode |-> [eng[f] EXCEPT !.slots = [j \in DOMAIN @ |-> Refused(e, f, @[j])]]]
    /\ UNCHANGED <<file, run, epoch, active, cancelled, intent, saving, faults>>
    /\ SameHistory

(* Mutant: what was sent after the last refusal is never answered.         *)
HangUpForgets(s) == s

\* What was sent during the drain is dropped with the receiver.
HangUp(s) == IF s = "queued" THEN "dropped" ELSE s

HostDrained(e) ==
    /\ host[e] = "draining"
    /\ \/ host' = [host EXCEPT ![e] = "gone"] /\ UNCHANGED faults
       \/ host' = [host EXCEPT ![e] = "stuck"] /\ Fault("drain")
    /\ eng' = [eng EXCEPT ![e].slots = [j \in DOMAIN @ |-> HangUp(@[j])]]
    /\ UNCHANGED <<file, run, epoch, active, cancelled, intent, saving>>
    /\ SameHistory

-----------------------------------------------------------------------------
(* The watcher and the manager                                             *)

\* WorkflowTracker::apply_outcome.
ApplyOutcome(out, err) ==
    IF status \in Settled THEN UNCHANGED <<status, blame>>
    ELSE /\ status' = CASE out = "Completed" -> "Complete"
                         [] out = "Paused" -> "Paused"
                         [] out = "BudgetExceeded" -> "BudgetLimited"
                         [] OTHER -> out
         /\ blame' = IF out = "Failed" THEN err ELSE 0

(* Mutant: a watcher applies its outcome whoever is running.               *)
IsCurrentAlways(e) == TRUE

\* The epoch of the tracker is still the watcher's.
IsCurrent(e) == epoch = e

\* The watcher, once the host is gone: the outcome counts only while no
\* later episode has taken over, and is then to be saved.
Retire(e) ==
    /\ eng[e].pc = "done" /\ HungUp(e)
    /\ eng' = [eng EXCEPT ![e] = Off]
    /\ host' = [host EXCEPT ![e] = "gone"]
    /\ \/ ~IsCurrent(e) /\ UNCHANGED <<status, blame>>
       \/ /\ IsCurrent(e) /\ host[e] = "stuck"
          /\ status' = "Interrupted" /\ blame' = 0
       \/ /\ IsCurrent(e) /\ host[e] = "gone"
          /\ intent[e] /\ eng[e].out \in {"Cancelled", "Paused"}
          /\ status' = IF status = "Active" THEN "UserPaused" ELSE status
          /\ UNCHANGED blame
       \/ /\ IsCurrent(e) /\ host[e] = "gone"
          /\ ~(intent[e] /\ eng[e].out \in {"Cancelled", "Paused"})
          /\ ApplyOutcome(eng[e].out, eng[e].err)
    /\ cancelled' = [cancelled EXCEPT ![e] = FALSE]
    /\ intent' = [intent EXCEPT ![e] = FALSE]
    /\ saving' = saving \cup {f \in {e} : IsCurrent(f)}
    /\ UNCHANGED <<file, used, budget, epoch, active, faults>>
    /\ SameHistory

\* The watcher's manifest is on disk.
Save(e) ==
    /\ e \in saving
    /\ saving' = saving \ {e}
    /\ UNCHANGED <<file, run, epoch, active, eng, host, cancelled, intent, faults>>
    /\ SameHistory

\* It could not be written: the run is interrupted, whichever episode it is
\* in by now, and the manifest that says so is tried once.
SaveFails(e) ==
    /\ e \in saving /\ Fault("persist")
    /\ saving' = saving \ {e}
    /\ status' = "Interrupted" /\ blame' = 0
    /\ stomped' = (stomped \/ e # epoch)
    /\ UNCHANGED <<file, used, budget, epoch, active, eng, host, cancelled, intent, seen, forked>>

\* pause() of a running run.
Pause ==
    /\ status = "Active" /\ active # 0
    /\ cancelled' = [cancelled EXCEPT ![active] = TRUE]
    /\ intent' = [intent EXCEPT ![active] = TRUE]
    /\ active' = 0
    /\ status' = "UserPaused" /\ blame' = 0
    /\ UNCHANGED <<file, used, budget, epoch, eng, host, saving, faults>>
    /\ SameHistory

\* cancel() of a run that is not over, whether or not an engine runs.
Stop ==
    /\ status \notin Terminal \cup {"BudgetLimited"}
    /\ cancelled' = IF active # 0 THEN [cancelled EXCEPT ![active] = TRUE] ELSE cancelled
    /\ active' = 0
    /\ status' = "Cancelled"
    /\ UNCHANGED <<file, used, budget, blame, epoch, eng, host, intent, saving, faults>>
    /\ SameHistory

\* cancel_all_and_drain of a session that ends: the tracker learns of it from
\* the watcher, if that is not done already.
Shutdown ==
    /\ active # 0 /\ eng[active].pc # "gone"
    /\ cancelled' = [cancelled EXCEPT ![active] = TRUE]
    /\ active' = 0
    /\ UNCHANGED <<file, run, epoch, eng, host, intent, saving, faults>>
    /\ SameHistory

\* What launch() asks of the run, before it looks at the journal.
CanResume == status \in Resumable /\ (status = "BudgetLimited" => used < MaxBudget)

\* The entries a resume starts from: load, and prune if the run failed.
Kept == LET loaded == Repaired(file) IN IF Prunes(loaded) THEN Front(loaded) ELSE loaded

\* Nothing in launch() waits for the engine of the episode before; Overtaken
\* says how far it may have got.
Overtakes == \A e \in Episode : eng[e].pc \in Overtaken \cup {"gone"}

\* The run is taken over: load, prune, reconcile the agents, begin an
\* episode.  A budget-limited run needs a raised budget.
TakeOver(b) ==
    /\ CanResume /\ Loads(file) /\ Overtakes
    /\ epoch < MaxEpisodes
    /\ b >= budget
    /\ status = "BudgetLimited" => b > budget /\ Reconciled(Kept) < b
    /\ file' = Kept
    /\ seen' = IF Prunes(Repaired(file)) /\ Last(file).entry.tag = "error"
               THEN [seen EXCEPT ![Len(Kept)] = {}] ELSE seen
    /\ used' = Reconciled(Kept)
    /\ budget' = b
    /\ blame' = 0
    /\ epoch' = epoch + 1
    /\ UNCHANGED <<cancelled, intent, saving, forked, stomped>>

\* launch() of a resume.
Resume(b) ==
    /\ TakeOver(b)
    /\ status' = "Active" /\ active' = epoch + 1
    /\ eng' = [eng EXCEPT ![epoch + 1] = Started(Entries(Kept))]
    /\ host' = [host EXCEPT ![epoch + 1] = "serving"]
    /\ UNCHANGED faults

\* persist_now fails: the run is interrupted and no engine starts.  An entry
\* of an interrupted run in `active` is reaped before it is used.
ResumeUnsaved(b) ==
    /\ TakeOver(b) /\ Fault("persist")
    /\ status' = "Interrupted" /\ active' = 0
    /\ eng' = [eng EXCEPT ![epoch + 1] = Off]
    /\ UNCHANGED host

\* The budget is not raised: refused, with the journal already repaired and
\* the agents already reconciled.
ResumeRefused ==
    /\ status = "BudgetLimited" /\ CanResume /\ Loads(file) /\ Overtakes
    /\ file' = Kept
    /\ used' = Reconciled(Kept)
    /\ UNCHANGED <<status, budget, blame, epoch, active, eng, host, cancelled, intent, saving, faults>>
    /\ SameHistory

\* What a restored session makes of the run: an active one, or one whose
\* manifest was not yet written, is interrupted for good; the manifest of
\* one that is over may still say paused.
Restored == {"Interrupted"} \cup ({status} \ {"Active"})
            \cup (IF status \in Terminal THEN {"UserPaused", "Paused"} ELSE {})

\* The process dies, or ends after a shutdown whether or not it has drained,
\* and the session is restored.
Crash ==
    /\ Fault("crash")
    /\ file' \in {file} \cup UNION {PartialAppends(Head(eng[e].todo)) :
                                    e \in {f \in Episode : eng[f].pc = "record"}}
    /\ status' \in Restored
    /\ eng' = [e \in Episode |-> Off]
    /\ host' = [e \in Episode |-> "gone"]
    /\ cancelled' = [e \in Episode |-> FALSE]
    /\ intent' = [e \in Episode |-> FALSE]
    /\ saving' = {}
    /\ active' = 0
    /\ stomped' = FALSE
    /\ UNCHANGED <<used, budget, blame, epoch, seen, forked>>

-----------------------------------------------------------------------------
EngineStep(e) == \/ Progress(e) \/ Replay(e) \/ LiveCall(e) \/ Reserved(e)
                 \/ Answered(e) \/ Released(e) \/ Record(e)

HostStep(e) == \/ HostTake(e) \/ HostStop(e) \/ HostDrained(e)
               \/ \E j \in 1 .. MaxSeq : HostReply(e, j)

WatcherStep(e) == Retire(e) \/ Save(e)

Next ==
    \/ \E e \in Episode : \/ EngineStep(e) \/ RecordFails(e) \/ HostStep(e)
                          \/ WatcherStep(e) \/ SaveFails(e)
    \/ Pause \/ Stop \/ Shutdown \/ ResumeRefused \/ Crash
    \/ \E b \in Budget .. MaxBudget : Resume(b) \/ ResumeUnsaved(b)

\* The engine has a thread, the host and the watcher a task of their own; the
\* host's work ends by itself or by its timeouts, and the persistence task
\* answers a save or drops it.
Fairness == \A e \in Episode :
    WF_vars(EngineStep(e)) /\ WF_vars(HostStep(e)) /\ WF_vars(WatcherStep(e))

Spec == Init /\ [][Next]_vars /\ Fairness

-----------------------------------------------------------------------------
TypeOK ==
    /\ file \in Seq([entry : Entry, form : Forms])
    /\ status \in Statuses
    /\ used \in 0 .. MaxBudget /\ budget \in Budget .. MaxBudget
    /\ blame \in 0 .. MaxSeq
    /\ epoch \in Episode /\ active \in {0, epoch}
    /\ \A e \in Episode :
        /\ eng[e].seq \in 0 .. MaxSeq
        /\ eng[e].mem \in Seq(Entry)
        /\ eng[e].todo \in Seq(Entry)
        /\ eng[e].pc = "record" <=> eng[e].todo # <<>>
    /\ host \in [Episode -> {"serving", "draining", "stuck", "gone"}]
    /\ cancelled \in [Episode -> BOOLEAN] /\ intent \in [Episode -> BOOLEAN]
    /\ saving \subseteq Episode
    /\ faults \in 0 .. MaxFaults
    /\ forked \subseteq 0 .. (MaxSeq - 1)
    /\ stomped \in BOOLEAN

(* The journal always loads: whatever append was cut short, by whichever    *)
(* episode, the run can be resumed from all its finished calls.             *)
JournalLoads == Loads(file)

(* A call the script has an answer to is never answered otherwise in a      *)
(* later episode, except the host error a failed run is resumed to retry.   *)
SameAnswer == forked = {}

(* The agents journaled, with those the engine has started and not yet      *)
(* journaled, stay within the budget.                                       *)
AgentsWithinBudget ==
    LET out == IF eng[epoch].pc \in {"wait", "record"} /\ IsAgent(epoch)
               THEN Unjournaled(epoch) ELSE 0
    IN AgentEntries(file) + out <= budget

(* A run whose latest engine is at work and was told nothing is Active:     *)
(* the outcome of an earlier episode never marks it, however late its       *)
(* watcher comes.  One write gets past the epoch: a watcher that applied    *)
(* its outcome before the resume, and then fails to save it, interrupts the *)
(* run under the engine that has started since.                             *)
SuccessorKeepsStatus ==
    eng[epoch].pc \notin {"done", "gone"} /\ ~cancelled[epoch]
        => status = IF stomped THEN "Interrupted" ELSE "Active"

(* An engine told to stop leaves, and its watcher, its outcome saved, with  *)
(* it, so that its slot among the session's runs is free again.             *)
CancelledRetires ==
    []<>(\A e \in Episode : e \notin saving /\ (cancelled[e] => eng[e].pc = "gone"))
=============================================================================

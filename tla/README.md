# A TLA+ model of ezer's concurrent core

ezer is a coding agent: a terminal interface and other clients talk to a
session, the session runs *turns* in which a language model calls tools, and a
number of shared libraries carry the traffic. The repository is large (about
1.9 million lines of Rust). This project models the parts whose correctness
depends on the order of concurrent steps, on crashes, or on both:

* the **turn scheduler** of a session (`crates/codegen/ezer-shell/src/session`),
  which decides which queued prompt runs, and what happens to it and to
  everything queued behind it when a turn completes, is cancelled, is rewound,
  or is overtaken by another prompt;
* the **circuit breaker** (`crates/common/xai-circuit-breaker`), a lock-free
  state machine shared by the threads that upload files;
* the **refresh of sign-in tokens** (`crates/codegen/ezer-login`): several
  processes share one file and one single-use refresh token, and an exchange
  must not straddle a system sleep;
* the **election of the leader process** (`ezer-shell/src/leader`), through a
  lock file, a socket and a spawned subprocess;
* **background workflow runs** (`crates/codegen/xai-workflow`,
  `ezer-shell/src/session/workflow`), which are paused, resumed and replayed
  from a journal.

## 1. Inventory

| Component | State | Operations | What is hard, what makes it right |
|---|---|---|---|
| Circuit breaker (`breaker.rs`, `window.rs`) | six atomics and a sliding window under a mutex | `check`, `record`, `error_rate`, `is_open`, `state` | transitions of several atomics by several threads, probes that never record; the mirror agrees with the state, probes are bounded, no state is a dead end |
| Turn scheduler (`cancel.rs`, `turn_task.rs`, `turn_end.rs`, `turn.rs`, `notification_drain.rs`, `run_loop.rs`) | `State`: queue, running task, finalization gate, holds, flags; the pin `current_prompt_id` | promote, complete, cancel (plain, stop, send-now), rewind (named, legacy), shutdown | every handler awaits with the lock released; one turn at a time, one terminal for each turn, no prompt lost or left unanswered, no startable row left waiting |
| Prompt queue (`prompt_queue.rs`, `queue_mutation.rs`, `xai-prompt-queue`) | the rows, their order, edit holds | submit, send-now, steer, remove, reorder, clear, edit, hold, release, merge | clients edit while a turn owns the head; the running row is never displaced |
| Interjections (`interjection.rs`, `xai-interjection-core`) | a buffer drained by the running turn | interject, drain at a safe point, restore on abort, flush | a turn can be aborted while it holds the drained entries |
| Wakes and notifications (`notification_drain.rs`) | pending notifications, the wake barrier | push, sweep, drain | a cap that drops the oldest, a stop that suppresses wakes |
| Message delivery core | owned deliveries of parent-agent messages | admit, begin, finish, transition | a delivery must end exactly once, across a retry |
| Auth refresh (`ezer-login`: `manager.rs`, `refresh_chain.rs`, `oidc_refresher.rs`, `recovery.rs`, `manager/lock.rs`) | `auth.json`, its lock file, the cached token and the verdict of each process | refresh before a request or after a 401, adopt, exchange, apply, sign in, sign out | a single-use token shared by processes that crash, lose answers and fail to write; a token is spent once, the live one is never dropped, only a dead one is given up |
| Sleep gate (`sleep_gate.rs`) | the gate, the in-flight count, the deferral run | raise, hold the acknowledgment, lower, claim and release a slot | a power listener on its own thread against refreshes; no exchange straddles a sleep, and refreshing resumes whatever wake is missed |
| Interactive login single flight (`single_flight.rs`) | attempts with generations | begin, end, cancel | late finishers against their successors |
| File lock with acquire slot (`ezer-file-lock`), leader process (`leader/`, `agent/app.rs`) | the lock file, its inode, its flock, the PID in it, the socket, the slot | connect, acquire, spawn, bind, relaunch, evict, drop | files unlinked while others open them, leaders that die or hang at any point; one leader, and no client left in its loop |
| Workflow runs (`xai-workflow`, `session/workflow`) | the journal file, the run's status and budget, one engine, host task and watcher for each episode | record, replay, reserve, pause, stop, resume, restore | a crash in an append, a retiring episode that overlaps its successor; the journal loads, answers stay, the budget holds |
| Subagent attempt store | files | intent, completion, recovery | a crash between two records |
| Computer hub SDK | semaphores, reference counts, connections | admit, bind, reconnect | waiting with permits held, reconnect replay |
| Terminal interface, tools, configuration, hooks, plugins, telemetry | - | - | input/output and rendering; not modelled |

How the parts interact: clients send commands to the session's actor loop
(`run_loop.rs`), which serves one command or turn completion at a time. A turn is
a separate task that shares `State`, the pin and the interjection buffer with
the loop and reports its end through a channel. Two more tasks promote the
queue: the startup task and a resumed plan approval (which also appends a row).
All of these run on one thread, so they interleave exactly at awaits. The
breaker has no part in this; upload code calls it from many threads. Workflow
runs belong to a session but have a thread for their engine and tasks for host
and watcher; they meet the session through their tracker. Token refresh is
called by every request of every process, and meets the other processes only
through the files; so do the clients and leaders of an election. The modules of
these parts share no variables for that reason. `SleepGate` is consulted by the
refresh that `AuthRefresh` models; there its answer is a choice, since it only
decides whether a refresh starts.

The hazards list in `PROJECT.json` names each place where an order of steps,
a stale value, a dropped future or a limit can go wrong, with the properties
that look at it. Hazards of parts not yet modelled are listed with a note.

## 2. Modules

| Module | Models |
|---|---|
| `SlidingWindow` | the sample window: push at the cap, eviction, the failure counter |
| `CircuitBreaker` | the breaker with each call as one step |
| `CircuitBreakerThreads` | the same calls with every load, store, fetch-add, fetch-sub and CAS as a step |
| `CircuitBreakerHistory` | `CircuitBreakerThreads` with the time each sample was queued at, a history variable |
| `CircuitBreakerProofs` | theorems about `CircuitBreaker` |
| `CircuitBreakerThreadsProofs` | theorems about `CircuitBreakerThreads` and its history |
| `PromptQueue` | rows and the position arithmetic of queue operations |
| `TurnScheduler` | the session: loop, turns, promoters, commands |
| `PromptService` | the abstract promise of a session to the senders of messages |
| `TurnSchedulerProofs` | theorems about `TurnScheduler` |
| `PromptServiceProofs` | theorems about `TurnScheduler` as a service: where messages are, how turns end, the refinement of `PromptService` |
| `AuthRefresh` | token refresh by processes that share `auth.json` |
| `AuthRefreshProofs` | theorems about `AuthRefresh` |
| `SleepGate` | refreshes against the system's sleep, every shared access a step |
| `SleepGateProofs` | theorems about `SleepGate` |
| `LeaderElection` | `connect_or_spawn` and `run_leader` on the shared files, every system call a step |
| `LeaderElectionProofs` | theorems about `LeaderElection` |
| `WorkflowRun` | one workflow run: journal, engines, hosts, watchers, pause and resume |
| `WorkflowRunProofs` | theorems about `WorkflowRun` |
| `MC*` | symmetry sets, scenarios and constants for TLC |

### Circuit breaker

Variables are the fields of `CircuitBreakerInner`: `state`, `openedAt`,
`probes`, `claimedAt`, `isOpenFast`, `window`, plus the clock `now` and the
requests in flight. `admitted` is a history variable that counts the probes of the
current half-open period. Time is a natural number that `Tick` advances.
The error rate threshold is a fraction, compared by cross-multiplication.

`CircuitBreaker` takes `check` and `record` as atomic, which is what callers on
one thread see, since neither awaits. Requests overlap all the same, and `Drop`
abandons one between its `check` and its `record`. `CircuitBreakerThreads`
follows the program text between the atomic accesses with a program counter
for each thread; `half_open_probes` wraps at `UsizeModulus` as the unsigned counter does.
The accesses are Acquire/Release; the model interleaves them, which gives a
subset of the executions that weaker orderings allow, so what it shows to go
wrong does, and its passing properties hold for these interleavings.

Not modelled: a disabled breaker (`config.enabled`), which admits everything, records nothing and
changes no state; the observer callbacks, `with_observer`, and
`force_half_open`, which exists in test builds only. `error_rate` reads the clock before it
takes the window's lock, so in `CircuitBreakerThreads` it may evict against a time that has passed.

### Turn scheduler

State variables carry the name of the field they model in their declarations.
The actor loop is the record `loop`: `at` is the await it stands at, the other
fields are the locals that live across awaits (the lease, the rows taken, the
turn to report, the pin as it was sampled). A step is the code between two
awaits at which another task can run. The labels follow a command's way:

* a prompt: `queue`, then `start`, or `flush` and a send-now cancel;
* a cancel: `claim` (the finalization gate), `teardown` (the awaits begin),
  `sweep` (the decision under the lock, against a queue that may have changed),
  `tail`, `release`, `finish`;
* a named rewind: `rewind`, then `rewound`, or the teardown of a plain cancel when the window is closed; a
  legacy rewind enters at `teardown` and takes no lease;
* a completion: `pop`, `release`, `finish`, `settle`;
* promotion: `start` (the first look), then `promote` or `combine` (the
  decision under the lock).

A turn task goes through `intake`, `committed`, `loop` (with `wait` and `drain`
inside it), `returned` and `sent`; an abort puts it in `aborting`, and
`TurnDrop` is the moment the runtime drops its future with its guards: the scope
guard clears the pin only if it still names this turn, and the restore guard
puts drained interjections back.

Abstractions: a message is submitted once and runs at most once, so a message
names its turn, and the triple (prompt id, epoch, task identity) that leases and
bindings compare is equality of messages. Row texts and versions are left out;
an edit's version check succeeds or fails by choice (`fresh`). `unsent`, `open`,
`done` and `outcomes` are book-keeping of what senders observe: which messages
were sent, which RPCs are unanswered, which messages are disposed of, and the
terminals recorded for each turn.

Not modelled: runtime wakes, notifications and the wake barrier; an active goal
(which can absorb prompts and changes what a send-now does); messages of a parent
agent, whose rows are protected; graceful shutdown; what a cancel does to subagents,
terminals, usage records and the conversation history.

### Token refresh

A credential is the number of its minting. `disk` is the entry in `auth.json`,
`mem` what each process has cached, `verdict` its permanent-failure verdict,
`call` where each caller is in `refresh_chain`, and `lockFile` the generation of
the lock file, so that a holder can be left with an unlinked one. The identity
provider is external: `succ` says which credential replaced which, and an
exchange of a replaced token is rejected. The program points are those between
awaits: entering (with the verdict's short cut), the recheck under
`refresh_lock`, the flock or its timeout, the revalidation of the lock, the send,
the answer (granted, failed, lost or rejected, with the retry from disk) and
the outcome being applied. Around them go adoption of a sibling's token, recovery
from a 401, the enrichment task, sign-in (which saves without the lock), sign-out,
expiry, and the ageing of verdicts. A sign-out whose write fails clears nothing; one that cannot
read `auth.json` clears memory only. `unsafe` is a history variable: the credentials that had no
fair chance to be written, because the answer was lost, the process died or
could not write, the lock file was unlinked, or a sign-in or sign-out
replaced them. A caller whose lock file was replaced saves an answer that may be several
rotations old by then; what it drives from the disk, and the successor of what it puts
back, count as unsafe too (`Clobbered`). The second of these needs more rotations than the
instance has; the proof of `TokenSpentOnce` found it missing. The branch of `EnterChain` that adopts under a
verdict is the code's second line of defence; in the instance the verdict goes
first.

### Sleep gate

The gate is `none`, `fresh` or `expired`; the identity of a raise, which the code
compares by its instant, is kept as whether a reader's copy is still current. The
listener's way through `set_system_sleep_imminent` and its condition variable is
spelled out (load, lock, check, park), since the lost wake-up is between
these. A wake may be delivered or missed, full or dark; a dark wake goes
back to sleep without an announcement unless someone holds it awake. The power assertion may be
refused, and the exchange goes on without it. `unheld` is a history variable: the exchanges the
listener gave up waiting for, and those that got no assertion.

### Leader election

Lock files are numbered inodes, so that an unlinked file can still be open and
locked. `stamp` is the PID in each file, `flock` its holder, `sock` the process whose
listener the path names, `slot` the machine-local acquire slot around open and
try_lock. A leader that hangs keeps its locks; a killed one loses them and leaves its
files. Exit and `LeaderLock::drop` are separate steps in the code's
order: lock file, socket, lock. The server task removes the socket too
(`RemoveSocket`), and nobody waits for it: it does so before or during the drop. `raced` records that a
lock attempt overlapped such a drop. The drop unlinks by path, so a leader that takes
the lock in between can lose its socket or share the machine with another leader;
`OneLeaderUnlessRaced` says that this is the only way.

A client that finds a stale leader behind the flock asks it to vacate: `Ask` registers and sends
the control request, `Vacated` is the answer (accepted, or declined by a leader already on its way) or
the end of the connection, and `asked` is the leader in between. A leader that does not know the
request (`Legacy`) gets a SIGTERM at the PID on file instead (`Signal`). The await of the answer has no
timeout (`client.rs:218`), so a leader that hangs after it registered the client keeps it; so
does a connection that closed between the registration and the insertion of the request, since the read loop
has then cleared the pending requests already. `Unanswered` names these two, and `ClientSettles` excepts
them.

Where `/proc/locks` does not exist, `live_ezer_lock_holder` answers None and no leader is ever evicted as a
zombie; the model is of a system that has it. A wait for the socket is taken as one step at
its deadline, which may report an error of an earlier attempt.

### Workflow runs

`file` is the journal, line by line, each line whole, torn, unterminated
or spoiled. Each launch or resume is an episode with an engine (`eng`: its
program point, its copy of the journal, the replies it waits for), a host service
and a watcher. The script is a sequence of calls of four kinds. Pause and stop
cancel the episode's token and take it out of `active`; the engine notices at its next check
or reply and its watcher applies the outcome if no later episode has the run (`Retire`), then saves it (`Save`,
`SaveFails`; `saving` has the episodes whose watcher awaits the save). A save that fails interrupts the run
whoever runs it by then; `stomped` remembers that it hit a later episode. A resume whose own
save fails interrupts the run before an engine starts (`ResumeUnsaved`), the end of a session cancels it
(`Shutdown`), and a restored session finds an older status than the last one where the manifest was not written
(`Restored`). The start of a host's drain cancels the agents of the run by its id, those of a later episode
too (`Refused`). A host error is known by its call where the code compares texts, and the limit of four runs
in a session is left out: one run is modelled.
`Overtaken` says at which points an engine may be when a resume overtakes it: the
code sets no limit, which is what run `workflow_resume` shows to go wrong, so
the passing run lets a resume overtake the watcher and the host but not an
engine at work.

### Abstract specification

`PromptService` knows one variable, the status of each message: unsent, waiting,
running or over. A message is submitted once, then either has one turn or is
withdrawn (removed, cleared, merged into another turn, interjected); at most
one turn runs, and what was withdrawn never runs. `TurnScheduler` maps to it by
`Status`; run `turns_cancel` checks that every step is a step of the service
or leaves it alone, and `SchedulerImplementsService` proves it.

## 3. Runs

Passing runs:

| Run | Properties | Instance |
|---|---|---|
| `breaker_calls` | `TypeOK`, `WindowCounted`, `MirrorAgrees`, `ProbeSlots`, `FreshLease`, `ProbeBudget` | 3 requests, 2 probe slots, window of 3, time to 8: two full open/half-open cycles with takeovers |
| `breaker_threads` | `TypeOK`, `CounterNearRange`, `NotStranded`, `OpenIsLeft` | 2 threads, every atomic access, time to 2, fair |
| `turns_cancel` | `OnePlace`, `SendNowAhead`, `ShutdownAnswersAll`, `SendNowSparesUncommitted`, `ImplementsService` | 2 prompts, 1 interjection, steering and merging; send-now, stop, plain cancel, shutdown |
| `turns_rewind` | `OneOutcome`, `OneLiveTurn`, `LiveTurnPinned` | 1 prompt, 1 interjection and a resumed plan approval; plain and stopping cancels, named and legacy rewinds |
| `turns_edit` | `TypeOK`, `RunningIsFront`, `AnsweredWhenGone` | 3 prompts, one a bash command, merging; every queue edit |
| `turns_live` | `NoParkedQueue` | 2 prompts, the startup promoter; stop, send-now, holds; fair |
| `auth_refresh` | `TypeOK`, `SpentOnce`, `NoLostRotation`, `VerdictOnDeadToken` | 2 processes with a caller each, 3 credentials; each kind of fault or user command alone, and a failed write after a revocation |
| `sleep_gate` | `TypeOK`, `NoStraddle`, `NoLostWakeup`, `RefreshResumes` | 2 tasks, 3 sleeps; fair; deadlock is checked |
| `leader` | `TypeOK`, `OneLeaderUnlessRaced`, `StampOutlivesNoHolder`, `ClientSettles` | 2 clients, an old leader that serves or not and can relaunch or not, a new one; one exit, kill or hang; fair |
| `workflow` | `TypeOK`, `JournalLoads`, `SameAnswer`, `AgentsWithinBudget`, `SuccessorKeepsStatus`, `CancelledRetires` | a host call, 2 agents in parallel, an agent, `await_user`; 2 episodes, a budget of 2 or 3; one crash, failed append, failed save or stuck drain; fair |

Runs that TLC refutes, each about a sentence in the code (the findings in
`PROJECT.json` quote it):

| Run | Property | What happens |
|---|---|---|
| `turns_gate` | `GateOwned` | an idle cancel loses its binding to a resumed approval and leaves the gate claimed |
| `workflow_resume` | `JournalLoads` | a resume overtakes an engine that has still an answer to record; two engines append the same entry and the journal no longer loads |

What else the models show and no run checks as a property:

* `breaker.rs:252`: `trip` publishes Open before it stores `opened_at`. A check in between measures
  the cool-down from the opening before and may take the breaker to HalfOpen at once. Then `half_open_probes`
  is not yet zeroed, against the comment at `breaker.rs:211` ("It is already 0"), and the trip's store
  of the mirror comes last: `is_open` answers true in HalfOpen with nobody inside a call, against "mirror
  of `state == Open`" (`breaker.rs:41`). TLC reaches both with two threads.
* `breaker.rs:210`: a trip between another thread's CAS to HalfOpen and its store of the
  mirror leaves the breaker Open with the mirror false and nobody inside a call; a late
  prober raises the slot counter while the breaker is Open; and a sample
  pushed late stays counted behind a younger one after it has expired (for at most one window
  after it was queued: `NoSampleOverstays`, section 4).
* `run_loop.rs:2070`: a named rewind during intake leaves the pin, and the next interjection
  is buffered for no turn.
* `run_loop.rs:2384`: entries restored by an aborted turn are flushed by its successor's
  completion.
* `notification_drain.rs:284`: no timer looks at an expired edit hold.
* `leader/lock.rs:271`: the race named by `raced`.
* `leader/mod.rs:1098`: a request to vacate is called "Best-effort and non-waiting", but
  `request_leader_vacate` awaits the answer, without a timeout, and can wait for ever (`Unanswered`).
* `manager.rs:479`: the watcher's interrupt after a failed save has no epoch check. A run resumed during
  the save is marked Interrupted while its engine works, which the comment at
  `manager.rs:401` wants to rule out ("or a quick resume could let this stale watcher stomp the
  successor"). `SuccessorKeepsStatus` names it (`stomped`) and says that it is the only such write; without
  the exception TLC violates it.
* `host_service.rs:731`: the host of a retired episode cancels the agents of the run's next
  episode, whose script then sees them killed.

**Bounds.** Each message is submitted once, so the instances are finite without
further bounds; `Commands` chooses the families of commands a run explores, so
that a run asks one question and stays within about two million states. Two turns
suffice for a successor to meet the remains of its predecessor; a third is
there where positions behind the front matter (reordering, merging). One interjection meets
every point of the drain. A single resumed approval or startup task is all the code
spawns. Edit-hold age is one bit, since only its being older than the limit
matters. In the breaker `MaxTime` bounds the clock and leaves room for two periods of each
duration; `UsizeModulus` is 8 so that wrapping happens.
Three credentials are a chain in which the middle one is both a successor and spent, and
two processes are all that meet at one lock. `Scenarios` lists which faults happen together; each happens
once, at any point. Three sleeps let the remains of one meet the next; two
episodes let a retired one meet its successor; four lock files let every leader's drop
be followed by a new file. One leader can be spawned: when it is used up, a further spawn fails or starts a process
that dies at once, so that the bound on spawns, and not the supply of processes, ends the loop. (Two
fresh leaders that compete are covered by the proof of `OneLeader`, which is for any number.) The largest
instances are `leader` with 702,441 states, `workflow` with 699,285 and `auth_refresh` with 1,465,747.
A leader that hangs while it writes its PID is left out of
`HangAt`: its stamp is missing, so no client can confirm it as the holder, none evicts it, and
all wait for it, which `mod.rs:1229` accepts on purpose.

**Symmetry** permutes requests, threads, or the plain prompts of one client, and is
used in safety runs only.

**Deadlock.** `sleep_gate` runs for ever and checks deadlock. The other instances end when the messages are used up, the clients settled, the run over or the clock at
its bound, so deadlock is not checked; the liveness runs look for what would
matter.

**Fairness.** For the scheduler, the runtime polls every ready task: weak
fairness of the loop's steps once a command began, of taking a completion from
the channel, of the other promoters, and of dropping aborted futures. Nothing
makes a turn progress, a client send a command, or a hold age. For the breaker:
the clock, the steps of a thread inside a call, and further calls of `check`
(traffic); an admitted request need never record. For the sleep gate: threads run while
the machine does, an announced sleep comes, a machine wakes, time passes, and tasks
try again (strong fairness of the start, since `refresh_lock` may be held each time a task
looks; it is fair and first-come). For the leader: every process that can
move does, a leader that accepted a relaunch leaves after its grace, one that does not hang answers or closes its connections, and the poll for the lock has a
deadline; nothing makes a leader exit, die or hang. For a workflow: the engine has its thread and the host and the watcher their tasks, the
work of the host ends by itself or by its timeouts, and the persistence task answers a save or drops it; nobody need pause or resume.

**Mutants.** Every property of a passing run is paired with a mutated definition, named
and commented beside the original, that breaks it: the pin cleared without
looking, a recheck after the awaits left out, the restore guard doing nothing,
a terminal keyed on the pin, and so on.

## 4. Proofs

Everything here holds for every value of the constants that satisfies the named assumptions
(`SchedulerAssumption`, `QueueAssumption`, `BreakerAssumption`, `WindowAssumption`,
`SleepAssumption`, `AuthAssumption`, `ElectionAssumption`, `WorkflowAssumption`), which say no more than that
bounds are natural numbers, durations and limits positive, and the marks for "none" no
members of the sets they are added to, and for workflows that a script is a sequence of steps of the
known kinds. A proof has one lemma for each action, under it one step for each part of the
invariant the action can disturb, and lemmas on the operators before them.

`CircuitBreakerProofs`, all six invariants of run `breaker_calls`:

* `MirrorFollows` (`MirrorAgrees`), `SlotsOnlyHalfOpen` (`ProbeSlots`), `LeaseIsFresh` (`FreshLease`)
  and `BreakerTyped` (`TypeOK`), which together are inductive.
* `WindowStaysCounted` (`WindowCounted`): the running failure counter is the number of failures
  in the window. Pushing, evicting from the front and dropping at the cap each change the
  sequence at an end; the lemmas relate the set of failed positions before and after through a
  shift, a bijection, so that no induction over the sequence is needed. That eviction
  stops is a least position, from the well-foundedness of the naturals.
* `BoundedProbing`: `ProbeBudget`, the bound on the probes of a half-open
  period. It is not inductive: a takeover is admitted by the age of the
  last claim, which `ProbeBudget` does not mention. `IInv` adds
  `TakeoversSpaced`, which bounds the takeovers so far by the time between the opening and the
  last claim, and each takeover adds at least one `OpenDuration` to both sides.

`CircuitBreakerThreadsProofs`, for any finite number of threads:

* `ThreadsTyped` (`TypeOK`): no thread stores a time that has not come, and the
  window stays a queue of samples though they are pushed out of time order. It is inductive with the type of the clock.
* `CounterStaysNear` (`CounterNearRange`): the wrapping probe counter does not drift. Each step into
  `probe_sub` raises the counter and the number of claims being undone together and each step
  out of it lowers both, so that only the zeroing of the counter moves them apart, by at most the
  number of threads. `MirrorAgrees` and `ProbeSlots`, proved above for calls that do not overlap,
  have no counterpart here (section 3, `breaker.rs:252`).
* `NoSampleOverstays` (`HistorySpec => CountsOnlyRecent`, an action property of `CircuitBreakerHistory`): whatever
  `record` counts in deciding to trip was queued within `window_duration` before its reading of the clock, for any
  number of threads and any cap. A thread reads the clock before it takes the mutex, so the samples' own times
  are not in queue order, and `evict` stops at the first young one; an expired sample can stay
  behind it. The times of queueing are in queue order, and none is earlier than the sample's own
  (`Dated`), so the young front vouches for all behind it. The history variable keeps the queueing times, which
  the program does not; no run has it, since it needs a window of two samples and
  multiplies the states of `breaker_threads` beyond what its liveness properties allow.

`TurnSchedulerProofs`:

* `TypeCorrect`: `TypeOK` is invariant, among it that a hold's stamp goes with
  the hold and that every queue operation leaves a queue of rows.
* `RunningAtFront`: `RunningIsFront`. Completion and cancel act on the
  head of the queue and on the running task as if they belonged together;
  this is why they may. `IInv` is `TypeOK`, `RunningIsFront` and `InHand`, which says
  what the loop carries at the two labels where a later step uses it: the prompt
  about to be queued, and at `pop` a claimed gate, under which the head may leave.
  The queue lemmas come first (what `Keeping`, `InsertAt`, `WithFallbacks` and
  `Reorderings` do to the head and to the type), then one lemma for each action.

`PromptServiceProofs`, on top of it, for any messages, clients, promoters and families of commands:

* `MessagesConserved` (`OnePlace`), `RpcFollowsRow` (`AnsweredWhenGone`), `OneTerminal` (`OneOutcome`),
  `TurnsDoNotOverlap` (`OneLiveTurn`), `PinFollowsTurn` (`LiveTurnPinned`).
* `GateHasOwner` (`GateOwned`) and `ShutdownAnswers` (`ShutdownAnswersAll`), for a session without a resumed
  approval (`Resumes = {}`). The first is the property that run `turns_gate` refutes with one, so
  the proof says that a resumed approval is the only cause. A gate left claimed keeps
  the answer of a shutdown from being settled, so the second has the same hypothesis.
* `SendNowSpares`: the action property `SendNowSparesUncommitted`.
* `SendNowStaysAhead` (`SendNowAhead`), where clients do not reorder the queue by hand (`"reorder" \notin Commands`,
  as in run `turns_cancel`): a reorder may put any row before one sent now, and is
  meant to. Nothing re-sorts the queue, so the order rests on where each insertion goes: behind the
  running row and the send-nows, at a position computed from the queue of that moment. One lemma for each way
  the queue changes (a row dropped, a prefix cut off, rows spliced in, a run of rows merged into one, the head
  taken), then one for each family of actions; `Life` supplies what the loop carries when it
  inserts or pops, and that whoever releases a turn leaves no row of it behind.
* `SchedulerImplementsService` (`ImplementsService`): each action submits, promotes, ends a turn, withdraws or
  leaves the status of every message alone.

None of these is inductive, and they need each other: that a completion
records the only terminal depends on who owns the gate, that in turn on the pin
and on which tasks are alive. The invariant `Life` has four groups beside `IInv`. `Books`: where
messages are, with no row twice in a sequence and no message in two places. `Control`: what the loop's label
says of the lease, the victim and the rows in its hand; which tasks exist and which are registered, named by
the pin or told to abort. `Endings`: which turns have their terminal at each label between
the claim and the release. `Awaited`: where a resumed approval stands.

`AuthRefreshProofs`, for any processes and callers and any number of rotations:

* `AuthTyped` (`TypeOK`), `RotationNotLost` (`NoLostRotation`), `TokenSpentOnce` (`SpentOnce`), `VerdictsAreDead`
  (`VerdictOnDeadToken`). The invariant adds what a caller at each program point holds
  (`CallsShaped`); that one caller holds a lock file that is still the named one (`LockHeld`);
  that the successors form chains of minted credentials (`Minted`); that what the provider rejected is
  dead (`RejectedIsDead`); that such a holder read the token it sends from the disk as it still is, unless a
  sign-in interfered (`HolderKnowsDisk`); and, for each credential that was spent, that its successor
  is on disk, in a caller's hand, superseded or unsafe (`LostAnswers`, `SpentOnDisk`, `SpentInHand`, `RotationKept`).
* The first attempt at `TokenSpentOnce` failed on a caller that lost its lock and saves
  an answer its siblings have since rotated twice. TLC confirmed it with one more credential
  than the run has; the history variable was wrong there and now says so.

`LeaderElectionProofs`, for any clients, any number of spawned leaders, faults and lock files:

* `ElectionTyped` (`TypeOK`), `OneLeader` (`OneLeaderUnlessRaced`), `WinnerFindsNoLeader`
  (`StampOutlivesNoHolder`). The invariant relates each program point to the descriptor it
  implies (`Descriptors`), the locks to their holders (`Holders`), the PID in a file to the process that
  locked it (`Stamps`), and, while nothing raced, all locks in use to the one file the path names
  (`OneFile`) and the socket to the leader that bound it (`Sockets`). A client that
  is asking a leader to vacate holds no descriptor, and while nothing raced no leader serves when a stopped server
  still removes the socket.

`SleepGateProofs`, for any set of tasks and any number of sleeps:

* `SleepGateTyped`: `TypeOK`, which holds the in-flight count to at most one.
* `SleepIsHeld`: `NoStraddle`, and `WakeupNotLost`: `NoLostWakeup`. None of the
  three is inductive. `IInv` adds that `refresh_lock` admits one refresh
  (`OneRefresh`) and the count is the number of slots (`CountIsSlots`); that
  from the raise until the sleep the gate is fresh and no reader holds a copy
  that could clear it (`GateStands`); that an acknowledged sleep finds past the
  recheck only tasks it was held for (`HeldForAll`), which is where raise-then-count
  meets claim-then-recheck; that an exchange in a dark wake holds the machine
  awake (`DarkHeld`); and that a listener about to park is already owed its
  wake-up (`WakeupComes`). One lemma for each action, one step for each part;
  `ReadGateMoves` and `ClearGateMoves` say once where each caller of `is_gated`
  can go.

`WorkflowRunProofs`, for any script, any number of agents, episodes, crashes and failed appends:

* `StatusOfSuccessor` (`SuccessorKeepsStatus`), whichever engines a resume may overtake: Active, or
  Interrupted after a stomp. Its
  invariant `EInv` has the types, the shape of each engine's record at its program point
  (`Shapes`: how far in the script it is, how far its journal reaches, which replies it waits for, that
  the lines it has still to write continue its journal) and that the latest engine, unless told to stop, is
  the manager's (`Told`).
* `JournalStaysLoadable` (`JournalLoads`), `BudgetHolds` (`AgentsWithinBudget`), `AnswersStay` (`SameAnswer`) and
  `RunTyped` (`TypeOK`), under the hypothesis `Overtaken \subseteq {"done"}`: a resume finds the engines before
  it at their end. Run `workflow` has this value of the constant, and run
  `workflow_resume`, which drops it, refutes `JournalLoads`. The type invariant needs the hypothesis because it holds
  the charge within the budget and the numbers of the calls within the script.
* None of them is inductive. `Alone` adds that one engine works
  (`OneEngine`), that it has the journal in memory as it is on disk (`InStep`), that the
  charge covers what is journaled, under way or reserved and not yet given back (`Covered`), and when a
  run may be blamed on its last call (`Blamed`), without which a resume could prune an answer the script has used.
  `Kin` adds that what the script has seen stays in the journal (`Remembered`).
* The sequence number of a call is the number of calls before it, the cardinality of a subset of
  `Calls`. A sum over the script would need an induction over it, which these
  provers cannot do; a cardinality needs one disjoint union for each step.

Only model-checked:

* liveness (`NotStranded`, `OpenIsLeft`, `NoParkedQueue`, `RefreshResumes`, `ClientSettles`, `CancelledRetires`), which
  rests on fairness and `ENABLED`, outside the prover's reach.

## 5. Plan

Every invariant and every action property of a passing run is proved, and so is the refinement. What is left is to model the
components section 6 names as the next candidates.

## 6. Not modelled

* Wakes and notifications (`notification_drain.rs`), the message delivery core and the single
  flight of interactive logins are state machines of the same kind as the ones here, and
  the next candidates: `WakeDelivery` composed with the scheduler's promoter,
  `MessageDelivery` with cancel and completion, `LoginAttempts` with `AuthRefresh`.
* The subagent attempt store and the computer hub SDK have a protocol worth a module each, but
  little that meets the parts modelled here.
* The body of a turn (sampling, tools, compaction) depends on what a language model answers;
  only the points where it touches the scheduler are here.
* The terminal interface, tools, configuration, hooks, plugins, telemetry and persistence, by far
  the largest part of the repository, are input/output, rendering and data without shared state
  of their own that an interleaving could break.

---------------------------- MODULE PromptQueue -----------------------------
(***************************************************************************)
(* The rows of a session's prompt queue (State::pending_inputs) and the    *)
(* position arithmetic the queue operations share (prompt_queue.rs,        *)
(* xai-prompt-queue/src/combine.rs).                                       *)
(*                                                                         *)
(* A row is a message with its queue policy:                               *)
(*   "prompt"    a user's prompt: visible to clients, editable             *)
(*   "fallback"  an interjection that missed its turn: hidden, human       *)
(*   "resume"    the turn injected by a resumed plan approval: hidden,     *)
(*               synthetic                                                 *)
(* Operations that delete rows are described by the positions they keep.   *)
(***************************************************************************)
EXTENDS Naturals, FiniteSets, SequencesExt

CONSTANTS
    Messages,   \* everything that can become a row
    Prompts,    \* the messages submitted as prompts
    Bash,       \* the prompts that are bash commands
    Owners,     \* the client that submitted each prompt
    None

ASSUME QueueAssumption ==
    /\ Prompts \subseteq Messages
    /\ Bash \subseteq Prompts
    /\ None \notin Messages

Row == [msg : Messages, kind : {"prompt", "fallback", "resume"}, sendNow : BOOLEAN]

IsEditable(row) == row.kind = "prompt"

IsSynthetic(row) == row.kind = "resume"

DrainsAtShutdown(row) == row.kind # "resume"

OwnerOf(row) == IF IsEditable(row) THEN Owners[row.msg] ELSE None

-----------------------------------------------------------------------------
FrontMsg(q) == IF q = <<>> THEN None ELSE q[1].msg

Positions(q, m) == {i \in DOMAIN q : q[i].msg = m}

(* The rows of q at the positions S, in queue order (a set of one). *)
Keeping(q, S) ==
    { [i \in 1..Cardinality(S) |-> q[at[i]]] :
        at \in { f \in [1..Cardinality(S) -> S] :
                   \A i, j \in 1..Cardinality(S) : i < j => f[i] < f[j] } }

Without(q, S) == Keeping(q, DOMAIN q \ S)

(* Never displace a running front: insert after it when it is the in-flight *)
(* turn's own row.                                                          *)
BehindFront(q, running) == IF q # <<>> /\ running = q[1].msg THEN 2 ELSE 1

(* Where a send-now prompt goes: behind the running front and behind the    *)
(* send-now rows already there (a set of one).                              *)
SendNowSlots(q, running) ==
    { i \in BehindFront(q, running)..(Len(q) + 1) :
        /\ \A j \in BehindFront(q, running)..(i - 1) : q[j].sendNow
        /\ i <= Len(q) => ~q[i].sendNow }

(* The stranded interjections, as rows at the head of the queue, in order.  *)
(* Mutant: without send-now standing, a later send-now leapfrogs them.      *)
FallbackRowPlain(m) == [msg |-> m, kind |-> "fallback", sendNow |-> FALSE]

FallbackRow(m) == [msg |-> m, kind |-> "fallback", sendNow |-> TRUE]

WithFallbacks(q, running, entries) ==
    LET at == BehindFront(q, running)
    IN  SubSeq(q, 1, at - 1)
          \o [i \in 1..Len(entries) |-> FallbackRow(entries[i].msg)]
          \o SubSeq(q, at, Len(q))

-----------------------------------------------------------------------------
(* Rows a steering turn may look at; it passes over its own row and over   *)
(* hidden synthetic ones, and stops at the first it may not take.          *)
Steerable(q, running) == {i \in DOMAIN q : q[i].msg # running /\ ~IsSynthetic(q[i])}

MaySteer(q, running, holds, i) ==
    /\ IsEditable(q[i])
    /\ q[i].msg \notin Bash
    /\ ~q[i].sendNow
    /\ q[i].msg \notin holds
    /\ \A r \in Positions(q, running) : OwnerOf(q[i]) = OwnerOf(q[r])

SteeredRows(q, running, holds) ==
    { i \in Steerable(q, running) :
        \A j \in Steerable(q, running) : j <= i => MaySteer(q, running, holds, j) }

-----------------------------------------------------------------------------
(* Promotion merges the plain prompts that directly follow a plain front.  *)
Mergeable(row) == IsEditable(row) /\ row.msg \notin Bash

MergedRows(q, holds) ==
    { i \in 2..Len(q) :
        /\ Mergeable(q[1])
        /\ \A j \in 2..i : Mergeable(q[j]) /\ q[j].msg \notin holds }

-----------------------------------------------------------------------------
(* A reorder permutes the editable rows among themselves; the running row  *)
(* and the rows that are not editable keep their places.                   *)
(* Mutant: the running row moves too.                                      *)
ReorderingsUnpinned(q, running) ==
    LET pinned == {i \in DOMAIN q : ~IsEditable(q[i])}
    IN  { [i \in DOMAIN q |-> q[at[i]]] :
            at \in { f \in Bijection(DOMAIN q, DOMAIN q) : \A i \in pinned : f[i] = i } }

Reorderings(q, running) ==
    LET pinned == {i \in DOMAIN q : ~IsEditable(q[i]) \/ q[i].msg = running}
    IN  { [i \in DOMAIN q |-> q[at[i]]] :
            at \in { f \in Bijection(DOMAIN q, DOMAIN q) : \A i \in pinned : f[i] = i } }
=============================================================================

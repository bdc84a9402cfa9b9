------------------------ MODULE TurnSchedulerProofs -------------------------
(***************************************************************************)
(* Type correctness of the scheduler and its central queue invariant, for  *)
(* any number of prompts, interjections, resumed approvals and clients.    *)
(***************************************************************************)
EXTENDS TurnScheduler, FiniteSetTheorems, TLAPS

-----------------------------------------------------------------------------
(* What the queue operations do to a queue q whose head must stay.         *)

(* The head of q, if any, is the head of r. *)
SameHead(q, r) == q # <<>> => r # <<>> /\ r[1] = q[1]

LEMMA FrontOfSameHead ==
  ASSUME NEW q, NEW r, SameHead(q, r), q # <<>>
  PROVE  FrontMsg(r) = FrontMsg(q)
BY DEF SameHead, FrontMsg

LEMMA FrontType ==
  ASSUME NEW q \in Seq(Row)
  PROVE  FrontMsg(q) \in Messages \cup {None} /\ (q # <<>> => FrontMsg(q) \in Messages)
<1>1. q # <<>> => q[1] \in Row
  OBVIOUS
<1> QED
  BY <1>1 DEF FrontMsg, Row

LEMMA OneRow == \A s \in Seq(Row) : Len(s) = 1 => s # <<>>
OBVIOUS

LEMMA ConcatRows ==
  ASSUME NEW s \in Seq(Row), NEW t \in Seq(Row)
  PROVE  /\ s \o t \in Seq(Row)
         /\ s # <<>> => s \o t # <<>> /\ (s \o t)[1] = s[1]
<1>1. s \o t \in Seq(Row) /\ Len(s \o t) = Len(s) + Len(t)
  OBVIOUS
<1>2. ASSUME s # <<>> PROVE Len(s \o t) # 0 /\ (s \o t)[1] = s[1]
  BY <1>1, <1>2
<1> QED BY <1>1, <1>2

(* The rows at some positions, in queue order, are rows; position 1, when   *)
(* kept, stays at the head.                                                 *)
LEMMA KeepingRows ==
  ASSUME NEW q \in Seq(Row), NEW S \in SUBSET (DOMAIN q), NEW r \in Keeping(q, S)
  PROVE  /\ r \in Seq(Row)
         /\ 1 \in S => SameHead(q, r)
<1> DEFINE n == Cardinality(S)
<1>1. PICK at \in [1..n -> S] :
        /\ \A i, j \in 1..n : i < j => at[i] < at[j]
        /\ r = [i \in 1..n |-> q[at[i]]]
  BY DEF Keeping
<1>2. DOMAIN q = 1..Len(q) /\ Len(q) \in Nat
  OBVIOUS
<1>3. IsFiniteSet(S) /\ n \in Nat
  <2>1. IsFiniteSet(DOMAIN q)
    BY <1>2, FS_Interval
  <2>2. IsFiniteSet(S)
    BY <2>1, FS_Subset
  <2> QED BY <2>2, FS_CardinalityType
<1> HIDE DEF n
<1>4. \A i \in 1..n : q[at[i]] \in Row
  BY <1>1, <1>2
<1>5. r \in Seq(Row)
  BY <1>1, <1>3, <1>4
<1>6. ASSUME 1 \in S PROVE SameHead(q, r)
  <2>1. \A s \in S : s \in 1..Len(q)
    BY <1>2
  <2>2. at \in Injection(1..n, S)
    <3>1. \A i, j \in 1..n : i # j => at[i] # at[j]
      <4> SUFFICES ASSUME NEW i \in 1..n, NEW j \in 1..n, i # j PROVE at[i] # at[j]
        OBVIOUS
      <4>1. at[i] \in Int /\ at[j] \in Int
        BY <1>1, <1>2
      <4>2. i < j \/ j < i
        BY <1>3
      <4> QED BY <4>1, <4>2, <1>1
    <3> QED BY <1>1, <3>1 DEF Injection, IsInjective
  <2>3. Cardinality(1..n) = Cardinality(S)
    BY <1>3, FS_Interval DEF n
  <2>4. at \in Surjection(1..n, S)
    BY <2>2, <2>3, <1>3, FS_Injection
  <2>5. PICK k \in 1..n : at[k] = 1
    BY <2>4, <1>6 DEF Surjection
  <2>6. k = 1
    <3> SUFFICES ASSUME k # 1 PROVE FALSE
      OBVIOUS
    <3>1. 1 \in 1..n /\ 1 < k
      BY <1>3
    <3>2. at[1] < 1
      BY <3>1, <2>5, <1>1
    <3>3. at[1] \in 1..Len(q)
      BY <3>1, <1>1, <2>1
    <3> QED BY <3>2, <3>3, <1>2
  <2>7. 1 \in DOMAIN r /\ r[1] = q[1]
    BY <2>5, <2>6, <1>1
  <2>8. r # <<>>
    BY <2>7, <1>5
  <2> QED BY <2>7, <2>8 DEF SameHead
<1> QED BY <1>5, <1>6

(* Removing rows, the head not among them. *)
LEMMA WithoutRows ==
  ASSUME NEW q \in Seq(Row), NEW S, NEW r \in Without(q, S)
  PROVE  /\ r \in Seq(Row)
         /\ 1 \notin S => SameHead(q, r)
<1>1. DOMAIN q \ S \in SUBSET (DOMAIN q) /\ r \in Keeping(q, DOMAIN q \ S)
  BY DEF Without
<1>2. r \in Seq(Row) /\ (1 \in DOMAIN q \ S => SameHead(q, r))
  BY <1>1, KeepingRows
<1>3. q # <<>> => 1 \in DOMAIN q
  OBVIOUS
<1> QED BY <1>2, <1>3 DEF SameHead

(* Inserting a row, not at the head. *)
LEMMA InsertedRow ==
  ASSUME NEW q \in Seq(Row), NEW i \in 1..(Len(q) + 1), NEW e \in Row
  PROVE  /\ InsertAt(q, i, e) \in Seq(Row)
         /\ i # 1 => SameHead(q, InsertAt(q, i, e))
<1> DEFINE a == SubSeq(q, 1, i - 1)
           b == SubSeq(q, i, Len(q))
<1>1. a \in Seq(Row) /\ Len(a) = i - 1 /\ (i # 1 => a[1] = q[1])
  OBVIOUS
<1>2. b \in Seq(Row)
  OBVIOUS
<1>3. <<e>> \in Seq(Row)
  OBVIOUS
<1>4. InsertAt(q, i, e) = (a \o <<e>>) \o b
  BY DEF InsertAt
<1> HIDE DEF a, b
<1>5. a \o <<e>> \in Seq(Row) /\ (a # <<>> => a \o <<e>> # <<>> /\ (a \o <<e>>)[1] = a[1])
  BY <1>1, <1>3, ConcatRows
<1>6. i # 1 => a # <<>>
  BY <1>1
<1> QED BY <1>1, <1>2, <1>4, <1>5, <1>6, ConcatRows DEF SameHead

(* A queue edit that must not displace the running front. *)
LEMMA BehindFrontRange ==
  ASSUME NEW q \in Seq(Row), NEW m
  PROVE  /\ BehindFront(q, m) \in 1..(Len(q) + 1)
         /\ BehindFront(q, m) \in {1, 2}
         /\ q # <<>> /\ FrontMsg(q) = m => BehindFront(q, m) = 2
BY DEF BehindFront, FrontMsg

LEMMA FallbackRows ==
  ASSUME NEW q \in Seq(Row), NEW m, NEW entries,
         NEW n \in Nat, Len(entries) = n, \A i \in 1..n : entries[i].msg \in Messages
  PROVE  /\ WithFallbacks(q, m, entries) \in Seq(Row)
         /\ q # <<>> /\ FrontMsg(q) = m => SameHead(q, WithFallbacks(q, m, entries))
<1> DEFINE at == BehindFront(q, m)
           a == SubSeq(q, 1, at - 1)
           b == SubSeq(q, at, Len(q))
           f == [i \in 1..n |-> FallbackRow(entries[i].msg)]
<1>1. at \in 1..(Len(q) + 1) /\ at \in {1, 2} /\ (q # <<>> /\ FrontMsg(q) = m => at = 2)
  BY BehindFrontRange
<1>2. WithFallbacks(q, m, entries) = (a \o f) \o b
  BY DEF WithFallbacks
<1> HIDE DEF at
<1>3. a \in Seq(Row) /\ (at = 2 => Len(a) = 1 /\ a[1] = q[1])
  BY <1>1
<1>4. b \in Seq(Row)
  BY <1>1
<1>5. f \in Seq(Row)
  BY DEF FallbackRow, Row
<1> HIDE DEF a, b, f
<1>6. a \o f \in Seq(Row) /\ (a # <<>> => a \o f # <<>> /\ (a \o f)[1] = a[1])
  BY <1>3, <1>5, ConcatRows
<1>7. at = 2 => a # <<>>
  BY <1>3, OneRow
<1> QED BY <1>1, <1>2, <1>3, <1>4, <1>6, <1>7, ConcatRows DEF SameHead

LEMMA ReorderedRows ==
  ASSUME NEW q \in Seq(Row), NEW m, NEW r \in Reorderings(q, m)
  PROVE  /\ r \in Seq(Row)
         /\ q # <<>> /\ FrontMsg(q) = m => SameHead(q, r)
<1>1. PICK at \in Bijection(DOMAIN q, DOMAIN q) :
        /\ \A i \in DOMAIN q : q[i].msg = m => at[i] = i
        /\ r = [i \in DOMAIN q |-> q[at[i]]]
  BY DEF Reorderings
<1>2. at \in [DOMAIN q -> DOMAIN q]
  BY <1>1 DEF Bijection, Injection
<1>3. DOMAIN q = 1..Len(q) /\ Len(q) \in Nat
  OBVIOUS
<1>4. r \in Seq(Row)
  BY <1>1, <1>2, <1>3
<1>5. ASSUME q # <<>>, FrontMsg(q) = m PROVE SameHead(q, r)
  <2>1. 1 \in DOMAIN q /\ at[1] = 1
    BY <1>5, <1>1, <1>3 DEF FrontMsg
  <2>2. r[1] = q[1] /\ r # <<>>
    BY <2>1, <1>1, <1>4
  <2> QED BY <2>2 DEF SameHead
<1> QED BY <1>4, <1>5

-----------------------------------------------------------------------------
(* The inductive invariant.                                                 *)

(* While a finished turn's row is popped the gate is claimed; and the loop  *)
(* holds a prompt while it queues one, a turn while it pops one.            *)
InHand ==
    /\ At("queue") => loop.msg \in Prompts
    /\ At("pop") => loop.msg \in Messages /\ gate # None

IInv == TypeOK /\ RunningIsFront /\ InHand

LEMMA LeaseType ==
  ASSUME QueueType
  PROVE  Lease \in Leases /\ Lease # None
<1>1. FrontMsg(queue) \in Messages \cup {None}
  BY FrontType DEF QueueType
<1>2. Lease \in [front : Messages \cup {None}, task : BOOLEAN]
  BY <1>1 DEF Lease
<1> QED BY <1>2, SchedulerAssumption DEF Leases

LEMMA IdleType == Idle \in Loops /\ Idle.at = "idle"
BY DEF Idle, Loops, Labels, Leases

(* The loop moves on to a label at which it holds nothing it must account for. *)
LEMMA Returned ==
  ASSUME NEW label \in Labels \ {"queue", "pop"}, Return(label)
  PROVE  loop' \in Loops /\ InHand'
BY IdleType DEF Return, Loops, InHand, At

LEMMA Moved ==
  ASSUME NEW label \in Labels \ {"queue", "pop"}, loop \in Loops, GoTo(label)
  PROVE  loop' \in Loops /\ InHand'
BY DEF GoTo, Loops, Labels, InHand, At

LEMMA GaveUp ==
  ASSUME loop \in Loops, Unsettled
  PROVE  loop' \in Loops /\ InHand'
<1>1. CASE loop.kind = "shutdown"
  BY <1>1, Returned DEF Unsettled, Labels
<1>2. CASE loop.kind # "shutdown"
  BY <1>2, Returned DEF Unsettled, Labels
<1> QED BY <1>1, <1>2

LEMMA LoopKept ==
  ASSUME loop \in Loops, InHand, UNCHANGED <<loop, gate>>
  PROVE  loop' \in Loops /\ InHand'
BY DEF InHand, At

(* A step that leaves the running turn and the gate alone and does not      *)
(* displace the running front.                                              *)
LEMMA FrontKept ==
  ASSUME QueueType, RunningIsFront, UNCHANGED <<running, gate>>,
         queue # <<>> /\ FrontMsg(queue) = running => SameHead(queue, queue')
  PROVE  RunningIsFront'
BY FrontOfSameHead DEF RunningIsFront, FrontMsg, SameHead

LEMMA BookKept ==
  ASSUME BookType, UNCHANGED <<book, helper>>
  PROVE  BookType'
BY DEF BookType, book

(* What the actions share: rows taken from the head, rows removed, entries  *)
(* flushed to the queue or steered out of it, terminals recorded.           *)
LEMMA FirstRow ==
  ASSUME NEW q \in Seq(Row), q # <<>>
  PROVE  Tail(q) \in Seq(Row) /\ <<Head(q)>> \in Seq(Row)
OBVIOUS

LEMMA TakenRows ==
  ASSUME QueueType
  PROVE  /\ SubSeq(queue, 1, SweepTakes) \in Seq(Row)
         /\ SubSeq(queue, SweepTakes + 1, Len(queue)) \in Seq(Row)
<1>1. SweepTakes \in 0..Len(queue) /\ queue \in Seq(Row)
  BY DEF SweepTakes, QueueType
<1> HIDE DEF SweepTakes
<1> QED BY <1>1

LEMMA RowMessages == \A s \in Seq(Row) : MessagesOf(s) \subseteq Messages
<1>1. \A s \in Seq(Row) : \A i \in DOMAIN s : s[i] \in Row
  OBVIOUS
<1> QED BY <1>1 DEF MessagesOf, Row

LEMMA EntryMessages == \A s \in Seq(Entry) : MessagesOf(s) \subseteq Messages
<1>1. \A s \in Seq(Entry) : \A i \in DOMAIN s : s[i] \in Entry
  OBVIOUS
<1> QED BY <1>1 DEF MessagesOf, Entry

LEMMA Recorded ==
  ASSUME BookType, NEW m, NEW o \in {"completed", "cancelled", "rewound"}, Record(m, o)
  PROVE  outcomes' \in [Messages -> Seq({"completed", "cancelled", "rewound"})]
<1> DEFINE O == Seq({"completed", "cancelled", "rewound"})
<1>1. CASE m \in Messages
  <2>1. outcomes[m] \in O
    BY <1>1 DEF BookType
  <2>2. Append(outcomes[m], o) \in O
    BY <2>1
  <2> QED BY <1>1, <2>2, QueueAssumption DEF BookType, Record
<1>2. CASE m \notin Messages
  <2>1. outcomes' = outcomes \/ outcomes' = [outcomes EXCEPT ![m] = Append(@, o)]
    BY DEF Record
  <2> QED BY <1>2, <2>1 DEF BookType
<1> QED BY <1>1, <1>2

LEMMA RemovedBook ==
  ASSUME QueueType, BookType, NEW S \in SUBSET (DOMAIN queue), RowRemoved(S),
         UNCHANGED <<helper, unsent, outcomes>>
  PROVE  BookType'
<1>1. \A i \in S : queue[i] \in Row
  BY DEF QueueType
<1>2. {queue[i].msg : i \in S} \subseteq Messages
  BY <1>1 DEF Row
<1> QED BY <1>2 DEF RowRemoved, Dispose, BookType

LEMMA FlushedRows ==
  ASSUME QueueType, TurnType, FlushStranded
  PROVE  /\ queue' \in Seq(Row)
         /\ queue # <<>> /\ FrontMsg(queue) = running => SameHead(queue, queue')
<1>1. Len(buffer) \in Nat /\ \A i \in 1..Len(buffer) : buffer[i].msg \in Messages
  <2>1. \A i \in 1..Len(buffer) : buffer[i] \in Entry
    BY DEF TurnType
  <2>2. Len(buffer) \in Nat
    BY DEF TurnType
  <2> QED BY <2>1, <2>2 DEF Entry
<1> QED BY <1>1, FallbackRows DEF QueueType, FlushStranded

LEMMA SteeredSet == Steered \subseteq {i \in DOMAIN queue : queue[i].msg # running}
BY DEF Steered, SteeredRows, Steerable

LEMMA SteerKept ==
  ASSUME QueueType, RunningIsFront, Steer, UNCHANGED <<running, gate>>
  PROVE  queue' \in Seq(Row) /\ RunningIsFront'
<1>1. queue' \in Seq(Row) /\ (1 \notin Steered => SameHead(queue, queue'))
  BY WithoutRows DEF Steer, QueueType
<1>2. queue # <<>> /\ FrontMsg(queue) = running => 1 \notin Steered
  BY SteeredSet DEF FrontMsg
<1> QED BY <1>1, <1>2, FrontKept

LEMMA SteerBuffer ==
  ASSUME QueueType, TurnType, NEW m \in Messages, NEW b \in BufferAfterSteer(m)
  PROVE  b \in Seq(Entry)
<1>1. PICK taken \in Keeping(queue, Steered) :
        b = buffer \o [i \in DOMAIN taken |-> [msg |-> taken[i].msg, aim |-> m]]
  BY DEF BufferAfterSteer
<1>2. taken \in Seq(Row)
  BY SteeredSet, KeepingRows DEF QueueType
<1>3. [i \in DOMAIN taken |-> [msg |-> taken[i].msg, aim |-> m]] \in Seq(Entry)
  <2>1. DOMAIN taken = 1..Len(taken) /\ Len(taken) \in Nat
    BY <1>2
  <2>2. \A i \in 1..Len(taken) : taken[i] \in Row
    BY <1>2
  <2>3. \A i \in 1..Len(taken) : [msg |-> taken[i].msg, aim |-> m] \in Entry
    BY <2>2 DEF Entry, Row
  <2> QED BY <2>1, <2>3
<1> QED BY <1>1, <1>3 DEF TurnType

LEMMA AfterSendNowLoops ==
  ASSUME AfterSendNow
  PROVE  loop' \in Loops /\ InHand'
<1>1. CASE SendNowCancels
  BY <1>1, IdleType DEF AfterSendNow, Loops, Labels, InHand, At
<1>2. CASE ~SendNowCancels
  BY <1>2, Returned DEF AfterSendNow, Labels
<1> QED BY <1>1, <1>2

LEMMA RemovedRows ==
  ASSUME QueueType, RunningIsFront, UNCHANGED <<running, gate>>,
         NEW S \in SUBSET {i \in DOMAIN queue : queue[i].msg # running}, RowRemoved(S)
  PROVE  queue' \in Seq(Row) /\ RunningIsFront'
<1>1. queue' \in Seq(Row) /\ (1 \notin S => SameHead(queue, queue'))
  BY WithoutRows DEF RowRemoved, QueueType
<1>2. queue # <<>> /\ FrontMsg(queue) = running => 1 \notin S
  BY DEF FrontMsg
<1> QED BY <1>1, <1>2, FrontKept

(* Promotion: the front stays the front, and it is what runs. *)
LEMMA PromoteKept ==
  ASSUME QueueType, TurnType, BookType, NEW combine \in BOOLEAN, Promote(combine)
  PROVE  /\ QueueType' /\ RunningIsFront' /\ TurnType'
         /\ UNCHANGED <<gate, unsent, outcomes>>
         /\ open' \subseteq Prompts /\ done' \subseteq Messages
<1> DEFINE S == IF combine THEN MergedRows(queue, LiveHolds) ELSE {}
<1>1. queue # <<>> /\ queue[1] \in Row /\ queue[1].msg \in Messages /\ queue \in Seq(Row)
  <2>1. queue # <<>> /\ queue \in Seq(Row)
    BY DEF Promote, MayPromote, NothingToStart, QueueType
  <2>2. queue[1] \in Row
    BY <2>1
  <2> QED BY <2>1, <2>2 DEF Row
<1>2. S \in SUBSET (DOMAIN queue) /\ 1 \notin S
  BY <1>1 DEF MergedRows
<1>3. RowRemoved(S)
  BY DEF Promote
<1> HIDE DEF S
<1>4. queue' \in Seq(Row) /\ SameHead(queue, queue')
  BY <1>1, <1>2, <1>3, WithoutRows DEF RowRemoved
<1>5. RunningIsFront'
  BY <1>1, <1>4, FrontOfSameHead DEF RunningIsFront, Promote, FrontMsg
<1>6. {queue[i].msg : i \in S} \subseteq Messages
  <2>1. \A i \in S : queue[i] \in Row
    BY <1>1, <1>2
  <2> QED BY <2>1 DEF Row
<1>7. open' \subseteq Prompts /\ done' \subseteq Messages
  BY <1>3, <1>6 DEF RowRemoved, Dispose, BookType
<1>8. TurnType'
  BY <1>1 DEF Promote, TurnType, Live
<1>9. QueueType'
  BY <1>1, <1>4 DEF Promote, Holding, LiveHolds, QueueType
<1> QED BY <1>5, <1>7, <1>8, <1>9 DEF Promote

LEMMA ParkKept ==
  ASSUME QueueType, TurnType, BookType, RunningIsFront, Park
  PROVE  /\ QueueType' /\ RunningIsFront' /\ TurnType'
         /\ UNCHANGED <<gate, unsent, outcomes>>
         /\ open' \subseteq Prompts /\ done' \subseteq Messages
<1>1. QueueType' /\ RunningIsFront'
  BY DEF Park, Holding, LiveHolds, QueueType, RunningIsFront, FrontMsg
<1>2. TurnType'
  BY DEF Park, TurnType, turns
<1> QED BY <1>1, <1>2 DEF Park, book, BookType

-----------------------------------------------------------------------------
(* One lemma for the initial state and one per action.                      *)

LEMMA InitEstablishes == Init => IInv
<1> SUFFICES ASSUME Init PROVE IInv
  OBVIOUS
<1>1. QueueType
  <2>1. queue \in Seq(Row) /\ gate \in Leases /\ running \in Messages \cup {None}
    BY DEF Init, Leases
  <2> QED BY <2>1 DEF Init, QueueType
<1>2. TurnType
  BY DEF Init, TurnType, Live
<1>3. loop \in Loops /\ InHand
  BY IdleType DEF Init, InHand, At
<1>4. BookType
  BY DEF Init, BookType
<1>5. RunningIsFront
  BY DEF Init, RunningIsFront
<1> QED BY <1>1, <1>2, <1>3, <1>4, <1>5 DEF IInv, TypeOK

(* The turn task's steps that touch neither the queue nor the loop. *)
LEMMA TurnKeeps ==
  ASSUME IInv, NEW m \in Messages,
         \/ TurnCommit(m) \/ TurnReturnEarly(m) \/ TurnGuard(m) \/ TurnBlocked(m)
         \/ TurnOutput(m) \/ TurnWake(m) \/ TurnUnsubmitted(m)
         \/ TurnEnd(m) \/ TurnSend(m) \/ TurnDrop(m)
  PROVE  IInv'
<1> USE DEF IInv, TypeOK, QueueType, TurnType, BookType, RunningIsFront, InHand, At,
            state, turns, book, Alive, Live
<1>1. CASE TurnCommit(m)
  BY <1>1 DEF TurnCommit
<1>2. CASE TurnReturnEarly(m)
  BY <1>2 DEF TurnReturnEarly
<1>3. CASE TurnGuard(m)
  BY <1>3 DEF TurnGuard
<1>4. CASE TurnBlocked(m)
  BY <1>4 DEF TurnBlocked
<1>5. CASE TurnOutput(m)
  BY <1>5 DEF TurnOutput
<1>6. CASE TurnWake(m)
  BY <1>6 DEF TurnWake
<1>7. CASE TurnUnsubmitted(m)
  BY <1>7 DEF TurnUnsubmitted, Restored
<1>8. CASE TurnEnd(m)
  BY <1>8 DEF TurnEnd, Unpinned
<1>9. CASE TurnSend(m)
  BY <1>9 DEF TurnSend
<1>10. CASE TurnDrop(m)
  BY <1>10 DEF TurnDrop, Unpinned, Restored
<1> QED BY <1>1, <1>2, <1>3, <1>4, <1>5, <1>6, <1>7, <1>8, <1>9, <1>10

LEMMA TurnSubmitKeeps == ASSUME IInv, NEW m \in Messages, TurnSubmit(m) PROVE IInv'
<1> USE DEF IInv, TypeOK, At
<1>1. QueueType' /\ RunningIsFront'
  BY DEF TurnSubmit, QueueType, RunningIsFront, state
<1>2. TurnType'
  BY DEF TurnSubmit, TurnType, Live
<1>3. loop' \in Loops /\ InHand'
  BY LoopKept DEF TurnSubmit, state
<1>4. BookType'
  BY EntryMessages DEF TurnSubmit, BookType, TurnType
<1> QED BY <1>1, <1>2, <1>3, <1>4

LEMMA TurnWaitKeeps == ASSUME IInv, NEW m \in Messages, TurnWait(m) PROVE IInv'
<1> USE DEF IInv, TypeOK, At
<1>1. QueueType' /\ RunningIsFront'
  BY SteerKept DEF TurnWait, QueueType
<1>2. TurnType'
  BY SteerBuffer DEF TurnWait, TurnType, Live
<1>3. loop' \in Loops /\ InHand'
  BY LoopKept DEF TurnWait, state
<1>4. BookType'
  BY DEF TurnWait, Steer, BookType
<1> QED BY <1>1, <1>2, <1>3, <1>4

LEMMA TurnDrainKeeps == ASSUME IInv, NEW m \in Messages, TurnDrain(m) PROVE IInv'
<1> USE DEF IInv, TypeOK, At
<1>1. QueueType' /\ RunningIsFront'
  BY SteerKept DEF TurnDrain, QueueType
<1>2. TurnType'
  BY SteerBuffer DEF TurnDrain, TurnType, Live
<1>3. loop' \in Loops /\ InHand'
  BY LoopKept DEF TurnDrain, state
<1>4. BookType'
  BY DEF TurnDrain, Steer, BookType
<1> QED BY <1>1, <1>2, <1>3, <1>4

LEMMA QueueSendNowKeeps == ASSUME IInv, QueueSendNow PROVE IInv'
<1> USE DEF IInv, TypeOK, At
<1>1. QueueType' /\ RunningIsFront'
  <2>1. [msg |-> loop.msg, kind |-> "prompt", sendNow |-> TRUE] \in Row
    BY QueueAssumption DEF QueueSendNow, InHand, Row
  <2>2. PICK i \in SendNowSlots(queue, running) :
          queue' = InsertAt(queue, i, [msg |-> loop.msg, kind |-> "prompt", sendNow |-> TRUE])
    BY DEF QueueSendNow
  <2>3. i \in 1..(Len(queue) + 1) /\ (queue # <<>> /\ FrontMsg(queue) = running => i # 1)
    BY BehindFrontRange DEF SendNowSlots, QueueType
  <2>4. queue' \in Seq(Row) /\ (i # 1 => SameHead(queue, queue'))
    BY <2>1, <2>2, <2>3, InsertedRow DEF QueueType
  <2>5. RunningIsFront'
    BY <2>3, <2>4, FrontKept DEF QueueSendNow
  <2> QED BY <2>4, <2>5 DEF QueueSendNow, QueueType
<1>2. TurnType'
  BY DEF QueueSendNow, TurnType, turns
<1>3. loop' \in Loops /\ InHand'
  BY AfterSendNowLoops DEF QueueSendNow
<1>4. BookType'
  BY BookKept DEF QueueSendNow, book
<1> QED BY <1>1, <1>2, <1>3, <1>4

LEMMA QueueBehindKeeps == ASSUME IInv, QueueBehind PROVE IInv'
<1> USE DEF IInv, TypeOK, At
<1>1. QueueType' /\ RunningIsFront'
  <2>1. [msg |-> loop.msg, kind |-> "prompt", sendNow |-> FALSE] \in Row
    BY QueueAssumption DEF QueueBehind, InHand, Row
  <2>2. queue' \in Seq(Row) /\ SameHead(queue, queue')
    BY <2>1 DEF QueueBehind, QueueType, SameHead
  <2>3. RunningIsFront'
    BY <2>2, FrontKept DEF QueueBehind
  <2> QED BY <2>2, <2>3 DEF QueueBehind, QueueType
<1>2. TurnType'
  BY DEF QueueBehind, TurnType, turns
<1>3. loop' \in Loops /\ InHand'
  BY Returned DEF QueueBehind, Labels
<1>4. BookType'
  BY BookKept DEF QueueBehind, book
<1> QED BY <1>1, <1>2, <1>3, <1>4

LEMMA FlushKeeps == ASSUME IInv, Flush PROVE IInv'
<1> USE DEF IInv, TypeOK, At
<1>1. QueueType' /\ RunningIsFront'
  <2>1. /\ queue' \in Seq(Row)
        /\ queue # <<>> /\ FrontMsg(queue) = running => SameHead(queue, queue')
    BY FlushedRows DEF Flush
  <2>2. RunningIsFront'
    BY <2>1, FrontKept DEF Flush
  <2> QED BY <2>1, <2>2 DEF Flush, QueueType
<1>2. TurnType'
  BY DEF Flush, FlushStranded, TurnType, turns
<1>3. loop' \in Loops /\ InHand'
  BY Moved DEF Flush, Labels
<1>4. BookType'
  BY BookKept DEF Flush, book
<1> QED BY <1>1, <1>2, <1>3, <1>4

LEMMA SettleKeeps == ASSUME IInv, Settle PROVE IInv'
<1> USE DEF IInv, TypeOK, At
<1>1. QueueType' /\ RunningIsFront'
  <2>1. /\ queue' \in Seq(Row)
        /\ queue # <<>> /\ FrontMsg(queue) = running => SameHead(queue, queue')
    BY FlushedRows DEF Settle
  <2>2. RunningIsFront'
    BY <2>1, FrontKept DEF Settle
  <2> QED BY <2>1, <2>2 DEF Settle, QueueType
<1>2. TurnType'
  BY DEF Settle, FlushStranded, TurnType, turns
<1>3. loop' \in Loops /\ InHand'
  BY Returned DEF Settle, Labels
<1>4. BookType'
  BY BookKept DEF Settle, book
<1> QED BY <1>1, <1>2, <1>3, <1>4

LEMMA ClaimKeeps == ASSUME IInv, Claim PROVE IInv'
<1> USE DEF IInv, TypeOK, At
<1>1. QueueType' /\ RunningIsFront'
  BY LeaseType DEF Claim, QueueType, RunningIsFront
<1>2. TurnType'
  BY DEF Claim, TurnType, turns
<1>3. loop' \in Loops /\ InHand'
  BY LeaseType, GaveUp DEF Claim, Loops, Labels, InHand, At
<1>4. BookType'
  BY BookKept DEF Claim, book
<1> QED BY <1>1, <1>2, <1>3, <1>4

LEMMA RewindBehindKeeps == ASSUME IInv, RewindBehind PROVE IInv'
<1> USE DEF IInv, TypeOK, At
<1>1. QueueType' /\ RunningIsFront'
  <2>1. /\ queue' \in Seq(Row)
        /\ queue # <<>> /\ FrontMsg(queue) = running => SameHead(queue, queue')
    BY WithoutRows DEF RewindBehind, RowRemoved, QueueType, Positions, FrontMsg
  <2>2. RunningIsFront'
    BY <2>1, FrontKept DEF RewindBehind
  <2> QED BY <2>1, <2>2 DEF RewindBehind, QueueType, Holding
<1>2. TurnType'
  BY DEF RewindBehind, TurnType, turns
<1>3. loop' \in Loops /\ InHand'
  BY Returned DEF RewindBehind, Labels
<1>4. BookType'
  BY RemovedBook DEF RewindBehind, Positions
<1> QED BY <1>1, <1>2, <1>3, <1>4

LEMMA RewindFrontKeeps == ASSUME IInv, RewindFront PROVE IInv'
<1> USE DEF IInv, TypeOK, At
<1>1. QueueType' /\ RunningIsFront'
  BY FirstRow DEF RewindFront, RewindPoppable, QueueType, RunningIsFront
<1>2. TurnType'
  BY DEF RewindFront, Aborted, TurnType, QueueType, Live
<1>3. loop' \in Loops /\ InHand'
  BY FirstRow DEF RewindFront, RewindPoppable, QueueType, Loops, Labels, InHand, At
<1>4. BookType'
  BY BookKept DEF RewindFront, book
<1> QED BY <1>1, <1>2, <1>3, <1>4

LEMMA RewindClosedKeeps == ASSUME IInv, RewindClosed PROVE IInv'
<1> USE DEF IInv, TypeOK, At
<1>1. QueueType' /\ RunningIsFront'
  BY DEF RewindClosed, QueueType, RunningIsFront, state
<1>2. TurnType'
  BY DEF RewindClosed, TurnType, turns
<1>3. loop' \in Loops /\ InHand'
  BY Moved DEF RewindClosed, Labels
<1>4. BookType'
  BY BookKept DEF RewindClosed, book
<1> QED BY <1>1, <1>2, <1>3, <1>4

LEMMA RewoundKeeps == ASSUME IInv, Rewound PROVE IInv'
<1> USE DEF IInv, TypeOK, At
<1>1. QueueType' /\ RunningIsFront'
  BY DEF Rewound, QueueType, RunningIsFront, state
<1>2. TurnType'
  BY DEF Rewound, TurnType, turns
<1>3. loop' \in Loops /\ InHand'
  BY Returned DEF Rewound, Labels
<1>4. BookType'
  BY RowMessages, Recorded DEF Rewound, Dispose, Loops, BookType
<1> QED BY <1>1, <1>2, <1>3, <1>4

LEMMA TeardownKeeps == ASSUME IInv, Teardown PROVE IInv'
<1> USE DEF IInv, TypeOK, At
<1>1. QueueType' /\ RunningIsFront'
  BY DEF Teardown, QueueType, RunningIsFront, state
<1>2. TurnType'
  BY DEF Teardown, Aborted, TurnType, QueueType
<1>3. loop' \in Loops /\ InHand'
  BY DEF Teardown, TurnType, Loops, Labels, InHand, At
<1>4. BookType'
  BY BookKept DEF Teardown, book
<1> QED BY <1>1, <1>2, <1>3, <1>4

LEMMA SweepLostKeeps == ASSUME IInv, SweepLost PROVE IInv'
<1> USE DEF IInv, TypeOK, At
<1>1. QueueType' /\ RunningIsFront'
  BY DEF SweepLost, QueueType, RunningIsFront, state
<1>2. TurnType'
  BY DEF SweepLost, TurnType, turns
<1>3. loop' \in Loops /\ InHand'
  BY GaveUp, Returned DEF SweepLost, Labels
<1>4. BookType'
  BY BookKept DEF SweepLost, book
<1> QED BY <1>1, <1>2, <1>3, <1>4

LEMMA SweepRewindKeeps == ASSUME IInv, SweepRewind PROVE IInv'
<1> USE DEF IInv, TypeOK, At
<1>1. QueueType' /\ RunningIsFront'
  BY FirstRow DEF SweepRewind, LegacyRewinds, RewindPoppable, QueueType, RunningIsFront
<1>2. TurnType'
  BY DEF SweepRewind, Aborted, TurnType, QueueType
<1>3. loop' \in Loops /\ InHand'
  BY FirstRow DEF SweepRewind, LegacyRewinds, RewindPoppable, QueueType, Loops, Labels, InHand, At
<1>4. BookType'
  BY BookKept DEF SweepRewind, book
<1> QED BY <1>1, <1>2, <1>3, <1>4

LEMMA SweepKeepKeeps == ASSUME IInv, SweepKeep PROVE IInv'
<1> USE DEF IInv, TypeOK, At
<1>1. QueueType' /\ RunningIsFront'
  BY TakenRows DEF SweepKeep, StillCurrent, BindingIsCurrent, QueueType, RunningIsFront
<1>2. TurnType'
  BY DEF SweepKeep, Aborted, TurnType, QueueType
<1>3. loop' \in Loops /\ InHand'
  BY TakenRows DEF SweepKeep, QueueType, Loops, Labels, InHand, At
<1>4. BookType'
  BY BookKept DEF SweepKeep, book
<1> QED BY <1>1, <1>2, <1>3, <1>4

LEMMA TailedKeeps == ASSUME IInv, Tailed PROVE IInv'
<1> USE DEF IInv, TypeOK, At
<1>1. QueueType' /\ RunningIsFront'
  BY DEF Tailed, QueueType, RunningIsFront, state
<1>2. TurnType'
  BY DEF Tailed, Unpinned, TurnType
<1>3. loop' \in Loops /\ InHand'
  <2>1. CASE loop.lease # None
    <3>1. <<>> \in Seq(Row)
      OBVIOUS
    <3> QED BY <2>1, <3>1 DEF Tailed, Loops, Labels, InHand
  <2>2. CASE loop.lease = None
    BY <2>2, Returned DEF Tailed, Labels
  <2> QED BY <2>1, <2>2
<1>4. BookType'
  BY RowMessages, Recorded DEF Tailed, Dispose, Loops, BookType
<1> QED BY <1>1, <1>2, <1>3, <1>4

LEMMA ReleaseKeeps == ASSUME IInv, Release PROVE IInv'
<1> USE DEF IInv, TypeOK, At
<1>1. QueueType' /\ RunningIsFront'
  BY DEF Release, QueueType, RunningIsFront
<1>2. TurnType'
  BY DEF Release, Unpinned, TurnType, turns
<1>3. loop' \in Loops /\ InHand'
  BY GaveUp, Moved DEF Release, Labels
<1>4. BookType'
  BY BookKept DEF Release, book
<1> QED BY <1>1, <1>2, <1>3, <1>4

LEMMA FinishKeeps == ASSUME IInv, Finish PROVE IInv'
<1> USE DEF IInv, TypeOK, At
<1>1. QueueType' /\ RunningIsFront'
  BY DEF Finish, QueueType, RunningIsFront, Leases
<1>2. TurnType'
  BY DEF Finish, TurnType, turns
<1>3. loop' \in Loops /\ InHand'
  <2>1. CASE ~(gate = loop.lease /\ running = None)
    BY <2>1, GaveUp DEF Finish
  <2>2. CASE gate = loop.lease /\ running = None
    <3>1. CASE loop.kind = "complete"
      BY <2>2, <3>1, IdleType DEF Finish, Loops, Labels, InHand
    <3>2. CASE loop.kind # "complete"
      BY <2>2, <3>2, Returned DEF Finish, Labels
    <3> QED BY <3>1, <3>2
  <2> QED BY <2>1, <2>2
<1>4. BookType'
  BY BookKept DEF Finish, book
<1> QED BY <1>1, <1>2, <1>3, <1>4

LEMMA CompleteKeeps == ASSUME IInv, Complete PROVE IInv'
<1> USE DEF IInv, TypeOK, At
<1>1. QueueType' /\ RunningIsFront'
  BY LeaseType DEF Complete, QueueType, RunningIsFront
<1>2. TurnType'
  BY DEF Complete, TurnType, turns
<1>3. loop' \in Loops /\ InHand'
  <2>1. Head(completions) \in Messages
    BY DEF Complete, TurnType
  <2>2. CASE UNCHANGED <<gate, loop>>
    BY <2>2, LoopKept
  <2>3. CASE ~UNCHANGED <<gate, loop>>
    <3>1. gate' = Lease /\ loop' = [Idle EXCEPT !.at = "pop", !.kind = "complete",
                                             !.msg = Head(completions), !.lease = Lease]
      BY <2>3 DEF Complete
    <3> QED BY <2>1, <3>1, LeaseType, IdleType DEF Loops, Labels, InHand
  <2> QED BY <2>2, <2>3
<1>4. BookType'
  BY BookKept DEF Complete, book
<1> QED BY <1>1, <1>2, <1>3, <1>4

LEMMA PopKeeps == ASSUME IInv, Pop PROVE IInv'
<1> USE DEF IInv, TypeOK, At
<1>1. QueueType' /\ RunningIsFront'
  BY FirstRow, QueueAssumption DEF Pop, InHand, FrontMsg, QueueType, RunningIsFront
<1>2. TurnType'
  BY DEF Pop, TurnType, turns
<1>3. loop' \in Loops /\ InHand'
  BY Moved DEF Pop, Labels
<1>4. BookType'
  BY Recorded DEF Pop, InHand, Dispose, BookType
<1> QED BY <1>1, <1>2, <1>3, <1>4

LEMMA StartKeeps == ASSUME IInv, Start PROVE IInv'
<1> USE DEF IInv, TypeOK, At
<1>1. QueueType' /\ RunningIsFront'
  BY DEF Start, QueueType, RunningIsFront, state
<1>2. TurnType'
  BY DEF Start, TurnType, turns
<1>3. loop' \in Loops /\ InHand'
  BY Returned DEF Start, FirstLook, Labels
<1>4. BookType'
  BY BookKept DEF Start, book
<1> QED BY <1>1, <1>2, <1>3, <1>4

LEMMA ShutdownKeeps == ASSUME IInv, Shutdown PROVE IInv'
<1> USE DEF IInv, TypeOK, At
<1>1. QueueType' /\ RunningIsFront'
  BY DEF Shutdown, QueueType, RunningIsFront, state
<1>2. TurnType'
  BY DEF Shutdown, TurnType, turns
<1>3. loop' \in Loops /\ InHand'
  BY IdleType DEF Shutdown, Loops, Labels, InHand
<1>4. BookType'
  BY BookKept DEF Shutdown, book
<1> QED BY <1>1, <1>2, <1>3, <1>4

LEMMA PromptKeeps == ASSUME IInv, NEW p \in Prompts, NEW now \in BOOLEAN, Prompt(p, now) PROVE IInv'
<1> USE DEF IInv, TypeOK, At
<1>1. QueueType' /\ RunningIsFront'
  BY DEF Prompt, QueueType, RunningIsFront, state
<1>2. TurnType'
  BY DEF Prompt, TurnType, turns
<1>3. loop' \in Loops /\ InHand'
  BY QueueAssumption, IdleType DEF Prompt, Loops, Labels, InHand
<1>4. BookType'
  BY DEF Prompt, BookType
<1> QED BY <1>1, <1>2, <1>3, <1>4

LEMMA CancelKeeps ==
  ASSUME IInv, NEW kind \in {"keep", "stop", "legacy", "named"}, NEW name \in Messages \cup
         {None}, Cancel(kind, name)
  PROVE  IInv'
<1> USE DEF IInv, TypeOK, At
<1>1. QueueType' /\ RunningIsFront'
  BY DEF Cancel, QueueType, RunningIsFront, state
<1>2. TurnType'
  BY DEF Cancel, TurnType, turns
<1>3. loop' \in Loops /\ InHand'
  <2>1. PICK label \in {"rewind", "teardown", "claim"} :
          loop' = [Idle EXCEPT !.kind = kind, !.msg = name, !.at = label]
    BY DEF Cancel
  <2> QED BY <2>1, IdleType DEF Loops, Labels, InHand
<1>4. BookType'
  BY EntryMessages DEF Cancel, TurnType, BookType
<1> QED BY <1>1, <1>2, <1>3, <1>4

LEMMA InterjectKeeps == ASSUME IInv, NEW m \in Interjections, Interject(m) PROVE IInv'
<1> USE DEF IInv, TypeOK, At
<1>1. QueueType' /\ RunningIsFront'
  <2>1. CASE pin # None
    BY <2>1 DEF Interject, QueueType, RunningIsFront, FrontMsg
  <2>2. CASE pin = None
    <3> DEFINE e == <<[msg |-> m]>>
    <3>1. Len(e) = 1 /\ \A i \in 1..1 : e[i].msg \in Messages
      BY SchedulerAssumption
    <3>2. /\ WithFallbacks(queue, running, e) \in Seq(Row)
          /\ queue # <<>> /\ FrontMsg(queue) = running
               => SameHead(queue, WithFallbacks(queue, running, e))
      <4> HIDE DEF e
      <4> QED BY <3>1, FallbackRows DEF QueueType
    <3>3. queue' = WithFallbacks(queue, running, e) /\ UNCHANGED <<running, gate>>
      BY <2>2 DEF Interject
    <3>4. RunningIsFront'
      BY <3>2, <3>3, FrontKept
    <3> QED BY <3>2, <3>3, <3>4 DEF Interject, QueueType
  <2> QED BY <2>1, <2>2
<1>2. TurnType'
  <2>1. CASE pin # None
    <3>1. [msg |-> m, aim |-> pin] \in Entry
      BY <2>1, SchedulerAssumption DEF TurnType, Entry
    <3>2. Append(buffer, [msg |-> m, aim |-> pin]) \in Seq(Entry)
      BY <3>1 DEF TurnType
    <3> QED BY <2>1, <3>2 DEF Interject, TurnType, turns
  <2>2. CASE pin = None
    BY <2>2 DEF Interject, TurnType, turns
  <2> QED BY <2>1, <2>2
<1>3. loop' \in Loops /\ InHand'
  <2>1. CASE pin # None
    BY <2>1, LoopKept DEF Interject
  <2>2. CASE pin = None
    BY <2>2, Returned DEF Interject, Labels
  <2> QED BY <2>1, <2>2
<1>4. BookType'
  BY DEF Interject, BookType
<1> QED BY <1>1, <1>2, <1>3, <1>4

LEMMA RemoveRowKeeps ==
  ASSUME IInv, NEW p \in Prompts, NEW fresh \in BOOLEAN, RemoveRow(p, fresh)
  PROVE  IInv'
<1> USE DEF IInv, TypeOK, At
<1>1. QueueType' /\ RunningIsFront'
  <2>1. PICK S \in SUBSET {i \in DOMAIN queue : queue[i].msg # running} : RowRemoved(S)
    BY DEF RemoveRow, EditableRows, Positions
  <2>2. queue' \in Seq(Row) /\ RunningIsFront'
    BY <2>1, RemovedRows DEF RemoveRow
  <2> QED BY <2>2 DEF RemoveRow, QueueType, Holding
<1>2. TurnType'
  BY DEF RemoveRow, TurnType, turns
<1>3. loop' \in Loops /\ InHand'
  BY Returned DEF RemoveRow, Labels
<1>4. BookType'
  <2>1. PICK S \in SUBSET (DOMAIN queue) : RowRemoved(S)
    BY DEF RemoveRow, EditableRows, Positions
  <2> QED BY <2>1, RemovedBook DEF RemoveRow
<1> QED BY <1>1, <1>2, <1>3, <1>4

LEMMA ClearRowsKeeps == ASSUME IInv, NEW owner, ClearRows(owner) PROVE IInv'
<1> USE DEF IInv, TypeOK, At
<1>1. QueueType' /\ RunningIsFront'
  <2>1. PICK S \in SUBSET {i \in DOMAIN queue : queue[i].msg # running} : RowRemoved(S)
    BY DEF ClearRows, EditableRows, Positions
  <2>2. queue' \in Seq(Row) /\ RunningIsFront'
    BY <2>1, RemovedRows DEF ClearRows
  <2> QED BY <2>2 DEF ClearRows, QueueType, Holding
<1>2. TurnType'
  BY DEF ClearRows, TurnType, turns
<1>3. loop' \in Loops /\ InHand'
  BY Returned DEF ClearRows, Labels
<1>4. BookType'
  <2>1. PICK S \in SUBSET (DOMAIN queue) : RowRemoved(S)
    BY DEF ClearRows, EditableRows, Positions
  <2> QED BY <2>1, RemovedBook DEF ClearRows
<1> QED BY <1>1, <1>2, <1>3, <1>4

LEMMA ReorderRowsKeeps == ASSUME IInv, ReorderRows PROVE IInv'
<1> USE DEF IInv, TypeOK, At
<1>1. QueueType' /\ RunningIsFront'
  <2>1. /\ queue' \in Seq(Row)
        /\ queue # <<>> /\ FrontMsg(queue) = running => SameHead(queue, queue')
    BY ReorderedRows DEF ReorderRows, QueueType
  <2>2. RunningIsFront'
    BY <2>1, FrontKept DEF ReorderRows
  <2> QED BY <2>1, <2>2 DEF ReorderRows, QueueType
<1>2. TurnType'
  BY DEF ReorderRows, TurnType, turns
<1>3. loop' \in Loops /\ InHand'
  BY Returned DEF ReorderRows, Labels
<1>4. BookType'
  BY BookKept DEF ReorderRows, book
<1> QED BY <1>1, <1>2, <1>3, <1>4

LEMMA EditRowKeeps ==
  ASSUME IInv, NEW p \in Prompts, NEW blank \in BOOLEAN, EditRow(p, blank)
  PROVE  IInv'
<1> USE DEF IInv, TypeOK, At
<1>1. QueueType' /\ RunningIsFront'
  BY DEF EditRow, Holding, QueueType, RunningIsFront, FrontMsg
<1>2. TurnType'
  BY DEF EditRow, TurnType, turns
<1>3. loop' \in Loops /\ InHand'
  BY Returned DEF EditRow, Labels
<1>4. BookType'
  BY BookKept DEF EditRow, book
<1> QED BY <1>1, <1>2, <1>3, <1>4

LEMMA HoldRowKeeps == ASSUME IInv, NEW p \in Prompts, HoldRow(p) PROVE IInv'
<1> USE DEF IInv, TypeOK, At
<1>1. QueueType' /\ RunningIsFront'
  BY DEF HoldRow, QueueType, RunningIsFront, FrontMsg
<1>2. TurnType'
  BY DEF HoldRow, TurnType, turns
<1>3. loop' \in Loops /\ InHand'
  BY LoopKept DEF HoldRow, state
<1>4. BookType'
  BY BookKept DEF HoldRow, book
<1> QED BY <1>1, <1>2, <1>3, <1>4

LEMMA ReleaseRowKeeps == ASSUME IInv, NEW p \in Prompts, ReleaseRow(p) PROVE IInv'
<1> USE DEF IInv, TypeOK, At
<1>1. QueueType' /\ RunningIsFront'
  BY DEF ReleaseRow, Holding, QueueType, RunningIsFront, FrontMsg
<1>2. TurnType'
  BY DEF ReleaseRow, TurnType, turns
<1>3. loop' \in Loops /\ InHand'
  BY Returned DEF ReleaseRow, Labels
<1>4. BookType'
  BY BookKept DEF ReleaseRow, book
<1> QED BY <1>1, <1>2, <1>3, <1>4

LEMMA HoldAgesKeeps == ASSUME IInv, NEW p \in Prompts, HoldAges(p) PROVE IInv'
<1> USE DEF IInv, TypeOK, At
<1>1. QueueType' /\ RunningIsFront'
  BY DEF HoldAges, QueueType, RunningIsFront, FrontMsg
<1>2. TurnType'
  BY DEF HoldAges, TurnType, turns
<1>3. loop' \in Loops /\ InHand'
  BY LoopKept DEF HoldAges, state
<1>4. BookType'
  BY BookKept DEF HoldAges, book
<1> QED BY <1>1, <1>2, <1>3, <1>4

LEMMA SendRowNowKeeps ==
  ASSUME IInv, NEW p \in Prompts, NEW fresh \in BOOLEAN, SendRowNow(p, fresh)
  PROVE  IInv'
<1> USE DEF IInv, TypeOK, At
<1>1. QueueType' /\ RunningIsFront'
  <2>1. CASE fresh /\ EditableRows(p) # {}
    <3> DEFINE e == [msg |-> p, kind |-> "prompt", sendNow |-> TRUE]
    <3>1. PICK rest \in Without(queue, EditableRows(p)) :
            \E i \in SendNowSlots(rest, running) : queue' = InsertAt(rest, i, e)
      BY <2>1 DEF SendRowNow
    <3>2. PICK i \in SendNowSlots(rest, running) : queue' = InsertAt(rest, i, e)
      BY <3>1
    <3>3. e \in Row
      BY QueueAssumption DEF Row
    <3> HIDE DEF e
    <3>4. rest \in Seq(Row) /\ (1 \notin EditableRows(p) => SameHead(queue, rest))
      BY WithoutRows DEF QueueType
    <3>5. i \in 1..(Len(rest) + 1) /\ (rest # <<>> /\ FrontMsg(rest) = running => i # 1)
      BY <3>4, BehindFrontRange DEF SendNowSlots
    <3>6. queue' \in Seq(Row) /\ (i # 1 => SameHead(rest, queue'))
      BY <3>2, <3>3, <3>4, <3>5, InsertedRow
    <3>7. ASSUME queue # <<>>, FrontMsg(queue) = running PROVE SameHead(queue, queue')
      <4>1. 1 \notin EditableRows(p)
        BY <3>7 DEF EditableRows, Positions, FrontMsg
      <4>2. rest # <<>> /\ rest[1] = queue[1] /\ FrontMsg(rest) = running
        BY <4>1, <3>4, <3>7 DEF SameHead, FrontMsg
      <4> QED BY <4>2, <3>5, <3>6 DEF SameHead
    <3>8. RunningIsFront'
      BY <3>7, FrontKept DEF SendRowNow
    <3> QED BY <2>1, <3>6, <3>8 DEF SendRowNow, Holding, QueueType
  <2>2. CASE ~(fresh /\ EditableRows(p) # {})
    BY <2>2 DEF SendRowNow, Holding, QueueType, RunningIsFront, FrontMsg
  <2> QED BY <2>1, <2>2
<1>2. TurnType'
  BY DEF SendRowNow, TurnType, turns
<1>3. loop' \in Loops /\ InHand'
  <2>1. CASE fresh /\ EditableRows(p) # {}
    BY <2>1, AfterSendNowLoops DEF SendRowNow
  <2>2. CASE ~(fresh /\ EditableRows(p) # {})
    BY <2>2, Returned DEF SendRowNow, Labels
  <2> QED BY <2>1, <2>2
<1>4. BookType'
  BY BookKept DEF SendRowNow, book
<1> QED BY <1>1, <1>2, <1>3, <1>4

LEMMA LoopPromoteKeeps == ASSUME IInv, LoopPromote PROVE IInv'
<1> USE DEF IInv, TypeOK, At
<1>1. QueueType' /\ RunningIsFront'
  BY PromoteKept, ParkKept DEF LoopPromote
<1>2. TurnType'
  BY PromoteKept, ParkKept DEF LoopPromote
<1>3. loop' \in Loops /\ InHand'
  BY Returned DEF LoopPromote, Labels
<1>4. BookType'
  BY PromoteKept, ParkKept DEF LoopPromote, BookType
<1> QED BY <1>1, <1>2, <1>3, <1>4

LEMMA HelperQueueKeeps == ASSUME IInv, NEW h \in Resumes, HelperQueue(h) PROVE IInv'
<1> USE DEF IInv, TypeOK, At
<1>1. QueueType' /\ RunningIsFront'
  <2>1. [msg |-> h, kind |-> "resume", sendNow |-> FALSE] \in Row
    BY SchedulerAssumption DEF Row
  <2>2. queue' \in Seq(Row) /\ SameHead(queue, queue')
    BY <2>1 DEF HelperQueue, QueueType, SameHead
  <2>3. RunningIsFront'
    BY <2>2, FrontKept DEF HelperQueue
  <2> QED BY <2>2, <2>3 DEF HelperQueue, QueueType
<1>2. TurnType'
  BY DEF HelperQueue, TurnType, turns
<1>3. loop' \in Loops /\ InHand'
  BY LoopKept DEF HelperQueue, state
<1>4. BookType'
  BY DEF HelperQueue, BookType, Starters
<1> QED BY <1>1, <1>2, <1>3, <1>4

LEMMA HelperStartKeeps == ASSUME IInv, NEW h \in Starters, HelperStart(h) PROVE IInv'
<1> USE DEF IInv, TypeOK, At
<1>1. QueueType' /\ RunningIsFront'
  BY DEF HelperStart, QueueType, RunningIsFront, state
<1>2. TurnType'
  BY DEF HelperStart, TurnType, turns
<1>3. loop' \in Loops /\ InHand'
  BY LoopKept DEF HelperStart, state
<1>4. BookType'
  BY DEF HelperStart, BookType, FirstLook, book
<1> QED BY <1>1, <1>2, <1>3, <1>4

LEMMA HelperPromoteKeeps == ASSUME IInv, NEW h \in Starters, HelperPromote(h) PROVE IInv'
<1> USE DEF IInv, TypeOK, At
<1>1. QueueType' /\ RunningIsFront'
  BY PromoteKept, ParkKept DEF HelperPromote
<1>2. TurnType'
  BY PromoteKept, ParkKept DEF HelperPromote
<1>3. loop' \in Loops /\ InHand'
  BY LoopKept, PromoteKept, ParkKept DEF HelperPromote
<1>4. BookType'
  BY PromoteKept, ParkKept DEF HelperPromote, BookType
<1> QED BY <1>1, <1>2, <1>3, <1>4

-----------------------------------------------------------------------------
LEMMA StutterKeeps == ASSUME IInv, UNCHANGED vars PROVE IInv'
<1> USE DEF IInv, TypeOK, vars, state, turns, book
<1>1. QueueType' /\ RunningIsFront'
  BY DEF QueueType, RunningIsFront, FrontMsg
<1>2. TurnType'
  BY DEF TurnType
<1>3. loop' \in Loops /\ InHand'
  BY LoopKept
<1>4. BookType'
  BY BookKept
<1> QED BY <1>1, <1>2, <1>3, <1>4

LEMMA NextKeeps == ASSUME IInv, [Next]_vars PROVE IInv'
<1>1. CASE Command
  <2>1. CASE \E p \in Prompts, now \in BOOLEAN : Prompt(p, now)
    BY <2>1, PromptKeeps
  <2>2. CASE \E m \in Interjections : Interject(m)
    BY <2>2, InterjectKeeps
  <2>3. CASE \/ \E kind \in {"keep", "stop", "legacy"} : Cancel(kind, None)
             \/ \E p \in Prompts \ unsent : Cancel("named", p)
    BY <2>3, CancelKeeps, QueueAssumption
  <2>4. CASE \E p \in Prompts, fresh \in BOOLEAN : RemoveRow(p, fresh) \/ SendRowNow(p, fresh)
    BY <2>4, RemoveRowKeeps, SendRowNowKeeps
  <2>5. CASE \E p \in Prompts, blank \in BOOLEAN : EditRow(p, blank)
    BY <2>5, EditRowKeeps
  <2>6. CASE \E p \in Prompts : HoldRow(p) \/ ReleaseRow(p)
    BY <2>6, HoldRowKeeps, ReleaseRowKeeps
  <2>7. CASE ReorderRows \/ Shutdown
    BY <2>7, ReorderRowsKeeps, ShutdownKeeps
  <2>8. CASE \E o \in {Owners[p] : p \in Prompts} \cup {None} : ClearRows(o)
    BY <2>8, ClearRowsKeeps
  <2> QED BY <1>1, <2>1, <2>2, <2>3, <2>4, <2>5, <2>6, <2>7, <2>8 DEF Command
<1>2. CASE LoopStep \/ Complete
  BY <1>2, QueueSendNowKeeps, QueueBehindKeeps, FlushKeeps, ClaimKeeps, RewindBehindKeeps,
     RewindFrontKeeps, RewindClosedKeeps, RewoundKeeps, TeardownKeeps, SweepLostKeeps,
     SweepRewindKeeps, SweepKeepKeeps, TailedKeeps, ReleaseKeeps, FinishKeeps, PopKeeps,
     SettleKeeps, StartKeeps, LoopPromoteKeeps, CompleteKeeps DEF LoopStep
<1>3. CASE \E h \in Starters : HelperStep(h)
  <2> PICK h \in Starters : HelperStep(h)
    BY <1>3
  <2>1. HelperQueue(h) => h \in Resumes
    BY DEF HelperQueue
  <2> QED BY <2>1, HelperQueueKeeps, HelperStartKeeps, HelperPromoteKeeps DEF HelperStep
<1>4. CASE \E m \in Messages : TurnStep(m) \/ TurnDrop(m)
  BY <1>4, TurnKeeps, TurnWaitKeeps, TurnDrainKeeps, TurnSubmitKeeps DEF TurnStep
<1>5. CASE \E p \in Prompts : HoldAges(p)
  BY <1>5, HoldAgesKeeps
<1>6. CASE UNCHANGED vars
  BY <1>6, StutterKeeps
<1> QED BY <1>1, <1>2, <1>3, <1>4, <1>5, <1>6 DEF Next

LEMMA Invariant == Spec => []IInv
<1>1. Init => IInv
  BY InitEstablishes
<1>2. IInv /\ [Next]_vars => IInv'
  BY NextKeeps
<1> QED BY <1>1, <1>2, PTL DEF Spec

(* The session state is always of its type: every insertion, removal, merge *)
(* and reorder leaves a queue of rows, and no edit leaves a hold's stamp     *)
(* without its hold.                                                         *)
THEOREM TypeCorrect == Spec => []TypeOK
<1>1. IInv => TypeOK
  BY DEF IInv
<1> QED BY <1>1, Invariant, PTL

(* Outside a finalization the running turn's row is the head of the queue,   *)
(* whatever clients insert, reorder, remove or interject and whichever task  *)
(* promotes: completion and cancel may take the head for the running turn.   *)
THEOREM RunningAtFront == Spec => []RunningIsFront
<1>1. IInv => RunningIsFront
  BY DEF IInv
<1> QED BY <1>1, Invariant, PTL
=============================================================================

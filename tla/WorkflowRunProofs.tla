-------------------------- MODULE WorkflowRunProofs -------------------------
(***************************************************************************)
(* Theorems about WorkflowRun, for every script, any number of episodes,   *)
(* agents and faults.                                                      *)
(***************************************************************************)
EXTENDS WorkflowRun, FiniteSetTheorems, SequenceTheorems, WellFoundedInduction, TLAPS

\* The calls before a step: the sequence number its first call has.
Before(i) == Cardinality({c \in Calls : c[1] < i})

-----------------------------------------------------------------------------
(* The inductive invariant.                                                *)

Line == [entry : Entry, form : Forms]
SlotStates == {"queued", "running", "ok", "failed", "killed", "quota", "cancelled", "dropped"}
Hosts == {"serving", "draining", "stuck", "gone"}
Outcomes == {"none", "Completed", "Paused", "BudgetExceeded", "Failed", "Cancelled"}
EngineRec == [pc : Stages \cup {"gone"}, step : Nat \ {0}, seq : 0 .. MaxSeq, mem : Seq(Entry),
              slots : Seq(SlotStates), todo : Seq(Entry), out : Outcomes, err : 0 .. MaxSeq]

Types ==
    /\ file \in Seq(Line)
    /\ status \in Statuses
    /\ used \in Nat /\ budget \in Budget .. MaxBudget
    /\ blame \in 0 .. MaxSeq
    /\ epoch \in Episode /\ active \in {0, epoch}
    /\ eng \in [Episode -> EngineRec]
    /\ host \in [Episode -> Hosts]
    /\ cancelled \in [Episode -> BOOLEAN] /\ intent \in [Episode -> BOOLEAN]
    /\ saving \subseteq Episode
    /\ faults \in 0 .. MaxFaults
    /\ stomped \in BOOLEAN

\* An engine that does nothing more but wait for its watcher, or has gone.
Idle(r) == r.pc \in {"done", "gone"}

AgentStep(r) == Script[r.step].kind \in {"agent", "parallel"}

\* The entries of an engine's journal are numbered without a gap.
Dense(m) == \A i \in 1 .. Len(m) : m[i].seq = i - 1

Parked(r) ==
    /\ Idle(r) => r.slots = <<>>
    /\ r.pc # "record" => r.todo = <<>>
    /\ r.pc # "done" => r.err = 0
    /\ r.pc \in {"release", "done"} => r.out # "none"
    /\ ~Idle(r) => r.step <= Len(Script) \/ (r.pc = "check" /\ r.step = Len(Script) + 1)

\* Where the engine is in the script and how far its journal reaches.
Position(r) ==
    /\ r.pc \in {"check", "call", "reserve"} => r.seq = Before(r.step) /\ r.seq <= Len(r.mem)
    /\ r.pc = "reserve" => Len(r.mem) < Before(r.step + 1)
    /\ r.pc \in {"wait", "release", "record"} =>
          /\ r.seq = Before(r.step + 1)
          /\ Before(r.step) <= Len(r.mem) /\ Len(r.mem) < r.seq

\* The replies it waits for.
Replies(r) ==
    /\ r.pc \in {"reserve", "release"} => Len(r.slots) = 1 /\ AgentStep(r)
    /\ r.pc = "wait" => /\ Len(r.slots) = r.seq - Len(r.mem)
                        /\ \A j \in 1 .. Len(r.slots) : r.slots[j] # "quota"

\* The lines it has still to write continue its journal.
Continues(r) ==
    r.pc = "record" =>
        /\ Len(r.todo) = r.seq - Len(r.mem)
        /\ \A i \in 1 .. Len(r.todo) : /\ r.todo[i].seq = Len(r.mem) + i - 1
                                       /\ r.todo[i].agent = AgentStep(r)

Shape(r) == Dense(r.mem) /\ Parked(r) /\ Position(r) /\ Replies(r) /\ Continues(r)
Shapes == \A e \in Episode : Shape(eng[e])

\* The latest engine, unless told to stop, is the one the manager knows; an
\* interruption is final.
Told == /\ ~Idle(eng[epoch]) /\ ~cancelled[epoch] => /\ active = epoch
                                                     /\ ~stomped => status = "Active"
        /\ stomped => status = "Interrupted"

\* A watcher saves the outcome of an engine that has gone.
Saved == \A e \in saving : e <= epoch /\ Idle(eng[e])

\* What holds wherever a resume may overtake an engine.
EInv == Types /\ Shapes /\ Told /\ Saved

\* What holds if a resume never overtakes an engine at work.
OneEngine == \A e \in Episode : ~Idle(eng[e]) => e = epoch

AllWhole(f) == \A i \in 1 .. Len(f) : f[i].form = "whole"

\* An engine at work has the journal in memory as it is on disk.
InStep == ~Idle(eng[epoch]) => /\ AllWhole(file) /\ Len(file) = Len(eng[epoch].mem)
                               /\ \A i \in 1 .. Len(file) : file[i].entry = eng[epoch].mem[i]

\* The agents an engine has reserved and not yet journaled or given back.
Pending(r) ==
    IF (r.pc \in {"wait", "record"} /\ AgentStep(r)) \/ (r.pc = "release" /\ r.slots[1] = "queued")
    THEN r.seq - Len(r.mem)
    ELSE IF r.pc = "reserve" /\ r.slots[1] = "ok" THEN Before(r.step + 1) - Len(r.mem) ELSE 0

Covered == AgentEntries(file) + Pending(eng[epoch]) <= used /\ used <= budget

\* The call a run is blamed on was journaled, and nothing after it.
Blamed == /\ eng[epoch].err # 0 => AllWhole(file)
          /\ blame # 0 => Idle(eng[epoch]) /\ AllWhole(file)

\* What the script has seen is in the journal and stays there.
Holds(f, s) ==
    \A k \in 0 .. (MaxSeq - 1) : s[k] # {} =>
        k < Len(f) /\ f[k + 1].form # "torn" /\ s[k] = {f[k + 1].entry}
Remembered == seen \in [0 .. (MaxSeq - 1) -> SUBSET Entry] /\ Holds(file, seen)

Alone == OneEngine /\ Loads(file) /\ InStep /\ Covered /\ Blamed
Kin == Remembered /\ forked = {}

-----------------------------------------------------------------------------
(* The sequence numbers of a script.                                       *)

LEMMA ScriptSteps ==
  ASSUME NEW i \in 1 .. Len(Script)
  PROVE  /\ Script[i].kind \in Kinds /\ Script[i].n \in Nat \ {0} /\ Script[i].catch \in BOOLEAN
         /\ Script[i].kind # "parallel" => Script[i].n = 1
<1> DEFINE T == [kind : Kinds, n : Nat \ {0}, catch : BOOLEAN]
<1>1. Script \in Seq(T)
  BY WorkflowAssumption
<1> HIDE DEF T
<1>2. Script[i] \in T
  BY <1>1
<1>3. Script[i].kind # "parallel" => Script[i].n = 1
  BY WorkflowAssumption
<1> QED BY <1>2, <1>3 DEF T

LEMMA UpTo ==
  ASSUME NEW k \in Nat
  PROVE  IsFiniteSet(1 .. k) /\ Cardinality(1 .. k) = k
<1>1. 1 \in Int /\ k \in Int
  OBVIOUS
<1>2. Cardinality(1 .. k) = IF 1 > k THEN 0 ELSE k - 1 + 1
  BY <1>1, FS_Interval
<1>3. IsFiniteSet(1 .. k)
  BY <1>1, FS_Interval
<1> QED BY <1>2, <1>3

LEMMA CallsFinite == IsFiniteSet(Calls) /\ MaxSeq \in Nat /\ Len(Script) \in Nat
<1> DEFINE F == [i \in 1 .. Len(Script) |-> {i} \X (1 .. Script[i].n)]
           S == {F[i] : i \in 1 .. Len(Script)}
<1>1. Len(Script) \in Nat
  BY WorkflowAssumption
<1>2. IsFiniteSet(1 .. Len(Script))
  BY <1>1, UpTo
<1>3. IsFiniteSet(S)
  <2>1. F \in Surjection(1 .. Len(Script), S)
    BY DEF Surjection
  <2> QED BY <2>1, <1>2, FS_Surjection
<1>4. ASSUME NEW i \in 1 .. Len(Script) PROVE IsFiniteSet(F[i])
  <2>1. IsFiniteSet({i}) /\ IsFiniteSet(1 .. Script[i].n)
    BY ScriptSteps, FS_Singleton, UpTo
  <2> QED BY <2>1, FS_Product
<1>5. Calls = UNION S
  BY DEF Calls
<1>6. IsFiniteSet(Calls)
  BY <1>3, <1>4, <1>5, FS_UNION
<1> QED BY <1>1, <1>6, FS_CardinalityType DEF MaxSeq

LEMMA CallsBefore ==
  ASSUME NEW i
  PROVE  /\ IsFiniteSet({c \in Calls : c[1] < i})
         /\ Before(i) \in Nat /\ Before(i) <= MaxSeq
BY CallsFinite, FS_Subset, FS_CardinalityType DEF Before, MaxSeq

LEMMA BeforeFirst == Before(1) = 0
<1>1. \A c \in Calls : c[1] \in 1 .. Len(Script)
  BY DEF Calls
<1>2. {c \in Calls : c[1] < 1} = {}
  BY <1>1, CallsFinite
<1> QED BY <1>2, FS_EmptySet DEF Before

LEMMA BeforeStep ==
  ASSUME NEW i \in 1 .. Len(Script)
  PROVE  /\ Before(i + 1) = Before(i) + Script[i].n
         /\ Before(i) < MaxSeq
<1> DEFINE P == {c \in Calls : c[1] < i}
           Q == {c \in Calls : c[1] < i + 1}
           H == {i} \X (1 .. Script[i].n)
<1>1. \A c \in Calls : c[1] \in 1 .. Len(Script) /\ c \in {c[1]} \X (1 .. Script[c[1]].n)
  BY DEF Calls
<1>2. H \subseteq Calls /\ \A c \in H : c[1] = i
  BY DEF Calls
<1>3. Len(Script) \in Nat /\ Script[i].n \in Nat \ {0}
  BY CallsFinite, ScriptSteps
<1>4. Q = P \cup H
  <2>1. \A c \in Q : c \in P \/ c[1] = i
    BY <1>1, <1>3
  <2>2. \A c \in Q : c[1] = i => c \in H
    BY <1>1
  <2>3. P \subseteq Q
    BY <1>1, <1>3
  <2>4. H \subseteq Q
    BY <1>2, <1>3
  <2> QED BY <2>1, <2>2, <2>3, <2>4
<1>5. P \cap H = {}
  BY <1>2, <1>3
<1>6. IsFiniteSet(H) /\ Cardinality(H) = Script[i].n
  <2>1. IsFiniteSet({i}) /\ Cardinality({i}) = 1
    BY FS_Singleton
  <2>2. IsFiniteSet(1 .. Script[i].n) /\ Cardinality(1 .. Script[i].n) = Script[i].n
    BY <1>3, UpTo
  <2>3. Cardinality(H) = 1 * Script[i].n /\ IsFiniteSet(H)
    BY <2>1, <2>2, FS_Product
  <2> QED BY <2>3, <1>3
<1>7. IsFiniteSet(P) /\ Cardinality(P) \in Nat
  BY CallsBefore, FS_CardinalityType
<1>8. Cardinality(Q) = Cardinality(P) + Cardinality(H) - Cardinality(P \cap H)
  BY <1>4, <1>6, <1>7, FS_Union
<1>9. Cardinality(P \cap H) = 0
  BY <1>5, FS_EmptySet
<1>10. Before(i) = Cardinality(P) /\ Before(i + 1) = Cardinality(Q)
  BY DEF Before
<1> HIDE DEF P, Q, H
<1>11. Before(i + 1) = Before(i) + Script[i].n
  BY <1>6, <1>7, <1>8, <1>9, <1>10, <1>3
<1>12. Before(i + 1) <= MaxSeq /\ Before(i) \in Nat /\ MaxSeq \in Nat
  BY CallsBefore, CallsFinite
<1> QED BY <1>11, <1>12, <1>3

-----------------------------------------------------------------------------
(* The journal.                                                            *)

LEMMA FrontLast ==
  ASSUME NEW T, NEW f \in Seq(T), f # <<>>
  PROVE  /\ Len(f) \in Nat \ {0} /\ Last(f) = f[Len(f)] /\ f[Len(f)] \in T
         /\ Front(f) \in Seq(T) /\ Len(Front(f)) = Len(f) - 1
         /\ \A i \in 1 .. Len(f) - 1 : Front(f)[i] = f[i]
BY DEF Last, Front

LEMMA LineFields ==
  ASSUME NEW f \in Seq(Line), NEW i \in 1 .. Len(f)
  PROVE  f[i] \in Line /\ f[i].entry \in Entry /\ f[i].form \in Forms
<1>1. f[i] \in Line
  OBVIOUS
<1> QED BY <1>1 DEF Line

LEMMA EntryFields ==
  ASSUME NEW x \in Entry
  PROVE  x.seq \in 0 .. (MaxSeq - 1) /\ x.agent \in BOOLEAN /\ x.tag \in Tags /\ x.by \in Episode
BY DEF Entry

LEMMA Relabelled ==
  ASSUME NEW f \in Seq(Line), f # <<>>, NEW x \in Forms
  PROVE  LET g == [f EXCEPT ![Len(f)].form = x] IN
         /\ g \in Seq(Line) /\ Len(g) = Len(f)
         /\ \A i \in 1 .. Len(f) : g[i].entry = f[i].entry /\ (i # Len(f) => g[i] = f[i])
         /\ g[Len(f)].form = x
<1> DEFINE n == Len(f)
           h == [f[n] EXCEPT !.form = x]
           g == [f EXCEPT ![n] = h]
<1>1. n \in 1 .. Len(f) /\ f[n] \in Line
  BY FrontLast
<1>2. h \in Line /\ h.entry = f[n].entry /\ h.form = x
  BY <1>1 DEF Line
<1> HIDE DEF h
<1>3. g \in Seq(Line) /\ Len(g) = Len(f) /\ g[n] = h
      /\ \A i \in 1 .. Len(f) : i # n => g[i] = f[i]
  BY <1>1, <1>2
<1>4. \A i \in 1 .. Len(f) : g[i].entry = f[i].entry
  BY <1>2, <1>3
<1>5. g = [f EXCEPT ![Len(f)].form = x]
  BY DEF h
<1> QED BY <1>2, <1>3, <1>4, <1>5

LEMMA RepairedIs ==
  ASSUME NEW f \in Seq(Line), Loads(f)
  PROVE  LET g == Repaired(f) IN
         /\ g \in Seq(Line) /\ AllWhole(g) /\ Len(g) <= Len(f)
         /\ \A i \in 1 .. Len(g) : g[i].entry = f[i].entry /\ g[i].entry.seq = i - 1
         /\ Len(g) # Len(f) => Len(g) = Len(f) - 1 /\ f[Len(f)].form = "torn"
         /\ AllWhole(f) => Len(g) = Len(f)
<1> DEFINE g == Repaired(f)
<1>0. Len(f) \in Nat
  OBVIOUS
<1>1. CASE f = <<>>
  BY <1>1 DEF Repaired, AllWhole
<1>2. CASE f # <<>> /\ Last(f).form = "torn"
  <2>1. Len(f) \in Nat \ {0} /\ Last(f) = f[Len(f)] /\ Front(f) \in Seq(Line)
        /\ Len(Front(f)) = Len(f) - 1 /\ \A i \in 1 .. Len(f) - 1 : Front(f)[i] = f[i]
    BY <1>2, FrontLast
  <2>2. g = Front(f)
    BY <1>2 DEF Repaired
  <2>3. \A i \in 1 .. Len(f) - 1 : f[i].form = "whole" /\ f[i].entry.seq = i - 1
    BY <2>1 DEF Loads
  <2>4. ~AllWhole(f)
    BY <2>1, <1>2 DEF AllWhole
  <2> HIDE DEF g
  <2>5. g \in Seq(Line) /\ AllWhole(g) /\ Len(g) = Len(f) - 1
        /\ \A i \in 1 .. Len(g) : g[i].entry = f[i].entry /\ g[i].entry.seq = i - 1
    BY <2>1, <2>2, <2>3 DEF AllWhole
  <2> QED BY <2>1, <2>4, <2>5, <1>2 DEF g
<1>3. CASE f # <<>> /\ Last(f).form # "torn"
  <2>1. g = [f EXCEPT ![Len(f)].form = "whole"]
    BY <1>3 DEF Repaired
  <2>2. "whole" \in Forms
    BY DEF Forms
  <2>3. /\ g \in Seq(Line) /\ Len(g) = Len(f)
        /\ \A i \in 1 .. Len(f) : g[i].entry = f[i].entry /\ (i # Len(f) => g[i] = f[i])
        /\ g[Len(f)].form = "whole"
    BY <1>3, <2>1, <2>2, Relabelled
  <2>4. Last(f) = f[Len(f)] /\ Len(f) \in Nat \ {0}
    BY <1>3, FrontLast
  <2>5. \A i \in 1 .. Len(f) : f[i].entry.seq = i - 1 /\ (i # Len(f) => f[i].form = "whole")
    BY <1>3, <2>4 DEF Loads
  <2> HIDE DEF g
  <2>6. AllWhole(g)
    BY <2>3, <2>5 DEF AllWhole
  <2> QED BY <2>3, <2>5, <2>6 DEF g
<1> QED BY <1>1, <1>2, <1>3

LEMMA AgentsFinite ==
  ASSUME NEW f \in Seq(Line)
  PROVE  /\ IsFiniteSet({i \in 1 .. Len(f) : f[i].entry.agent}) /\ AgentEntries(f) \in Nat
<1>1. Len(f) \in Nat
  OBVIOUS
<1>2. {i \in 1 .. Len(f) : f[i].entry.agent} \subseteq 1 .. Len(f)
  OBVIOUS
<1> QED BY <1>1, <1>2, UpTo, FS_Subset, FS_CardinalityType DEF AgentEntries

LEMMA AgentsOfPrefix ==
  ASSUME NEW f \in Seq(Line), NEW g \in Seq(Line), Len(g) <= Len(f),
         \A i \in 1 .. Len(g) : g[i].entry = f[i].entry
  PROVE  AgentEntries(g) <= AgentEntries(f)
<1>1. Len(f) \in Nat /\ Len(g) \in Nat
  OBVIOUS
<1>2. {i \in 1 .. Len(g) : g[i].entry.agent} \subseteq {i \in 1 .. Len(f) : f[i].entry.agent}
  BY <1>1
<1> QED BY <1>2, AgentsFinite, FS_Subset DEF AgentEntries

LEMMA AgentsAppended ==
  ASSUME NEW f \in Seq(Line), NEW l \in Line
  PROVE  /\ Append(f, l) \in Seq(Line)
         /\ AgentEntries(Append(f, l)) = AgentEntries(f) + (IF l.entry.agent THEN 1 ELSE 0)
<1> DEFINE g == Append(f, l)
           n == Len(f) + 1
           F == {i \in 1 .. Len(f) : f[i].entry.agent}
           G == {i \in 1 .. Len(g) : g[i].entry.agent}
<1>1. g \in Seq(Line) /\ Len(f) \in Nat /\ Len(g) = n /\ g[n] = l /\ \A i \in 1 .. Len(f) : g[i] = f[i]
  OBVIOUS
<1>2. n \notin F /\ 1 .. Len(g) = (1 .. Len(f)) \cup {n} /\ n \notin 1 .. Len(f)
  BY <1>1
<1>3. G = IF l.entry.agent THEN F \cup {n} ELSE F
  <2> HIDE DEF n, g
  <2> QED BY <1>1, <1>2
<1>4. IsFiniteSet(F) /\ Cardinality(F) \in Nat
  BY AgentsFinite, FS_CardinalityType
<1>5. Cardinality(F \cup {n}) = Cardinality(F) + 1
  BY <1>2, <1>4, FS_AddElement
<1>6. AgentEntries(f) = Cardinality(F) /\ AgentEntries(g) = Cardinality(G)
  BY DEF AgentEntries
<1>7. g \in Seq(Line)
  BY <1>1
<1> HIDE DEF F, G, n, g
<1>8. AgentEntries(g) = AgentEntries(f) + (IF l.entry.agent THEN 1 ELSE 0)
  BY <1>3, <1>4, <1>5, <1>6
<1> QED BY <1>7, <1>8 DEF g

\* What an append of en leaves of the journal f.
Extends(f, g, en) ==
    g = f \/ \E form \in {"torn", "open", "whole"} : g = Append(f, [entry |-> en, form |-> form])

LEMMA AppendWhole ==
  ASSUME NEW f \in Seq(Line), AllWhole(f), NEW en, NEW form
  PROVE  AppendLine(f, en, form) = Append(f, [entry |-> en, form |-> form])
<1>1. f # <<>> => Last(f).form = "whole"
  <2> SUFFICES ASSUME f # <<>> PROVE Last(f).form = "whole"
    OBVIOUS
  <2>1. Last(f) = f[Len(f)] /\ Len(f) \in 1 .. Len(f)
    BY FrontLast
  <2> QED BY <2>1 DEF AllWhole
<1> QED BY <1>1 DEF AppendLine

LEMMA AppendLineTyped ==
  ASSUME NEW f \in Seq(Line), NEW en \in Entry, NEW form \in Forms
  PROVE  AppendLine(f, en, form) \in Seq(Line)
<1>1. [entry |-> en, form |-> form] \in Line /\ "bad" \in Forms
  BY DEF Line, Forms
<1>2. f # <<>> => [f EXCEPT ![Len(f)].form = "bad"] \in Seq(Line)
  BY <1>1, Relabelled
<1>3. PICK l \in Line : l = [entry |-> en, form |-> form]
  BY <1>1
<1>4. Append(f, l) \in Seq(Line)
  BY <1>3
<1> QED BY <1>2, <1>3, <1>4 DEF AppendLine

LEMMA PartialTyped ==
  ASSUME file \in Seq(Line), NEW en \in Entry, NEW g \in PartialAppends(en)
  PROVE  g \in Seq(Line)
<1>1. \A form \in {"torn", "open", "whole"} : AppendLine(file, en, form) \in Seq(Line)
  BY AppendLineTyped DEF Forms
<1> QED BY <1>1 DEF PartialAppends

LEMMA PartialExtends ==
  ASSUME file \in Seq(Line), AllWhole(file), NEW en, NEW g \in PartialAppends(en)
  PROVE  Extends(file, g, en)
<1>1. \A form : AppendLine(file, en, form) = Append(file, [entry |-> en, form |-> form])
  BY AppendWhole
<1> QED BY <1>1 DEF PartialAppends, Extends

LEMMA ExtendedLoads ==
  ASSUME NEW f \in Seq(Line), NEW g, NEW en \in Entry, Extends(f, g, en), AllWhole(f),
         \A i \in 1 .. Len(f) : f[i].entry.seq = i - 1, en.seq = Len(f)
  PROVE  /\ g \in Seq(Line) /\ Loads(g)
         /\ AgentEntries(g) <= AgentEntries(f) + (IF en.agent THEN 1 ELSE 0)
         /\ Len(f) <= Len(g) /\ \A i \in 1 .. Len(f) : g[i] = f[i]
<1>a. Len(f) \in Nat
  OBVIOUS
<1>0. Len(f) \in Nat /\ AgentEntries(f) \in Nat
  BY <1>a, AgentsFinite
<1>1. CASE g = f
  BY <1>0, <1>1 DEF Loads, AllWhole
<1>2. ASSUME NEW form \in {"torn", "open", "whole"}, g = Append(f, [entry |-> en, form |-> form])
      PROVE  /\ g \in Seq(Line) /\ Loads(g)
             /\ AgentEntries(g) <= AgentEntries(f) + (IF en.agent THEN 1 ELSE 0)
             /\ Len(f) <= Len(g) /\ \A i \in 1 .. Len(f) : g[i] = f[i]
  <2> DEFINE l == [entry |-> en, form |-> form]
  <2>1. l \in Line /\ l.entry = en /\ l.form = form
    BY DEF Line, Forms
  <2> HIDE DEF l
  <2>2. g = Append(f, l)
    BY <1>2 DEF l
  <2>3. g \in Seq(Line) /\ AgentEntries(g) = AgentEntries(f) + (IF en.agent THEN 1 ELSE 0)
    BY <2>1, <2>2, AgentsAppended
  <2>4. Len(g) = Len(f) + 1 /\ g[Len(g)] = l /\ \A i \in 1 .. Len(f) : g[i] = f[i]
    BY <2>1, <2>2
  <2>5. Loads(g)
    BY <2>1, <2>4, <1>0 DEF Loads, AllWhole
  <2> QED BY <2>3, <2>4, <2>5, <1>0
<1> QED BY <1>1, <1>2 DEF Extends

\* The journal a resume starts from.
LEMMA KeptIs ==
  ASSUME Types, Loads(file)
  PROVE  /\ Kept \in Seq(Line) /\ AllWhole(Kept) /\ Len(Kept) <= Len(file)
         /\ \A i \in 1 .. Len(Kept) : Kept[i].entry = file[i].entry /\ Kept[i].entry.seq = i - 1
         /\ AgentEntries(Kept) <= AgentEntries(file)
         /\ Entries(Kept) \in Seq(Entry) /\ Len(Entries(Kept)) = Len(Kept) /\ Dense(Entries(Kept))
         /\ \A i \in 1 .. Len(Kept) : Entries(Kept)[i] = Kept[i].entry
<1> DEFINE g == Repaired(file)
<1>1. /\ g \in Seq(Line) /\ AllWhole(g) /\ Len(g) <= Len(file)
      /\ \A i \in 1 .. Len(g) : g[i].entry = file[i].entry /\ g[i].entry.seq = i - 1
  BY RepairedIs DEF Types
<1> HIDE DEF g
<1>2. PICK k : k = Kept
  OBVIOUS
<1>3. k = IF Prunes(g) THEN Front(g) ELSE g
  BY <1>2 DEF Kept, g
<1>4. Len(g) \in Nat /\ Len(file) \in Nat /\ file \in Seq(Line)
  BY <1>1 DEF Types
<1>5. /\ k \in Seq(Line) /\ AllWhole(k) /\ Len(k) <= Len(file)
      /\ \A i \in 1 .. Len(k) : k[i].entry = file[i].entry /\ k[i].entry.seq = i - 1
  <2>1. CASE Prunes(g)
    <3>1. g # <<>> /\ k = Front(g)
      BY <2>1, <1>3 DEF Prunes
    <3>2. k \in Seq(Line) /\ Len(k) = Len(g) - 1 /\ \A i \in 1 .. Len(g) - 1 : k[i] = g[i]
      BY <3>1, <1>1, FrontLast
    <3>3. Len(k) <= Len(g) /\ Len(k) \in Nat /\ \A i \in 1 .. Len(k) : i \in 1 .. Len(g) /\ k[i] = g[i]
      BY <3>1, <3>2, <1>4
    <3>4. \A i \in 1 .. Len(k) : k[i].entry = file[i].entry /\ k[i].entry.seq = i - 1
      BY <3>3, <1>1
    <3>5. AllWhole(k)
      BY <3>3, <1>1 DEF AllWhole
    <3>6. Len(k) <= Len(file)
      BY <3>3, <1>1, <1>4
    <3> QED BY <3>2, <3>4, <3>5, <3>6
  <2>2. CASE ~Prunes(g)
    BY <2>2, <1>1, <1>3
  <2> QED BY <2>1, <2>2
<1>6. AgentEntries(k) <= AgentEntries(file)
  BY <1>4, <1>5, AgentsOfPrefix
<1>7. /\ Entries(k) \in Seq(Entry) /\ Len(Entries(k)) = Len(k)
      /\ \A i \in 1 .. Len(k) : Entries(k)[i] = k[i].entry
  <2>1. \A i \in 1 .. Len(k) : k[i].entry \in Entry
    BY <1>5, LineFields
  <2>2. Len(k) \in Nat
    BY <1>5
  <2> QED BY <2>1, <2>2 DEF Entries
<1>8. Dense(Entries(k))
  BY <1>5, <1>7 DEF Dense
<1> QED BY <1>2, <1>5, <1>6, <1>7, <1>8

-----------------------------------------------------------------------------
(* The engine's records.                                                   *)

LEMMA RecFields ==
  ASSUME NEW r \in EngineRec
  PROVE  /\ r.pc \in Stages \cup {"gone"} /\ r.step \in Nat \ {0} /\ r.seq \in 0 .. MaxSeq
         /\ r.mem \in Seq(Entry) /\ Len(r.mem) \in Nat /\ r.slots \in Seq(SlotStates) /\ Len(r.slots) \in Nat
         /\ r.todo \in Seq(Entry) /\ Len(r.todo) \in Nat /\ r.out \in Outcomes /\ r.err \in 0 .. MaxSeq
<1>1. /\ r.pc \in Stages \cup {"gone"} /\ r.step \in Nat \ {0} /\ r.seq \in 0 .. MaxSeq
      /\ r.mem \in Seq(Entry) /\ r.slots \in Seq(SlotStates)
      /\ r.todo \in Seq(Entry) /\ r.out \in Outcomes /\ r.err \in 0 .. MaxSeq
  BY DEF EngineRec
<1> QED BY <1>1

LEMMA ExitedIs ==
  ASSUME NEW r \in EngineRec, Dense(r.mem), NEW out \in Outcomes \ {"none"}, NEW err \in 0 .. MaxSeq
  PROVE  LET x == Exited(r, out, err) IN
         /\ x \in EngineRec /\ Shape(x) /\ Idle(x) /\ Pending(x) = 0
         /\ x.pc = "done" /\ x.mem = r.mem /\ x.err = err
<1> DEFINE x == Exited(r, out, err)
<1>0. <<>> \in Seq(Entry) /\ <<>> \in Seq(SlotStates)
  OBVIOUS
<1>1. /\ x \in EngineRec /\ x.pc = "done" /\ x.mem = r.mem /\ x.err = err /\ x.out = out
      /\ x.slots = <<>> /\ x.todo = <<>>
  BY <1>0 DEF Exited, EngineRec, Stages
<1> HIDE DEF x
<1>2. Idle(x)
  BY <1>1 DEF Idle
<1>3. Shape(x)
  BY <1>1, <1>2 DEF Shape, Parked, Position, Replies, Continues
<1>4. Pending(x) = 0
  BY <1>1 DEF Pending
<1> QED BY <1>1, <1>2, <1>3, <1>4 DEF x

LEMMA OffIs == /\ Off \in EngineRec /\ Shape(Off) /\ Idle(Off) /\ Pending(Off) = 0 /\ Off.pc = "gone"
               /\ Off.slots = <<>> /\ Off.todo = <<>> /\ Off.step = 1 /\ Off.seq = 0 /\ Off.err = 0
<1> DEFINE x == Off
<1>0. <<>> \in Seq(Entry) /\ <<>> \in Seq(SlotStates) /\ MaxSeq \in Nat
  BY CallsFinite
<1>1. /\ x \in EngineRec /\ x.pc = "gone" /\ x.mem = <<>> /\ x.err = 0
      /\ x.slots = <<>> /\ x.todo = <<>> /\ x.step = 1 /\ x.seq = 0
  BY <1>0 DEF Off, EngineRec, Stages, Outcomes
<1> HIDE DEF x
<1>2. Idle(x)
  BY <1>1 DEF Idle
<1>3. Shape(x)
  BY <1>1, <1>2 DEF Shape, Parked, Position, Replies, Continues, Dense
<1>4. Pending(x) = 0
  BY <1>1 DEF Pending
<1> QED BY <1>1, <1>2, <1>3, <1>4 DEF x

LEMMA StartedIs ==
  ASSUME NEW m \in Seq(Entry), Dense(m)
  PROVE  LET x == Started(m) IN
         /\ x \in EngineRec /\ Shape(x) /\ ~Idle(x) /\ Pending(x) = 0
         /\ x.pc = "check" /\ x.mem = m /\ x.err = 0
<1> DEFINE x == Started(m)
<1>0. <<>> \in Seq(Entry) /\ <<>> \in Seq(SlotStates) /\ MaxSeq \in Nat /\ Len(Script) \in Nat /\ Len(m) \in Nat
  BY CallsFinite
<1>1. /\ x \in EngineRec /\ x.pc = "check" /\ x.mem = m /\ x.err = 0
      /\ x.slots = <<>> /\ x.todo = <<>> /\ x.step = 1 /\ x.seq = 0
  BY OffIs DEF Started, EngineRec, Stages
<1> HIDE DEF x
<1>2. ~Idle(x)
  BY <1>1 DEF Idle
<1>3. Position(x)
  BY <1>0, <1>1, BeforeFirst DEF Position
<1>4. Parked(x)
  BY <1>0, <1>1, <1>2 DEF Parked
<1>5. Shape(x)
  BY <1>1, <1>3, <1>4 DEF Shape, Replies, Continues
<1>6. Pending(x) = 0
  BY <1>1 DEF Pending
<1> QED BY <1>1, <1>2, <1>5, <1>6 DEF x

LEMMA Queue ==
  ASSUME NEW k \in Nat
  PROVE  LET s == [j \in 1 .. k |-> "queued"] IN
         s \in Seq(SlotStates) /\ Len(s) = k /\ \A j \in 1 .. k : s[j] = "queued"
BY DEF SlotStates

LEMMA SentIs ==
  ASSUME NEW e \in Episode, NEW r \in EngineRec, NEW pc \in {"reserve", "wait"}, NEW k \in Nat
  PROVE  LET x == Sent(e, r, pc, k) IN
         \/ x = Exited(r, "Failed", 0)
         \/ /\ x \in EngineRec /\ x.pc = pc /\ Len(x.slots) = k
            /\ \A j \in 1 .. k : x.slots[j] = "queued"
            /\ x.step = r.step /\ x.seq = r.seq /\ x.mem = r.mem /\ x.todo = r.todo /\ x.err = r.err
<1>1. CASE HungUp(e)
  BY <1>1 DEF Sent
<1>2. CASE ~HungUp(e)
  <2> DEFINE s == [j \in 1 .. k |-> "queued"]
             x == [r EXCEPT !.pc = pc, !.slots = s]
  <2>1. Sent(e, r, pc, k) = x
    BY <1>2 DEF Sent
  <2>2. s \in Seq(SlotStates) /\ Len(s) = k /\ \A j \in 1 .. k : s[j] = "queued"
    BY Queue
  <2> HIDE DEF s
  <2>3. /\ x \in EngineRec /\ x.pc = pc /\ x.slots = s
        /\ x.step = r.step /\ x.seq = r.seq /\ x.mem = r.mem /\ x.todo = r.todo /\ x.err = r.err
    BY <2>2 DEF EngineRec, Stages
  <2> QED BY <2>1, <2>2, <2>3
<1> QED BY <1>1, <1>2

\* The answers are in: the engine ends, or goes on to the next step.
LEMMA DeliveredIs ==
  ASSUME NEW e \in Episode, NEW r \in EngineRec, Dense(r.mem), r.step = eng[e].step,
         r.step <= Len(Script), r.seq = Before(r.step + 1), r.seq <= Len(r.mem),
         r.todo = <<>>, r.err = 0, NEW recorded \in BOOLEAN
  PROVE  LET x == Delivered(e, r, recorded) IN
         /\ x \in EngineRec /\ Shape(x) /\ Pending(x) = 0 /\ x.mem = r.mem
<1> DEFINE x == Delivered(e, r, recorded)
           y == [r EXCEPT !.pc = "check", !.step = r.step + 1, !.slots = <<>>]
<1>1. r.seq \in 0 .. MaxSeq /\ 0 \in 0 .. MaxSeq /\ "Failed" \in Outcomes \ {"none"} /\ "Paused" \in Outcomes \ {"none"}
      /\ r.step \in Nat \ {0} /\ Len(Script) \in Nat
  BY RecFields, CallsFinite DEF Outcomes
<1>2. \/ x = y \/ x = Exited(r, "Failed", 0) \/ x = Exited(r, "Failed", r.seq)
      \/ x = Exited(r, "Paused", 0)
  BY DEF Delivered
<1>3. CASE x # y
  BY <1>1, <1>2, <1>3, ExitedIs
<1>4. y \in EngineRec /\ Shape(y) /\ Pending(y) = 0 /\ y.mem = r.mem
  <2>1. <<>> \in Seq(SlotStates) /\ r.step + 1 \in Nat \ {0}
    BY <1>1
  <2>2. /\ y \in EngineRec /\ y.pc = "check" /\ y.step = r.step + 1 /\ y.slots = <<>>
        /\ y.seq = r.seq /\ y.mem = r.mem /\ y.todo = r.todo /\ y.err = r.err
    BY <2>1 DEF EngineRec, Stages
  <2> HIDE DEF y
  <2>3. ~Idle(y)
    BY <2>2 DEF Idle
  <2>4. Parked(y)
    BY <2>2, <2>3, <1>1 DEF Parked
  <2>5. Position(y)
    BY <2>2 DEF Position
  <2> QED BY <2>2, <2>4, <2>5 DEF Shape, Replies, Continues, Pending
<1> QED BY <1>3, <1>4

LEMMA Fields ==
  ASSUME EInv, NEW e \in Episode
  PROVE  eng[e] \in EngineRec /\ Shape(eng[e]) /\ Step(e) = Script[eng[e].step] /\ IsAgent(e) = AgentStep(eng[e])
BY DEF EInv, Types, Shapes, Step, IsAgent, AgentStep

\* The calls of the step at hand that the journal does not cover.
LEMMA LiveIs ==
  ASSUME EInv, NEW e \in Episode, eng[e].pc \in {"call", "reserve"}
  PROVE  /\ eng[e].step \in 1 .. Len(Script)
         /\ Before(eng[e].step + 1) = eng[e].seq + Step(e).n
         /\ eng[e].seq <= Len(eng[e].mem) /\ Before(eng[e].step + 1) \in 0 .. MaxSeq
         /\ LiveCount(e) = IF Len(eng[e].mem) >= Before(eng[e].step + 1) THEN 0
                           ELSE Before(eng[e].step + 1) - Len(eng[e].mem)
         /\ LiveCount(e) \in Nat /\ Step(e).n \in Nat \ {0}
         /\ Step(e).kind \in Kinds /\ (Step(e).kind # "parallel" => Step(e).n = 1)
<1>1. PICK r : r = eng[e]
  OBVIOUS
<1>2. r \in EngineRec /\ Shape(r) /\ Step(e) = Script[r.step] /\ r.pc \in {"call", "reserve"}
  BY <1>1, Fields
<1>3. r.step \in 1 .. Len(Script) /\ r.seq = Before(r.step) /\ r.seq <= Len(r.mem)
  BY <1>2, RecFields, CallsFinite DEF Shape, Parked, Position, Idle
<1>4. Before(r.step + 1) = Before(r.step) + Script[r.step].n /\ Script[r.step].n \in Nat \ {0}
      /\ Script[r.step].kind \in Kinds /\ (Script[r.step].kind # "parallel" => Script[r.step].n = 1)
  BY <1>3, BeforeStep, ScriptSteps
<1>5. Before(r.step + 1) \in Nat /\ Before(r.step + 1) <= MaxSeq /\ MaxSeq \in Nat
  BY CallsBefore, CallsFinite
<1>6. Len(r.mem) \in Nat /\ r.seq \in Nat
  BY <1>2, RecFields, CallsFinite
<1>7. LiveCount(e) = IF r.seq + Step(e).n - Len(r.mem) <= 0 THEN 0
                     ELSE IF r.seq + Step(e).n - Len(r.mem) >= Step(e).n THEN Step(e).n
                          ELSE r.seq + Step(e).n - Len(r.mem)
  BY <1>1 DEF LiveCount
<1>8. PICK n : n = Step(e).n
  OBVIOUS
<1>9. n \in Nat \ {0} /\ Before(r.step + 1) = r.seq + n
  BY <1>8, <1>2, <1>3, <1>4
<1>10. LiveCount(e) = IF Len(r.mem) >= Before(r.step + 1) THEN 0
                      ELSE Before(r.step + 1) - Len(r.mem)
  BY <1>7, <1>8, <1>9, <1>3, <1>6
<1>11. LiveCount(e) \in Nat
  BY <1>10, <1>5, <1>6
<1> QED BY <1>1, <1>2, <1>3, <1>4, <1>5, <1>8, <1>9, <1>10, <1>11

-----------------------------------------------------------------------------
(* What a step of an engine makes of its record.  Moves describes the ones  *)
(* that leave its journal alone.                                            *)

Moves(e, r) ==
    /\ r \in EngineRec /\ Shape(r) /\ r.mem = eng[e].mem
    /\ Pending(r) <= Pending(eng[e])

LEMMA PendingNat ==
  ASSUME NEW r \in EngineRec, Shape(r)
  PROVE  Pending(r) \in Nat
<1>0. Before(r.step + 1) \in Nat /\ Before(r.step) \in Nat
  BY CallsBefore
<1>1. r.seq \in Nat /\ Len(r.mem) \in Nat /\ Before(r.step + 1) \in Nat /\ Before(r.step) \in Nat
  BY <1>0, RecFields, CallsFinite
<1> QED BY <1>1 DEF Pending, Shape, Position

LEMMA ExitMoves ==
  ASSUME EInv, NEW e \in Episode, NEW r \in EngineRec, r.mem = eng[e].mem, NEW out \in Outcomes \ {"none"}
  PROVE  Moves(e, Exited(r, out, 0))
<1>1. eng[e] \in EngineRec /\ Shape(eng[e]) /\ Dense(r.mem) /\ 0 \in 0 .. MaxSeq
  BY Fields, CallsFinite DEF Shape
<1>2. Pending(eng[e]) \in Nat
  BY <1>1, PendingNat
<1>3. LET x == Exited(r, out, 0) IN
      x \in EngineRec /\ Shape(x) /\ Pending(x) = 0 /\ x.mem = r.mem
  BY <1>1, ExitedIs
<1> QED BY <1>2, <1>3 DEF Moves

LEMMA ProgressMoves ==
  ASSUME EInv, NEW e \in Episode, Progress(e)
  PROVE  ~Idle(eng[e]) /\ \E r : Engine(e, r) /\ Moves(e, r)
<1>1. eng[e] \in EngineRec /\ Shape(eng[e]) /\ eng[e].pc = "check"
  BY Fields DEF Progress
<1>2. ~Idle(eng[e])
  BY <1>1 DEF Idle
<1>3. ASSUME NEW out \in {"Cancelled", "Completed"} PROVE Moves(e, Exited(eng[e], out, 0))
  BY <1>1, ExitMoves DEF Outcomes
<1>4. ASSUME eng[e].step <= Len(Script) PROVE Moves(e, [eng[e] EXCEPT !.pc = "call"])
  <2>1. PICK r : r = eng[e]
    OBVIOUS
  <2> DEFINE x == [r EXCEPT !.pc = "call"]
  <2>2. /\ x \in EngineRec /\ x.pc = "call" /\ x.step = r.step /\ x.slots = r.slots
        /\ x.seq = r.seq /\ x.mem = r.mem /\ x.todo = r.todo /\ x.err = r.err
    BY <1>1, <2>1 DEF EngineRec, Stages
  <2> HIDE DEF x
  <2>3. ~Idle(x) /\ Parked(x)
    BY <1>1, <1>4, <2>1, <2>2 DEF Parked, Idle, Shape
  <2>4. Position(x) /\ Dense(x.mem)
    BY <1>1, <2>1, <2>2 DEF Position, Shape
  <2>5. Shape(x) /\ Pending(x) = 0 /\ Pending(r) = 0
    BY <1>1, <2>1, <2>2, <2>3, <2>4 DEF Shape, Replies, Continues, Pending
  <2>6. Moves(e, x)
    BY <2>1, <2>2, <2>5 DEF Moves
  <2> QED BY <2>1, <2>6 DEF x
<1> QED BY <1>2, <1>3, <1>4 DEF Progress

LEMMA ReplayMoves ==
  ASSUME EInv, NEW e \in Episode, Replay(e)
  PROVE  ~Idle(eng[e]) /\ \E r : Engine(e, r) /\ Moves(e, r)
<1>1. eng[e] \in EngineRec /\ Shape(eng[e]) /\ eng[e].pc = "call" /\ LiveCount(e) = 0
  BY Fields DEF Replay
<1>2. ~Idle(eng[e])
  BY <1>1 DEF Idle
<1>3. PICK n : n = Step(e).n
  OBVIOUS
<1>4. PICK o : o = eng[e]
  OBVIOUS
<1> DEFINE r == [o EXCEPT !.seq = o.seq + n]
           d == Delivered(e, r, FALSE)
<1>5. Engine(e, d)
  BY <1>3, <1>4 DEF Replay
<1>6. /\ Before(o.step + 1) = o.seq + n /\ o.step <= Len(Script) /\ o.step \in Nat
      /\ o.seq + n \in 0 .. MaxSeq /\ o.seq + n <= Len(o.mem)
  BY <1>1, <1>3, <1>4, LiveIs, RecFields, CallsFinite
<1>7. r \in EngineRec /\ r.step = o.step /\ r.seq = o.seq + n /\ r.mem = o.mem /\ r.todo = o.todo
      /\ r.err = o.err
  BY <1>1, <1>4, <1>6 DEF EngineRec
<1> HIDE DEF r
<1>8. Dense(r.mem) /\ r.todo = <<>> /\ r.err = 0
  BY <1>1, <1>4, <1>7 DEF Shape, Parked
<1>9. d \in EngineRec /\ Shape(d) /\ Pending(d) = 0 /\ d.mem = r.mem
  BY <1>4, <1>6, <1>7, <1>8, DeliveredIs
<1>10. Pending(eng[e]) \in Nat
  BY <1>1, PendingNat
<1> HIDE DEF d
<1>11. Moves(e, d)
  BY <1>4, <1>7, <1>9, <1>10 DEF Moves
<1> QED BY <1>2, <1>5, <1>11

LEMMA NewEntryIs ==
  ASSUME NEW e \in Episode, NEW r, NEW i \in Nat \ {0}, NEW tag \in Tags, Len(r.mem) \in Nat,
         Len(r.mem) + i <= MaxSeq, IsAgent(e) \in BOOLEAN
  PROVE  LET x == NewEntry(e, r, i, tag) IN
         /\ x \in Entry /\ x.seq = Len(r.mem) + i - 1 /\ x.agent = IsAgent(e) /\ x.tag = tag
BY CallsFinite DEF NewEntry, Entry

LEMMA LiveCallMoves ==
  ASSUME EInv, NEW e \in Episode, LiveCall(e)
  PROVE  ~Idle(eng[e]) /\ \E r : Engine(e, r) /\ Moves(e, r)
<1>1. eng[e] \in EngineRec /\ Shape(eng[e]) /\ eng[e].pc = "call" /\ LiveCount(e) > 0
  BY Fields DEF LiveCall
<1>2. ~Idle(eng[e])
  BY <1>1 DEF Idle
<1>3. PICK o : o = eng[e]
  OBVIOUS
<1>4. /\ o.step \in 1 .. Len(Script) /\ o.seq <= Len(o.mem) /\ Len(o.mem) < Before(o.step + 1)
      /\ Before(o.step + 1) = o.seq + Step(e).n /\ Before(o.step + 1) \in 0 .. MaxSeq
      /\ Before(o.step + 1) <= MaxSeq /\ MaxSeq \in Nat
      /\ Step(e).kind # "parallel" => Step(e).n = 1
  BY <1>1, <1>3, LiveIs, RecFields, CallsFinite
<1>5. Len(o.mem) \in Nat /\ o.seq \in Nat /\ o.todo = <<>> /\ o.err = 0 /\ Dense(o.mem)
      /\ o.seq = Before(o.step) /\ o.step <= Len(Script)
  BY <1>1, <1>3, <1>4, RecFields, CallsFinite DEF Shape, Parked, Position
<1>6. Pending(o) \in Nat /\ IsAgent(e) = AgentStep(o) /\ Step(e) = Script[o.step]
  BY <1>1, <1>3, PendingNat, Fields
<1>7. "Failed" \in Outcomes \ {"none"}
  BY DEF Outcomes
<1>k. PICK k : k = 1
  OBVIOUS
<1>l. k \in Nat
  BY <1>k
<1>8. CASE IsAgent(e)
  <2> DEFINE x == Sent(e, o, "reserve", k)
  <2>1. Engine(e, x)
    BY <1>8, <1>3, <1>k DEF LiveCall, IsAgent
  <2>2. \/ x = Exited(o, "Failed", 0)
        \/ /\ x \in EngineRec /\ x.pc = "reserve" /\ Len(x.slots) = k
           /\ \A j \in 1 .. k : x.slots[j] = "queued"
           /\ x.step = o.step /\ x.seq = o.seq /\ x.mem = o.mem /\ x.todo = o.todo /\ x.err = o.err
    BY <1>1, <1>3, <1>l, SentIs
  <2> HIDE DEF x
  <2>3. CASE x = Exited(o, "Failed", 0)
    BY <2>1, <2>3, <1>1, <1>2, <1>3, <1>7, ExitMoves
  <2>4. CASE x # Exited(o, "Failed", 0)
    <3>1. ~Idle(x) /\ Parked(x)
      BY <2>2, <2>4, <1>5 DEF Idle, Parked
    <3>2. Position(x)
      BY <2>2, <2>4, <1>4, <1>5 DEF Position
    <3>a. 1 \in 1 .. k
      BY <1>k
    <3>b. x.slots[1] = "queued"
      BY <2>2, <2>4, <3>a
    <3>3. AgentStep(x) /\ x.slots[1] = "queued"
      BY <2>2, <2>4, <3>b, <1>6, <1>8 DEF AgentStep
    <3>4. Shape(x) /\ Pending(x) = 0
      BY <2>2, <2>4, <3>1, <3>2, <3>3, <1>5, <1>k DEF Shape, Replies, Continues, Pending
    <3>5. Moves(e, x)
      BY <2>2, <2>4, <3>4, <1>3, <1>6 DEF Moves
    <3> QED BY <1>2, <2>1, <3>5
  <2> QED BY <2>3, <2>4
<1> DEFINE r == [o EXCEPT !.seq = o.seq + 1]
<1>9. ASSUME Step(e).kind \in {"call", "await"}
      PROVE  /\ r \in EngineRec /\ r.step = o.step /\ r.seq = o.seq + 1 /\ r.mem = o.mem /\ r.todo = o.todo
             /\ r.err = o.err /\ r.seq = Before(o.step + 1) /\ Len(o.mem) = o.seq
  <2>1. Before(o.step + 1) = o.seq + 1
    BY <1>4, <1>9
  <2>2. o.seq + 1 \in 0 .. MaxSeq /\ Len(o.mem) = o.seq
    BY <2>1, <1>4, <1>5
  <2>3. r \in EngineRec /\ r.step = o.step /\ r.seq = o.seq + 1 /\ r.mem = o.mem /\ r.todo = o.todo
             /\ r.err = o.err
    BY <2>2, <1>1, <1>3 DEF EngineRec
  <2> QED BY <2>1, <2>2, <2>3
<1>10. CASE Step(e).kind = "call"
  <2> HIDE DEF r
  <2> DEFINE x == Sent(e, r, "wait", k)
  <2>0. /\ r \in EngineRec /\ r.step = o.step /\ r.seq = o.seq + 1 /\ r.mem = o.mem /\ r.todo = o.todo
        /\ r.err = o.err /\ r.seq = Before(o.step + 1) /\ Len(o.mem) = o.seq
    BY <1>9, <1>10
  <2>1. Engine(e, x)
    BY <1>10, <1>3, <1>k DEF LiveCall, IsAgent, r
  <2>2. \/ x = Exited(r, "Failed", 0)
        \/ /\ x \in EngineRec /\ x.pc = "wait" /\ Len(x.slots) = k
           /\ \A j \in 1 .. k : x.slots[j] = "queued"
           /\ x.step = r.step /\ x.seq = r.seq /\ x.mem = r.mem /\ x.todo = r.todo /\ x.err = r.err
    BY <2>0, <1>l, SentIs
  <2> HIDE DEF x
  <2>3. CASE x = Exited(r, "Failed", 0)
    BY <2>0, <2>1, <2>3, <1>2, <1>3, <1>7, ExitMoves
  <2>4. CASE x # Exited(r, "Failed", 0)
    <3>1. ~Idle(x) /\ Parked(x)
      BY <2>0, <2>2, <2>4, <1>5 DEF Idle, Parked
    <3>2. Position(x)
      BY <2>0, <2>2, <2>4, <1>4, <1>5 DEF Position
    <3>3. ~AgentStep(x)
      BY <2>0, <2>2, <2>4, <1>6, <1>10 DEF AgentStep
    <3>a. Len(x.slots) = k /\ \A j \in 1 .. Len(x.slots) : x.slots[j] # "quota"
      BY <2>2, <2>4
    <3>b. k = x.seq - Len(x.mem)
      BY <2>0, <2>2, <2>4, <1>5, <1>k
    <3>4. Replies(x)
      BY <2>2, <2>4, <3>a, <3>b DEF Replies
    <3>5. Shape(x) /\ Pending(x) = 0
      BY <2>0, <2>2, <2>4, <3>1, <3>2, <3>3, <3>4, <1>5 DEF Shape, Continues, Pending
    <3>6. Moves(e, x)
      BY <2>0, <2>2, <2>4, <3>5, <1>3, <1>6 DEF Moves
    <3> QED BY <1>2, <2>1, <3>6
  <2> QED BY <2>3, <2>4
<1>11. CASE Step(e).kind = "await"
  <2> HIDE DEF r
  <2>0. /\ r \in EngineRec /\ r.step = o.step /\ r.seq = o.seq + 1 /\ r.mem = o.mem /\ r.todo = o.todo
        /\ r.err = o.err /\ r.seq = Before(o.step + 1) /\ Len(o.mem) = o.seq
    BY <1>9, <1>11
  <2> DEFINE en == NewEntry(e, r, 1, "null")
             x == [r EXCEPT !.pc = "record", !.todo = <<en>>]
  <2>1. Engine(e, x)
    BY <1>11, <1>3 DEF LiveCall, IsAgent, r
  <2>2. en \in Entry /\ en.seq = Len(o.mem) /\ en.agent = AgentStep(o)
    <3>1. IsAgent(e) \in BOOLEAN /\ "null" \in Tags /\ Len(r.mem) \in Nat /\ Len(r.mem) + 1 <= MaxSeq
      BY <2>0, <1>4, <1>5 DEF IsAgent, Tags
    <3>2. en \in Entry /\ en.seq = Len(r.mem) + 1 - 1 /\ en.agent = IsAgent(e)
      BY <3>1, NewEntryIs
    <3> QED BY <3>2, <2>0, <1>5, <1>6
  <2> HIDE DEF en
  <2>3. <<en>> \in Seq(Entry) /\ Len(<<en>>) = 1 /\ <<en>>[1] = en
    BY <2>2
  <2>4. PICK t : t = <<en>>
    OBVIOUS
  <2>5. /\ x \in EngineRec /\ x.pc = "record" /\ x.todo = t
        /\ x.step = r.step /\ x.seq = r.seq /\ x.mem = r.mem /\ x.err = r.err
    BY <2>0, <2>3, <2>4 DEF EngineRec, Stages
  <2> HIDE DEF x
  <2>6. ~Idle(x) /\ Parked(x)
    BY <2>0, <2>5, <1>5 DEF Idle, Parked
  <2>7. Position(x)
    BY <2>0, <2>5, <1>4, <1>5 DEF Position
  <2>8. ~AgentStep(x) /\ AgentStep(x) = AgentStep(o)
    BY <2>0, <2>5, <1>6, <1>11 DEF AgentStep
  <2>9. Continues(x)
    <3>1. Len(t) = 1 /\ t[1] = en
      BY <2>3, <2>4
    <3>2. \A i \in 1 .. Len(t) : i = 1
      BY <3>1
    <3>3. x.mem = o.mem /\ x.seq = o.seq + 1 /\ x.todo = t
      BY <2>0, <2>5
    <3>4. \A i \in 1 .. Len(t) : t[i].seq = Len(o.mem) + i - 1 /\ t[i].agent = AgentStep(x)
      BY <3>1, <3>2, <2>2, <2>8, <1>5
    <3>5. Len(t) = x.seq - Len(x.mem)
      BY <3>1, <3>3, <2>0, <1>5
    <3> QED BY <3>3, <3>4, <3>5 DEF Continues
  <2>10. Shape(x) /\ Pending(x) = 0
    BY <2>0, <2>5, <2>6, <2>7, <2>8, <2>9, <1>5 DEF Shape, Replies, Pending
  <2>11. Moves(e, x)
    BY <2>0, <2>5, <2>10, <1>3, <1>6 DEF Moves
  <2> QED BY <1>2, <2>1, <2>11
<1> QED BY <1>8, <1>10, <1>11 DEF LiveCall

LEMMA ReservedMoves ==
  ASSUME EInv, NEW e \in Episode, Reserved(e)
  PROVE  ~Idle(eng[e]) /\ \E r : Engine(e, r) /\ Moves(e, r)
<1>1. eng[e] \in EngineRec /\ Shape(eng[e]) /\ eng[e].pc = "reserve"
  BY Fields DEF Reserved
<1>2. ~Idle(eng[e])
  BY <1>1 DEF Idle
<1>3. PICK o : o = eng[e]
  OBVIOUS
<1>4. PICK n : n = Step(e).n
  OBVIOUS
<1>5. PICK k : k = LiveCount(e)
  OBVIOUS
<1>6. /\ o.step \in 1 .. Len(Script) /\ o.seq <= Len(o.mem) /\ Len(o.mem) < Before(o.step + 1)
      /\ Before(o.step + 1) = o.seq + n /\ Before(o.step + 1) \in 0 .. MaxSeq
      /\ k \in Nat /\ k = Before(o.step + 1) - Len(o.mem)
  BY <1>1, <1>3, <1>4, <1>5, LiveIs, RecFields, CallsFinite DEF Shape, Position
<1>7. Len(o.mem) \in Nat /\ o.seq \in Nat /\ o.todo = <<>> /\ o.err = 0 /\ Dense(o.mem)
      /\ o.seq = Before(o.step) /\ o.step <= Len(Script) /\ AgentStep(o)
  BY <1>1, <1>3, <1>6, RecFields, CallsFinite DEF Shape, Parked, Position, Replies
<1>8. \A out \in {"BudgetExceeded", "Cancelled", "Failed"} : Moves(e, Exited(o, out, 0))
  BY <1>1, <1>3, ExitMoves DEF Outcomes
<1>9. CASE o.slots[1] = "ok"
  <2> DEFINE r == [o EXCEPT !.seq = o.seq + n]
             x == Sent(e, r, "wait", k)
  <2>1. Engine(e, x)
    BY <1>3, <1>4, <1>5, <1>9 DEF Reserved
  <2>2. r \in EngineRec /\ r.step = o.step /\ r.seq = Before(o.step + 1) /\ r.mem = o.mem
        /\ r.todo = o.todo /\ r.err = o.err
    BY <1>1, <1>3, <1>6 DEF EngineRec
  <2> HIDE DEF r
  <2>3. \/ x = Exited(r, "Failed", 0)
        \/ /\ x \in EngineRec /\ x.pc = "wait" /\ Len(x.slots) = k
           /\ \A j \in 1 .. k : x.slots[j] = "queued"
           /\ x.step = r.step /\ x.seq = r.seq /\ x.mem = r.mem /\ x.todo = r.todo /\ x.err = r.err
    BY <2>2, <1>6, SentIs
  <2> HIDE DEF x
  <2>4. CASE x = Exited(r, "Failed", 0)
    BY <2>1, <2>2, <2>4, <1>2, <1>3, ExitMoves DEF Outcomes
  <2>5. CASE x # Exited(r, "Failed", 0)
    <3>1. ~Idle(x) /\ Parked(x)
      BY <2>2, <2>3, <2>5, <1>7 DEF Idle, Parked
    <3>2. Position(x)
      BY <2>2, <2>3, <2>5, <1>6, <1>7 DEF Position
    <3>3. AgentStep(x)
      BY <2>2, <2>3, <2>5, <1>7 DEF AgentStep
    <3>4. Replies(x)
      BY <2>2, <2>3, <2>5, <1>6 DEF Replies
    <3>5. Pending(x) = k /\ Pending(o) = k
      BY <2>2, <2>3, <2>5, <3>3, <1>1, <1>3, <1>6, <1>9 DEF Pending
    <3>6. Shape(x)
      BY <2>2, <2>3, <2>5, <3>1, <3>2, <3>4, <1>7 DEF Shape, Continues
    <3>7. Moves(e, x)
      BY <2>2, <2>3, <2>5, <3>5, <3>6, <1>3, <1>6 DEF Moves
    <3> QED BY <1>2, <2>1, <3>7
  <2> QED BY <2>4, <2>5
<1>10. CASE o.slots[1] # "ok"
  <2>1. \E out \in {"BudgetExceeded", "Cancelled", "Failed"} : Engine(e, Exited(o, out, 0))
    BY <1>3, <1>10 DEF Reserved
  <2> QED BY <2>1, <1>2, <1>8
<1> QED BY <1>9, <1>10

LEMMA Tuple ==
  ASSUME NEW T, NEW n \in Nat, NEW t, t = [j \in 1 .. n |-> t[j]], \A j \in 1 .. n : t[j] \in T
  PROVE  t \in Seq(T) /\ Len(t) = n
OBVIOUS

LEMMA AnsweredMoves ==
  ASSUME EInv, NEW e \in Episode, Answered(e)
  PROVE  ~Idle(eng[e]) /\ \E r : Engine(e, r) /\ Moves(e, r)
<1>1. PICK o : o = eng[e]
  OBVIOUS
<1>2. o \in EngineRec /\ Shape(o) /\ o.pc = "wait" /\ IsAgent(e) = AgentStep(o) /\ Step(e) = Script[o.step]
  BY <1>1, Fields DEF Answered
<1>3. ~Idle(eng[e])
  BY <1>1, <1>2 DEF Idle
<1>4. /\ o.seq \in Nat /\ o.seq <= MaxSeq /\ Len(o.mem) \in Nat /\ Len(o.slots) \in Nat /\ o.step \in Nat \ {0}
      /\ o.slots \in Seq(SlotStates) /\ o.step <= Len(Script) /\ MaxSeq \in Nat
      /\ o.seq = Before(o.step + 1) /\ Before(o.step) <= Len(o.mem) /\ Len(o.mem) < o.seq
      /\ Len(o.slots) = o.seq - Len(o.mem) /\ o.todo = <<>> /\ o.err = 0 /\ Dense(o.mem)
      /\ \A j \in 1 .. Len(o.slots) : o.slots[j] # "quota"
  BY <1>2, RecFields, CallsFinite DEF Shape, Parked, Position, Replies, Idle
<1>5. Pending(o) \in Nat /\ AgentStep(o) \in BOOLEAN /\ (AgentStep(o) => Pending(o) = o.seq - Len(o.mem))
  BY <1>2, PendingNat DEF AgentStep, Pending
<1> DEFINE todo == [j \in 1 .. Len(o.slots) |-> NewEntry(e, o, j, TagOf(e, o.slots[j]))]
<1>6. \/ \E out \in {"Cancelled", "Failed"} :
            IsAgent(e) /\ Engine(e, [o EXCEPT !.pc = "release", !.out = out, !.slots = <<"queued">>])
      \/ \E out \in {"Cancelled", "Failed"} : Engine(e, Exited(o, out, 0))
      \/ /\ \A j \in 1 .. Len(o.slots) : o.slots[j] \notin Waiting /\ o.slots[j] # "cancelled"
         /\ Engine(e, [o EXCEPT !.pc = "record", !.todo = todo])
  BY <1>1 DEF Answered
<1>7. ASSUME NEW out \in {"Cancelled", "Failed"}, IsAgent(e)
      PROVE  Moves(e, [o EXCEPT !.pc = "release", !.out = out, !.slots = <<"queued">>])
  <2> DEFINE s == <<"queued">>
             x == [o EXCEPT !.pc = "release", !.out = out, !.slots = s]
  <2>1. s \in Seq(SlotStates) /\ Len(s) = 1 /\ s[1] = "queued"
    BY DEF SlotStates
  <2> HIDE DEF s
  <2>2. /\ x \in EngineRec /\ x.pc = "release" /\ x.out = out /\ x.slots = s
        /\ x.step = o.step /\ x.seq = o.seq /\ x.mem = o.mem /\ x.todo = o.todo /\ x.err = o.err
    BY <1>2, <2>1 DEF EngineRec, Stages, Outcomes
  <2> HIDE DEF x
  <2>3. ~Idle(x) /\ Parked(x)
    BY <2>2, <1>4 DEF Idle, Parked
  <2>4. Position(x)
    BY <2>2, <1>4 DEF Position
  <2>5. AgentStep(x)
    BY <2>2, <1>2, <1>7 DEF AgentStep
  <2>6. Shape(x)
    BY <2>1, <2>2, <2>3, <2>4, <2>5, <1>4 DEF Shape, Replies, Continues
  <2>7. Pending(x) = o.seq - Len(o.mem)
    BY <2>1, <2>2 DEF Pending
  <2>8. Moves(e, x)
    BY <2>2, <2>6, <2>7, <1>1, <1>2, <1>4, <1>5, <1>7 DEF Moves
  <2> QED BY <2>8 DEF x, s
<1>8. ASSUME NEW out \in {"Cancelled", "Failed"}
      PROVE  Moves(e, Exited(o, out, 0))
  BY <1>1, <1>2, ExitMoves DEF Outcomes
<1>9. ASSUME \A j \in 1 .. Len(o.slots) : o.slots[j] \notin Waiting /\ o.slots[j] # "cancelled"
      PROVE  Moves(e, [o EXCEPT !.pc = "record", !.todo = todo])
  <2>1. ASSUME NEW j \in 1 .. Len(o.slots)
        PROVE  LET en == NewEntry(e, o, j, TagOf(e, o.slots[j])) IN
               en \in Entry /\ en.seq = Len(o.mem) + j - 1 /\ en.agent = AgentStep(o)
    <3>1. o.slots[j] \in {"ok", "failed", "killed", "dropped"}
      BY <1>4, <1>9 DEF SlotStates, Waiting
    <3>2. TagOf(e, o.slots[j]) \in Tags
      BY <3>1 DEF TagOf, Tags
    <3>3. j \in Nat \ {0} /\ Len(o.mem) + j <= MaxSeq
      BY <1>4
    <3> QED BY <3>2, <3>3, <1>2, <1>4, <1>5, NewEntryIs
  <2>a. \A j \in 1 .. Len(o.slots) :
            todo[j] \in Entry /\ todo[j].seq = Len(o.mem) + j - 1 /\ todo[j].agent = AgentStep(o)
    BY <2>1
  <2>b. todo = [j \in 1 .. Len(o.slots) |-> todo[j]]
    OBVIOUS
  <2>2. /\ todo \in Seq(Entry) /\ Len(todo) = Len(o.slots)
        /\ \A j \in 1 .. Len(todo) : todo[j].seq = Len(o.mem) + j - 1 /\ todo[j].agent = AgentStep(o)
    <3> HIDE DEF todo
    <3>1. Len(o.slots) \in Nat
      BY <1>4
    <3>2. todo \in Seq(Entry) /\ Len(todo) = Len(o.slots)
      BY <2>a, <2>b, <3>1, Tuple
    <3> QED BY <2>a, <3>2
  <2> HIDE DEF todo
  <2> DEFINE x == [o EXCEPT !.pc = "record", !.todo = todo]
  <2>3. /\ x \in EngineRec /\ x.pc = "record" /\ x.slots = o.slots
        /\ x.step = o.step /\ x.seq = o.seq /\ x.mem = o.mem /\ x.todo = todo /\ x.err = o.err
    BY <1>2, <2>2 DEF EngineRec, Stages
  <2> HIDE DEF x
  <2>4. ~Idle(x) /\ Parked(x)
    BY <2>3, <1>4 DEF Idle, Parked
  <2>5. Position(x)
    BY <2>3, <1>4 DEF Position
  <2>6. AgentStep(x) = AgentStep(o)
    BY <2>3 DEF AgentStep
  <2>7. Continues(x)
    BY <2>2, <2>3, <2>6, <1>4 DEF Continues
  <2>8. Shape(x)
    BY <2>3, <2>4, <2>5, <2>7, <1>4 DEF Shape, Replies
  <2>9. Pending(x) <= Pending(o)
    BY <2>3, <2>6, <1>2, <1>4, <1>5 DEF Pending
  <2>10. Moves(e, x)
    BY <2>3, <2>8, <2>9, <1>1 DEF Moves
  <2> QED BY <2>10 DEF x
<1> HIDE DEF todo
<1> QED BY <1>3, <1>6, <1>7, <1>8, <1>9

LEMMA ReleasedMoves ==
  ASSUME EInv, NEW e \in Episode, Released(e)
  PROVE  ~Idle(eng[e]) /\ \E r : Engine(e, r) /\ Moves(e, r)
<1>1. eng[e] \in EngineRec /\ eng[e].pc = "release" /\ eng[e].out \in Outcomes \ {"none"}
  BY Fields, RecFields DEF Released, Shape, Parked
<1>2. ~Idle(eng[e])
  BY <1>1 DEF Idle
<1>3. Moves(e, Exited(eng[e], eng[e].out, 0))
  BY <1>1, ExitMoves
<1> QED BY <1>2, <1>3 DEF Released

\* The line an engine is about to write.
LEMMA NextLine ==
  ASSUME EInv, NEW e \in Episode, eng[e].pc = "record"
  PROVE  LET en == Head(eng[e].todo) IN
         /\ eng[e].todo # <<>> /\ en \in Entry /\ en.seq = Len(eng[e].mem) /\ en.agent = AgentStep(eng[e])
         /\ Len(eng[e].mem) < eng[e].seq /\ ~Idle(eng[e])
<1>1. PICK o : o = eng[e]
  OBVIOUS
<1>2. o \in EngineRec /\ Shape(o) /\ o.pc = "record"
  BY <1>1, Fields
<1>3. /\ o.todo \in Seq(Entry) /\ Len(o.todo) \in Nat /\ Len(o.mem) \in Nat /\ o.seq \in Nat
      /\ Len(o.todo) = o.seq - Len(o.mem) /\ Len(o.mem) < o.seq
      /\ \A i \in 1 .. Len(o.todo) : o.todo[i].seq = Len(o.mem) + i - 1 /\ o.todo[i].agent = AgentStep(o)
  BY <1>2, RecFields, CallsFinite DEF Shape, Position, Continues
<1>4. o.todo # <<>> /\ Head(o.todo) = o.todo[1] /\ 1 \in 1 .. Len(o.todo) /\ o.todo[1] \in Entry
  BY <1>3
<1> QED BY <1>1, <1>2, <1>3, <1>4 DEF Idle

LEMMA RecordMoves ==
  ASSUME EInv, NEW e \in Episode, Record(e)
  PROVE  \E d \in EngineRec :
             /\ Engine(e, d) /\ Shape(d) /\ d.mem = Append(eng[e].mem, Head(eng[e].todo))
             /\ Pending(d) + (IF Head(eng[e].todo).agent THEN 1 ELSE 0) <= Pending(eng[e])
<1>1. PICK o : o = eng[e]
  OBVIOUS
<1>2. o \in EngineRec /\ Shape(o) /\ o.pc = "record"
  BY <1>1, Fields DEF Record
<1>3. PICK en : en = Head(o.todo)
  OBVIOUS
<1>4. /\ o.todo # <<>> /\ en \in Entry /\ en.seq = Len(o.mem) /\ en.agent = AgentStep(o) /\ Len(o.mem) < o.seq
  BY <1>1, <1>2, <1>3, NextLine
<1>5. /\ o.todo \in Seq(Entry) /\ Len(o.todo) \in Nat /\ Len(o.mem) \in Nat /\ o.seq \in Nat /\ o.mem \in Seq(Entry)
      /\ Len(o.todo) = o.seq - Len(o.mem) /\ o.step <= Len(Script) /\ o.step \in Nat \ {0}
      /\ o.seq = Before(o.step + 1) /\ Before(o.step) <= Len(o.mem) /\ o.err = 0
      /\ \A i \in 1 .. Len(o.todo) : o.todo[i].seq = Len(o.mem) + i - 1 /\ o.todo[i].agent = AgentStep(o)
  BY <1>2, RecFields, CallsFinite DEF Shape, Position, Continues, Parked, Idle
<1>6. Pending(o) = IF AgentStep(o) THEN o.seq - Len(o.mem) ELSE 0
  BY <1>2 DEF Pending
<1>7. PICK m : m = Append(o.mem, en)
  OBVIOUS
<1>8. PICK t : t = Tail(o.todo)
  OBVIOUS
<1>9. m \in Seq(Entry) /\ Len(m) = Len(o.mem) + 1 /\ Dense(m)
  <2>1. m \in Seq(Entry) /\ Len(m) = Len(o.mem) + 1 /\ m[Len(o.mem) + 1] = en
        /\ \A i \in 1 .. Len(o.mem) : m[i] = o.mem[i]
    BY <1>4, <1>5, <1>7
  <2>2. Dense(o.mem)
    BY <1>2 DEF Shape
  <2>3. Len(o.mem) \in Nat /\ en.seq = Len(o.mem)
    BY <1>4, <1>5
  <2>4. \A i \in 1 .. Len(m) : i \in 1 .. Len(o.mem) \/ i = Len(o.mem) + 1
    BY <2>1, <2>3
  <2>5. \A i \in 1 .. Len(o.mem) : m[i].seq = i - 1
    BY <2>1, <2>2 DEF Dense
  <2>6. m[Len(o.mem) + 1].seq = (Len(o.mem) + 1) - 1
    BY <2>1, <2>3
  <2>7. Dense(m)
    BY <2>4, <2>5, <2>6 DEF Dense
  <2> QED BY <2>1, <2>7
<1>10. t \in Seq(Entry) /\ Len(t) = Len(o.todo) - 1 /\ \A i \in 1 .. Len(t) : t[i] = o.todo[i + 1]
  BY <1>4, <1>5, <1>8
<1>n. /\ Len(o.todo) \in Nat /\ Len(o.mem) \in Nat /\ o.seq \in Nat /\ Before(o.step) \in Nat
      /\ Len(o.todo) = o.seq - Len(o.mem) /\ Len(m) = Len(o.mem) + 1 /\ Len(t) = Len(o.todo) - 1
      /\ Before(o.step) <= Len(o.mem)
  BY <1>5, <1>9, <1>10, CallsBefore
<1> DEFINE r == [o EXCEPT !.mem = m, !.todo = t]
<1>11. /\ r \in EngineRec /\ r.pc = "record" /\ r.slots = o.slots /\ r.step = o.step /\ r.seq = o.seq
       /\ r.mem = m /\ r.todo = t /\ r.err = o.err
  BY <1>2, <1>9, <1>10 DEF EngineRec
<1>12. \/ t # <<>> /\ Engine(e, r)
       \/ t = <<>> /\ Engine(e, Delivered(e, r, TRUE))
  <2>1. r = [eng[e] EXCEPT !.mem = Append(@, Head(eng[e].todo)), !.todo = Tail(@)]
    BY <1>1, <1>3, <1>7, <1>8
  <2>2. r.todo = t
    BY <1>11
  <2> HIDE DEF r
  <2> QED BY <2>1, <2>2 DEF Record
<1> HIDE DEF r
<1>13. CASE t # <<>> /\ Engine(e, r)
  <2>1. Len(t) > 0
    BY <1>10, <1>13
  <2>2. ~Idle(r) /\ Parked(r)
    BY <1>5, <1>11 DEF Idle, Parked
  <2>3. Len(m) < o.seq
    BY <2>1, <1>5, <1>9, <1>10
  <2>4. Position(r)
    <3>1. Before(o.step) <= Len(m)
      BY <1>n
    <3> QED BY <2>3, <3>1, <1>5, <1>11 DEF Position
  <2>5. AgentStep(r) = AgentStep(o)
    BY <1>11 DEF AgentStep
  <2>6. Len(t) = o.seq - Len(m)
    BY <1>5, <1>9, <1>10
  <2>7. \A i \in 1 .. Len(t) : t[i].seq = Len(m) + i - 1 /\ t[i].agent = AgentStep(r)
    <3> TAKE i \in 1 .. Len(t)
    <3>1. i + 1 \in 1 .. Len(o.todo)
      BY <1>5, <1>10
    <3>2. t[i] = o.todo[i + 1] /\ o.todo[i + 1].seq = Len(o.mem) + (i + 1) - 1
      BY <3>1, <1>5, <1>10
    <3> QED BY <3>1, <3>2, <2>5, <1>5, <1>9
  <2>8. Continues(r)
    BY <2>6, <2>7, <1>11 DEF Continues
  <2>9. Shape(r)
    BY <2>2, <2>4, <2>8, <1>9, <1>11 DEF Shape, Replies
  <2>10. Pending(r) = IF AgentStep(o) THEN o.seq - Len(m) ELSE 0
    BY <2>5, <1>11 DEF Pending
  <2>11. Pending(r) + (IF en.agent THEN 1 ELSE 0) <= Pending(o)
    BY <2>10, <1>4, <1>5, <1>6, <1>9
  <2> QED BY <2>9, <2>11, <1>1, <1>3, <1>7, <1>11, <1>13
<1>14. CASE t = <<>> /\ Engine(e, Delivered(e, r, TRUE))
  <2> DEFINE d == Delivered(e, r, TRUE)
  <2>1. Len(t) = 0
    BY <1>14
  <2>2. o.seq = Len(m) /\ o.seq <= Len(m)
    BY <2>1, <1>n
  <2>3. r.step <= Len(Script) /\ r.seq = Before(r.step + 1) /\ r.seq <= Len(r.mem) /\ r.todo = <<>> /\ r.err = 0
    BY <2>2, <1>5, <1>11, <1>14
  <2>4. d \in EngineRec /\ Shape(d) /\ Pending(d) = 0 /\ d.mem = r.mem
    BY <2>3, <1>1, <1>9, <1>11, DeliveredIs
  <2> HIDE DEF d
  <2>5. Pending(d) + (IF en.agent THEN 1 ELSE 0) <= Pending(o)
    BY <2>4, <1>4, <1>5, <1>6
  <2>6. Engine(e, d) /\ d.mem = m
    BY <2>4, <1>11, <1>14 DEF d
  <2> QED BY <2>4, <2>5, <2>6, <1>1, <1>3, <1>7
<1> QED BY <1>12, <1>13, <1>14

-----------------------------------------------------------------------------
(* What the host makes of an engine's replies.                             *)

Resembles(r, x) ==
    /\ x.pc = r.pc /\ x.step = r.step /\ x.seq = r.seq /\ x.mem = r.mem /\ x.todo = r.todo
    /\ x.out = r.out /\ x.err = r.err /\ Len(x.slots) = Len(r.slots)
    /\ r.pc = "wait" => \A j \in 1 .. Len(x.slots) : x.slots[j] # "quota"

\* No reply says that a reservation is made or may still be given back.
Refuses(r, x) == r.pc # "wait" /\ Len(r.slots) > 0 /\ x.slots[1] \in {"queued", "ok"} => x.slots[1] = r.slots[1]

LEMMA ResemblesShape ==
  ASSUME NEW r \in EngineRec, Shape(r), NEW x \in EngineRec, Resembles(r, x)
  PROVE  Shape(x) /\ Idle(x) = Idle(r)
<1>1. Idle(x) = Idle(r)
  BY DEF Idle, Resembles
<1>2. Idle(x) => x.slots = <<>>
  <2> SUFFICES ASSUME Idle(x) PROVE x.slots = <<>>
    OBVIOUS
  <2>1. r.slots = <<>>
    BY <1>1 DEF Shape, Parked
  <2>2. Len(x.slots) = 0 /\ x.slots \in Seq(SlotStates)
    BY <2>1, RecFields DEF Resembles
  <2> QED BY <2>2
<1>3. AgentStep(x) = AgentStep(r)
  BY DEF AgentStep, Resembles
<1>4. Parked(x)
  BY <1>1, <1>2 DEF Shape, Parked, Resembles
<1>5. Position(x) /\ Dense(x.mem)
  BY DEF Shape, Position, Resembles
<1>6. Replies(x)
  BY <1>3 DEF Shape, Replies, Resembles
<1>7. Continues(x)
  BY <1>3 DEF Shape, Continues, Resembles
<1> QED BY <1>1, <1>4, <1>5, <1>6, <1>7 DEF Shape

LEMMA ResemblesPending ==
  ASSUME NEW r \in EngineRec, Shape(r), NEW x \in EngineRec, Resembles(r, x), Refuses(r, x)
  PROVE  Pending(x) <= Pending(r)
<1>1. AgentStep(x) = AgentStep(r)
  BY DEF AgentStep, Resembles
<1>2. Pending(r) \in Nat
  BY PendingNat
<1>3. r.pc \in {"reserve", "release"} => Len(r.slots) = 1
  BY DEF Shape, Replies
<1>5. Pending(x) = Pending(r) \/ Pending(x) = 0
  BY <1>1, <1>3 DEF Pending, Resembles, Refuses
<1> QED BY <1>2, <1>5

LEMMA SlotIs ==
  ASSUME EInv, NEW e \in Episode, NEW j \in 1 .. Len(eng[e].slots), NEW s \in SlotStates, Slot(e, j, s),
         s = "quota" => eng[e].pc # "wait"
  PROVE  \E x \in EngineRec : /\ Engine(e, x) /\ Resembles(eng[e], x)
                              /\ x.slots[j] = s /\ \A k \in 1 .. Len(x.slots) : k # j => x.slots[k] = eng[e].slots[k]
<1>1. PICK o : o = eng[e]
  OBVIOUS
<1>2. o \in EngineRec /\ Shape(o) /\ o.slots \in Seq(SlotStates)
  BY <1>1, Fields, RecFields
<1> DEFINE t == [o.slots EXCEPT ![j] = s]
           x == [o EXCEPT !.slots = t]
<1>3. t \in Seq(SlotStates) /\ Len(t) = Len(o.slots) /\ t[j] = s /\ \A k \in 1 .. Len(t) : k # j => t[k] = o.slots[k]
  BY <1>1, <1>2
<1>4. Engine(e, x)
  BY <1>1 DEF Slot, Engine
<1> HIDE DEF t
<1>5. /\ x \in EngineRec /\ x.pc = o.pc /\ x.step = o.step /\ x.seq = o.seq /\ x.mem = o.mem /\ x.todo = o.todo
      /\ x.out = o.out /\ x.err = o.err /\ x.slots = t
  BY <1>2, <1>3 DEF EngineRec
<1> HIDE DEF x
<1>6. o.pc = "wait" => \A k \in 1 .. Len(t) : t[k] # "quota"
  BY <1>1, <1>2, <1>3 DEF Shape, Replies
<1>7. Resembles(o, x)
  BY <1>3, <1>5, <1>6 DEF Resembles
<1> QED BY <1>1, <1>3, <1>4, <1>5, <1>7

\* Every slot of a record goes through v, which makes no promise.
LEMMA SlotsMapped ==
  ASSUME NEW o \in EngineRec, Shape(o), NEW t, t = [j \in 1 .. Len(o.slots) |-> t[j]],
         \A j \in 1 .. Len(o.slots) : t[j] = o.slots[j] \/ t[j] \in {"cancelled", "dropped", "killed"}
  PROVE  LET x == [o EXCEPT !.slots = t] IN x \in EngineRec /\ Resembles(o, x) /\ Refuses(o, x)
<1> DEFINE x == [o EXCEPT !.slots = t]
<1>1. o.slots \in Seq(SlotStates) /\ Len(o.slots) \in Nat
  BY RecFields
<1>a. \A j \in 1 .. Len(o.slots) : o.slots[j] \in SlotStates
  BY <1>1
<1>b. {"cancelled", "dropped", "killed"} \subseteq SlotStates
  BY DEF SlotStates
<1>2. \A j \in 1 .. Len(o.slots) : t[j] \in SlotStates
  BY <1>a, <1>b
<1>3. t \in Seq(SlotStates) /\ Len(t) = Len(o.slots)
  BY <1>1, <1>2
<1>4. /\ x \in EngineRec /\ x.pc = o.pc /\ x.step = o.step /\ x.seq = o.seq /\ x.mem = o.mem /\ x.todo = o.todo
      /\ x.out = o.out /\ x.err = o.err /\ x.slots = t
  BY <1>3 DEF EngineRec
<1> HIDE DEF x
<1>5. o.pc = "wait" => \A k \in 1 .. Len(t) : t[k] # "quota"
  BY <1>3 DEF Shape, Replies
<1>6. Resembles(o, x)
  BY <1>3, <1>4, <1>5 DEF Resembles
<1>c. Len(o.slots) > 0 => 1 \in 1 .. Len(o.slots)
  BY <1>1
<1>7. Refuses(o, x)
  BY <1>c, <1>4 DEF Refuses
<1> QED BY <1>4, <1>6, <1>7 DEF x

LEMMA HostStopIs ==
  ASSUME EInv, NEW e \in Episode, HostStop(e)
  PROVE  /\ eng' \in [Episode -> EngineRec]
         /\ \A f \in Episode : Resembles(eng[f], eng'[f]) /\ Refuses(eng[f], eng'[f])
<1>1. eng' = [f \in Episode |-> [eng[f] EXCEPT !.slots = [j \in DOMAIN @ |-> Refused(e, f, @[j])]]]
  BY DEF HostStop
<1>2. ASSUME NEW f \in Episode
      PROVE  eng'[f] \in EngineRec /\ Resembles(eng[f], eng'[f]) /\ Refuses(eng[f], eng'[f])
  <2>1. PICK o : o = eng[f]
    OBVIOUS
  <2>2. o \in EngineRec /\ Shape(o) /\ o.slots \in Seq(SlotStates) /\ DOMAIN o.slots = 1 .. Len(o.slots)
    BY <2>1, Fields, RecFields
  <2> DEFINE t == [j \in 1 .. Len(o.slots) |-> Refused(e, f, o.slots[j])]
             x == [o EXCEPT !.slots = t]
  <2>3. eng'[f] = x
    BY <1>1, <2>1, <2>2
  <2>4. t = [j \in 1 .. Len(o.slots) |-> t[j]]
        /\ \A j \in 1 .. Len(o.slots) : t[j] = o.slots[j] \/ t[j] \in {"cancelled", "dropped", "killed"}
    BY DEF Refused
  <2> HIDE DEF t
  <2>5. x \in EngineRec /\ Resembles(o, x) /\ Refuses(o, x)
    BY <2>2, <2>4, SlotsMapped
  <2> QED BY <2>1, <2>3, <2>5
<1>3. eng' = [f \in Episode |-> eng'[f]]
  BY <1>1
<1> QED BY <1>2, <1>3

LEMMA HostDrainedIs ==
  ASSUME EInv, NEW e \in Episode, HostDrained(e)
  PROVE  \E x \in EngineRec : Engine(e, x) /\ Resembles(eng[e], x) /\ Refuses(eng[e], x)
<1>1. PICK o : o = eng[e]
  OBVIOUS
<1>2. o \in EngineRec /\ Shape(o) /\ o.slots \in Seq(SlotStates) /\ DOMAIN o.slots = 1 .. Len(o.slots)
  BY <1>1, Fields, RecFields
<1> DEFINE t == [j \in 1 .. Len(o.slots) |-> HangUp(o.slots[j])]
           x == [o EXCEPT !.slots = t]
<1>3. Engine(e, x)
  BY <1>1, <1>2 DEF HostDrained, Engine
<1>4. t = [j \in 1 .. Len(o.slots) |-> t[j]]
      /\ \A j \in 1 .. Len(o.slots) : t[j] = o.slots[j] \/ t[j] \in {"cancelled", "dropped", "killed"}
  BY DEF HangUp
<1> HIDE DEF t
<1>5. x \in EngineRec /\ Resembles(o, x) /\ Refuses(o, x)
  BY <1>2, <1>4, SlotsMapped
<1> QED BY <1>1, <1>3, <1>5

LEMMA LeastNatural ==
  ASSUME NEW T, T \subseteq Nat, T # {}
  PROVE  \E x \in T : \A y \in T : x <= y
<1>1. PICK x \in T : \A y \in T : ~(<<y, x>> \in OpToRel(<, Nat))
  BY NatLessThanWellFounded, WFMin
<1>2. \A y \in T : ~(y < x)
  BY <1>1 DEF OpToRel
<1>3. \A y \in T : x <= y
  BY <1>2
<1> QED BY <1>3

LEMMA HostTakeIs ==
  ASSUME EInv, NEW e \in Episode, HostTake(e)
  PROVE  \E j \in 1 .. Len(eng[e].slots) :
            /\ eng[e].slots[j] = "queued"
            /\ \/ eng[e].pc = "wait" /\ Slot(e, j, "running") /\ used' = used
               \/ eng[e].pc = "reserve" /\ Slot(e, j, "quota") /\ used' = used
               \/ /\ eng[e].pc = "reserve" /\ Slot(e, j, "ok")
                  /\ used + LiveCount(e) <= budget /\ used' = used + LiveCount(e)
               \/ /\ eng[e].pc = "release" /\ Slot(e, j, "ok")
                  /\ used' = IF used < Unjournaled(e) THEN 0 ELSE used - Unjournaled(e)
<1> DEFINE q == {j \in 1 .. Len(eng[e].slots) : eng[e].slots[j] = "queued"}
           c == CHOOSE i \in q : \A k \in q : i <= k
<1>1. q # {} /\ q \subseteq Nat
  BY DEF HostTake
<1>2. \E i \in q : \A k \in q : i <= k
  BY <1>1, LeastNatural
<1>3. c \in q
  BY <1>2
<1>4. PICK j : j = c
  OBVIOUS
<1>5. j \in 1 .. Len(eng[e].slots) /\ eng[e].slots[j] = "queued"
  BY <1>3, <1>4
<1>6. \/ eng[e].pc = "wait" /\ Slot(e, j, "running") /\ used' = used
      \/ eng[e].pc = "reserve" /\ Slot(e, j, "quota") /\ used' = used
      \/ /\ eng[e].pc = "reserve" /\ Slot(e, j, "ok")
         /\ used + LiveCount(e) <= budget /\ used' = used + LiveCount(e)
      \/ /\ eng[e].pc = "release" /\ Slot(e, j, "ok")
         /\ used' = IF used < Unjournaled(e) THEN 0 ELSE used - Unjournaled(e)
  BY <1>4 DEF HostTake
<1> QED BY <1>5, <1>6

\* The agents of the step under way.
LEMMA UnjournaledIs ==
  ASSUME EInv, NEW e \in Episode, eng[e].pc \in {"wait", "release", "record"}
  PROVE  Unjournaled(e) \in Nat /\ Unjournaled(e) = eng[e].seq - Len(eng[e].mem)
<1>1. PICK o : o = eng[e]
  OBVIOUS
<1>2. o \in EngineRec /\ Shape(o) /\ o.pc \in {"wait", "release", "record"}
  BY <1>1, Fields
<1>3. o.seq \in Nat /\ Len(o.mem) \in Nat /\ Len(o.mem) < o.seq
  BY <1>2, RecFields, CallsFinite DEF Shape, Position
<1>4. Unjournaled(e) = o.seq - Len(o.mem)
  BY <1>1 DEF Unjournaled
<1> QED BY <1>1, <1>3, <1>4

-----------------------------------------------------------------------------
(* Every action keeps the types, the shape of every engine and Told.       *)

LEMMA EngineKeeps ==
  ASSUME EInv, NEW e \in Episode, NEW x \in EngineRec, Engine(e, x), Shape(x), Idle(eng[e]) => Idle(x),
         file' \in Seq(Line), used' \in Nat, host' \in [Episode -> Hosts], faults' \in 0 .. MaxFaults,
         UNCHANGED <<status, budget, blame, epoch, active, cancelled, intent, saving, stomped>>
  PROVE  EInv'
<1>1. eng' = [eng EXCEPT ![e] = x] /\ eng \in [Episode -> EngineRec] /\ epoch \in Episode
  BY DEF Engine, EInv, Types
<1>2. eng' \in [Episode -> EngineRec] /\ eng'[e] = x /\ \A f \in Episode : f # e => eng'[f] = eng[f]
  BY <1>1
<1>3. Types'
  BY <1>2 DEF EInv, Types
<1>4. Shapes'
  BY <1>2 DEF EInv, Shapes
<1>5. Idle(eng[epoch]) => Idle(eng'[epoch])
  BY <1>1, <1>2
<1>6. Told'
  BY <1>5 DEF EInv, Told
<1>7. Saved'
  BY <1>2 DEF EInv, Types, Saved
<1> QED BY <1>3, <1>4, <1>6, <1>7 DEF EInv

LEMMA Fixed ==
  ASSUME EInv
  PROVE  /\ file \in Seq(Line) /\ used \in Nat /\ host \in [Episode -> Hosts] /\ faults \in 0 .. MaxFaults
         /\ \A kind : Fault(kind) => faults' \in 0 .. MaxFaults
<1>1. /\ file \in Seq(Line) /\ used \in Nat /\ host \in [Episode -> Hosts] /\ faults \in 0 .. MaxFaults
  BY DEF EInv, Types
<1>2. MaxFaults \in Nat
  BY WorkflowAssumption
<1> QED BY <1>1, <1>2 DEF Fault

LEMMA EngineStepKeeps == ASSUME EInv, NEW e \in Episode, EngineStep(e) PROVE EInv'
<1>1. CASE Progress(e) \/ Replay(e) \/ LiveCall(e) \/ Reserved(e) \/ Answered(e) \/ Released(e)
  <2>1. ~Idle(eng[e]) /\ \E r : Engine(e, r) /\ Moves(e, r)
    BY <1>1, ProgressMoves, ReplayMoves, LiveCallMoves, ReservedMoves, AnsweredMoves, ReleasedMoves
  <2>2. PICK x : Engine(e, x) /\ Moves(e, x)
    BY <2>1
  <2>3. UNCHANGED <<file, run, epoch, active, host, cancelled, intent, saving, faults, stomped>>
    BY <1>1 DEF Progress, Replay, LiveCall, Reserved, Answered, Released, SameHistory
  <2>4. UNCHANGED <<file, status, used, budget, blame, epoch, active, host, cancelled, intent, saving, faults, stomped>>
    BY <2>3 DEF run
  <2>5. x \in EngineRec /\ Shape(x)
    BY <2>2 DEF Moves
  <2> QED BY <2>1, <2>2, <2>4, <2>5, Fixed, EngineKeeps
<1>2. CASE Record(e)
  <2>1. PICK d \in EngineRec : Engine(e, d) /\ Shape(d)
    BY <1>2, RecordMoves
  <2>2. eng[e].pc = "record" /\ file' = AppendLine(file, Head(eng[e].todo), "whole")
        /\ UNCHANGED <<run, epoch, active, host, cancelled, intent, saving, faults, stomped>>
    BY <1>2 DEF Record
  <2>3. ~Idle(eng[e]) /\ Head(eng[e].todo) \in Entry
    BY <2>2, NextLine
  <2>4. file' \in Seq(Line)
    BY <2>2, <2>3, Fixed, AppendLineTyped DEF Forms
  <2>5. UNCHANGED <<status, used, budget, blame, epoch, active, host, cancelled, intent, saving, faults, stomped>>
    BY <2>2 DEF run
  <2> QED BY <2>1, <2>3, <2>4, <2>5, Fixed, EngineKeeps
<1> QED BY <1>1, <1>2 DEF EngineStep

LEMMA RecordFailsKeeps == ASSUME EInv, NEW e \in Episode, RecordFails(e) PROVE EInv'
<1>1. eng[e].pc = "record" /\ Fault("append") /\ file' \in PartialAppends(Head(eng[e].todo))
      /\ Engine(e, Exited(eng[e], "Failed", 0))
      /\ UNCHANGED <<run, epoch, active, host, cancelled, intent, saving, stomped>>
  BY DEF RecordFails, SameHistory
<1>2. ~Idle(eng[e]) /\ Head(eng[e].todo) \in Entry /\ eng[e] \in EngineRec /\ "Failed" \in Outcomes \ {"none"}
  BY <1>1, NextLine, Fields DEF Outcomes
<1>3. Moves(e, Exited(eng[e], "Failed", 0))
  BY <1>2, ExitMoves
<1>4. file' \in Seq(Line)
  BY <1>1, <1>2, Fixed, PartialTyped
<1>5. UNCHANGED <<status, used, budget, blame, epoch, active, host, cancelled, intent, saving, stomped>> /\ faults' \in 0 .. MaxFaults
  BY <1>1, Fixed DEF run
<1> QED BY <1>1, <1>2, <1>3, <1>4, <1>5, Fixed, EngineKeeps DEF Moves

LEMMA HostStepKeeps == ASSUME EInv, NEW e \in Episode, HostStep(e) PROVE EInv'
<1>0. eng[e] \in EngineRec /\ Shape(eng[e])
  BY Fields
<1>1. CASE HostTake(e)
  <2>1. PICK j \in 1 .. Len(eng[e].slots) :
            /\ eng[e].slots[j] = "queued"
            /\ \/ eng[e].pc = "wait" /\ Slot(e, j, "running") /\ used' = used
               \/ eng[e].pc = "reserve" /\ Slot(e, j, "quota") /\ used' = used
               \/ /\ eng[e].pc = "reserve" /\ Slot(e, j, "ok")
                  /\ used + LiveCount(e) <= budget /\ used' = used + LiveCount(e)
               \/ /\ eng[e].pc = "release" /\ Slot(e, j, "ok")
                  /\ used' = IF used < Unjournaled(e) THEN 0 ELSE used - Unjournaled(e)
    BY <1>1, HostTakeIs
  <2>2. PICK s \in {"running", "quota", "ok"} : Slot(e, j, s) /\ (s = "quota" => eng[e].pc # "wait")
    BY <2>1
  <2>3. s \in SlotStates
    BY DEF SlotStates
  <2>4. PICK x \in EngineRec : Engine(e, x) /\ Resembles(eng[e], x)
    BY <2>2, <2>3, SlotIs
  <2>5. Shape(x) /\ Idle(x) = Idle(eng[e])
    BY <2>4, <1>0, ResemblesShape
  <2>6. used' \in Nat
    <3>1. eng[e].pc = "reserve" => LiveCount(e) \in Nat
      BY LiveIs
    <3>2. eng[e].pc = "release" => Unjournaled(e) \in Nat
      BY UnjournaledIs
    <3> QED BY <2>1, <3>1, <3>2, Fixed
  <2>7. UNCHANGED <<file, status, budget, blame, epoch, active, host, cancelled, intent, saving, faults, stomped>>
    BY <1>1 DEF HostTake, SameHistory
  <2> QED BY <2>4, <2>5, <2>6, <2>7, Fixed, EngineKeeps
<1>2. CASE HostStop(e)
  <2>1. eng' \in [Episode -> EngineRec] /\ \A f \in Episode : Resembles(eng[f], eng'[f])
    BY <1>2, HostStopIs
  <2>2. \A f \in Episode : Shape(eng'[f]) /\ Idle(eng'[f]) = Idle(eng[f])
    BY <2>1, Fields, ResemblesShape
  <2>3. host' \in [Episode -> Hosts]
    BY <1>2, Fixed DEF HostStop, Hosts
  <2>4. UNCHANGED <<file, status, used, budget, blame, epoch, active, cancelled, intent, saving, faults, stomped>>
    BY <1>2 DEF HostStop, run, SameHistory
  <2>5. Types'
    BY <2>1, <2>3, <2>4 DEF EInv, Types
  <2>6. Shapes'
    BY <2>2 DEF Shapes
  <2>7. Told'
    BY <2>2, <2>4 DEF EInv, Types, Told
  <2>8. Saved'
    BY <2>2, <2>4 DEF EInv, Types, Saved
  <2> QED BY <2>5, <2>6, <2>7, <2>8 DEF EInv
<1>3. CASE HostDrained(e)
  <2>1. PICK x \in EngineRec : Engine(e, x) /\ Resembles(eng[e], x)
    BY <1>3, HostDrainedIs
  <2>2. Shape(x) /\ Idle(x) = Idle(eng[e])
    BY <2>1, <1>0, ResemblesShape
  <2>3. host' \in [Episode -> Hosts]
    BY <1>3, Fixed DEF HostDrained, Hosts
  <2>4. faults' \in 0 .. MaxFaults
    BY <1>3, Fixed DEF HostDrained
  <2>5. UNCHANGED <<file, status, used, budget, blame, epoch, active, cancelled, intent, saving, stomped>>
    BY <1>3 DEF HostDrained, run, SameHistory
  <2> QED BY <2>1, <2>2, <2>3, <2>4, <2>5, Fixed, EngineKeeps
<1>4. ASSUME NEW j \in 1 .. MaxSeq, HostReply(e, j) PROVE EInv'
  <2>1. eng[e].pc = "wait" /\ j \in 1 .. Len(eng[e].slots)
        /\ UNCHANGED <<file, run, epoch, active, host, cancelled, intent, saving, faults, stomped>>
    BY <1>4 DEF HostReply, SameHistory
  <2>2. PICK s \in {"ok", "failed", "cancelled"} : Slot(e, j, s)
    BY <1>4 DEF HostReply
  <2>3. s \in SlotStates /\ s # "quota"
    BY DEF SlotStates
  <2>4. PICK x \in EngineRec : Engine(e, x) /\ Resembles(eng[e], x)
    BY <2>1, <2>2, <2>3, SlotIs
  <2>5. Shape(x) /\ Idle(x) = Idle(eng[e])
    BY <2>4, <1>0, ResemblesShape
  <2>6. UNCHANGED <<file, status, used, budget, blame, epoch, active, host, cancelled, intent, saving, faults, stomped>>
    BY <2>1 DEF run
  <2> QED BY <2>4, <2>5, <2>6, Fixed, EngineKeeps
<1> QED BY <1>1, <1>2, <1>3, <1>4 DEF HostStep

LEMMA RetireKeeps == ASSUME EInv, NEW e \in Episode, Retire(e) PROVE EInv'
<1>1. /\ eng' = [eng EXCEPT ![e] = Off] /\ host' = [host EXCEPT ![e] = "gone"]
      /\ cancelled' = [cancelled EXCEPT ![e] = FALSE] /\ intent' = [intent EXCEPT ![e] = FALSE]
      /\ UNCHANGED <<file, used, budget, epoch, active, faults, stomped>>
  BY DEF Retire, SameHistory
<1>2. /\ epoch # e => status' = status
      /\ status = "Interrupted" => status' = "Interrupted"
      /\ saving' \subseteq saving \cup {e} /\ (epoch # e => saving' = saving)
  BY DEF Retire, IsCurrent, ApplyOutcome, Settled
<1>3. eng[e] \in EngineRec /\ eng[e].out \in Outcomes /\ eng[e].err \in 0 .. MaxSeq
  BY Fields, RecFields
<1>4. eng[e].out # "none"
  BY Fields DEF Retire, Shape, Parked
<1>5. status' \in Statuses /\ blame' \in 0 .. MaxSeq
  <2>1. status \in Statuses /\ blame \in 0 .. MaxSeq /\ MaxSeq \in Nat
    BY CallsFinite DEF EInv, Types
  <2>2. ASSUME ApplyOutcome(eng[e].out, eng[e].err)
        PROVE  status' \in Statuses /\ blame' \in 0 .. MaxSeq
    BY <2>1, <2>2, <1>3, <1>4 DEF ApplyOutcome, Outcomes, Statuses
  <2> QED BY <2>1, <2>2 DEF Retire, Statuses
<1>6. eng' \in [Episode -> EngineRec] /\ eng'[e] = Off /\ \A f \in Episode : f # e => eng'[f] = eng[f]
  BY <1>1, OffIs DEF EInv, Types
<1>7. Types'
  BY <1>1, <1>2, <1>5, <1>6 DEF EInv, Types, Hosts
<1>8. Shapes'
  BY <1>6, OffIs DEF EInv, Shapes
<1>9. Told'
  <2>1. CASE epoch = e
    BY <2>1, <1>1, <1>2, <1>6, OffIs DEF EInv, Told
  <2>2. CASE epoch # e
    BY <2>2, <1>1, <1>2, <1>6 DEF EInv, Types, Told
  <2> QED BY <2>1, <2>2
<1>10. Saved'
  <2> SUFFICES ASSUME NEW f \in saving' PROVE f <= epoch /\ Idle(eng'[f])
    BY <1>1 DEF Saved
  <2>1. CASE f = e /\ e = epoch
    BY <2>1, <1>6, OffIs DEF EInv, Types, Episode
  <2>2. CASE f \in saving
    BY <2>2, <1>6, OffIs DEF EInv, Types, Saved
  <2> QED BY <2>1, <2>2, <1>2
<1> QED BY <1>7, <1>8, <1>9, <1>10 DEF EInv

LEMMA SaveKeeps == ASSUME EInv, NEW e \in Episode, Save(e) PROVE EInv'
<1>1. /\ saving' = saving \ {e}
      /\ UNCHANGED <<file, run, epoch, active, eng, host, cancelled, intent, faults, stomped>>
  BY DEF Save, SameHistory
<1> QED BY <1>1 DEF EInv, Types, Shapes, Told, Saved, run

LEMMA SaveFailsKeeps == ASSUME EInv, NEW e \in Episode, SaveFails(e) PROVE EInv'
<1>1. /\ e \in saving /\ Fault("persist") /\ saving' = saving \ {e}
      /\ status' = "Interrupted" /\ blame' = 0 /\ stomped' = (stomped \/ e # epoch)
      /\ UNCHANGED <<file, used, budget, epoch, active, eng, host, cancelled, intent>>
  BY DEF SaveFails
<1>2. faults' \in 0 .. MaxFaults
  BY <1>1, Fixed
<1>3. stomped' \in BOOLEAN
  BY <1>1
<1>4. Types'
  BY <1>1, <1>2, <1>3, CallsFinite DEF EInv, Types, Statuses
<1>5. e = epoch => Idle(eng[epoch])
  BY <1>1 DEF EInv, Saved
<1>6. Told'
  BY <1>1, <1>5, Zenon DEF EInv, Told
<1>7. Saved'
  BY <1>1 DEF EInv, Saved
<1> QED BY <1>1, <1>4, <1>6, <1>7 DEF EInv, Shapes

LEMMA PauseKeeps == ASSUME EInv, Pause PROVE EInv'
<1>1. /\ active # 0 /\ cancelled' = [cancelled EXCEPT ![active] = TRUE]
      /\ intent' = [intent EXCEPT ![active] = TRUE] /\ active' = 0
      /\ status = "Active" /\ status' = "UserPaused" /\ blame' = 0
      /\ UNCHANGED <<file, used, budget, epoch, eng, host, saving, faults, stomped>>
  BY DEF Pause, SameHistory
<1>2. active = epoch /\ epoch \in Episode /\ cancelled'[epoch] = TRUE
  BY <1>1 DEF EInv, Types
<1>3. Types'
  BY <1>1, <1>2, CallsFinite DEF EInv, Types, Statuses
<1>4. Shapes' /\ Saved'
  BY <1>1 DEF EInv, Shapes, Saved
<1>5. Told'
  BY <1>1, <1>2 DEF EInv, Told
<1> QED BY <1>3, <1>4, <1>5 DEF EInv

LEMMA StopKeeps == ASSUME EInv, Stop PROVE EInv'
<1>1. /\ cancelled' = (IF active # 0 THEN [cancelled EXCEPT ![active] = TRUE] ELSE cancelled)
      /\ active' = 0 /\ status # "Interrupted" /\ status' = "Cancelled"
      /\ UNCHANGED <<file, used, budget, blame, epoch, eng, host, intent, saving, faults, stomped>>
  BY DEF Stop, SameHistory, Terminal
<1>2. active \in {0, epoch} /\ epoch \in Episode /\ cancelled \in [Episode -> BOOLEAN] /\ epoch # 0
  BY DEF EInv, Types, Episode
<1>3. Types'
  <2>1. cancelled' \in [Episode -> BOOLEAN]
    BY <1>1, <1>2
  <2> QED BY <2>1, <1>1 DEF EInv, Types, Statuses
<1>4. Shapes' /\ Saved'
  BY <1>1 DEF EInv, Shapes, Saved
<1>5. ~Idle(eng[epoch]) => cancelled'[epoch] = TRUE
  <2>1. CASE active = epoch
    BY <2>1, <1>1, <1>2
  <2>2. CASE active = 0
    <3>1. ~Idle(eng[epoch]) => cancelled[epoch]
      BY <2>2, <1>2 DEF EInv, Told
    <3> QED BY <3>1, <2>2, <1>1, <1>2
  <2> QED BY <2>1, <2>2, <1>2
<1>6. Told'
  BY <1>1, <1>5 DEF EInv, Told
<1> QED BY <1>3, <1>4, <1>6 DEF EInv

LEMMA ShutdownKeeps == ASSUME EInv, Shutdown PROVE EInv'
<1>1. /\ active # 0 /\ cancelled' = [cancelled EXCEPT ![active] = TRUE] /\ active' = 0
      /\ UNCHANGED <<file, status, used, budget, blame, epoch, eng, host, intent, saving, faults, stomped>>
  BY DEF Shutdown, SameHistory, run
<1>2. active = epoch /\ epoch \in Episode /\ cancelled'[epoch] = TRUE
  BY <1>1 DEF EInv, Types
<1>3. Types'
  BY <1>1, <1>2 DEF EInv, Types
<1>4. Shapes' /\ Saved'
  BY <1>1 DEF EInv, Shapes, Saved
<1>5. Told'
  BY <1>1, <1>2 DEF EInv, Told
<1> QED BY <1>3, <1>4, <1>5 DEF EInv

LEMMA ResumeRefusedKeeps == ASSUME EInv, ResumeRefused PROVE EInv'
<1>1. /\ Loads(file) /\ file' = Kept /\ used' = Reconciled(Kept)
      /\ UNCHANGED <<status, budget, blame, epoch, active, eng, host, cancelled, intent, saving, faults, stomped>>
  BY DEF ResumeRefused, SameHistory
<1>2. file' \in Seq(Line) /\ used' \in Nat
  BY <1>1, KeptIs, AgentsFinite DEF EInv, Reconciled
<1>3. Types'
  BY <1>1, <1>2 DEF EInv, Types
<1> QED BY <1>1, <1>3 DEF EInv, Shapes, Told, Saved

\* An episode begins with the engine x, at work or not.
LEMMA TakeOverKeeps ==
  ASSUME EInv, NEW b \in Budget .. MaxBudget, TakeOver(b), NEW x \in EngineRec, Shape(x),
         eng' = [eng EXCEPT ![epoch + 1] = x],
         \/ status' = "Active" /\ active' = epoch + 1
         \/ status' = "Interrupted" /\ active' = 0 /\ Idle(x),
         host' \in [Episode -> Hosts], faults' \in 0 .. MaxFaults
  PROVE  EInv'
<1>1. PICK n : n = epoch + 1
  OBVIOUS
<1>2. /\ Loads(file) /\ epoch < MaxEpisodes /\ file' = Kept /\ used' = Reconciled(Kept) /\ budget' = b
      /\ status # "Interrupted" /\ blame' = 0 /\ epoch' = n
      /\ UNCHANGED <<cancelled, intent, saving, stomped>>
  BY <1>1 DEF TakeOver, CanResume, Resumable
<1>3. n \in Episode /\ epoch \in Nat
  BY <1>1, <1>2, WorkflowAssumption DEF EInv, Types, Episode
<1>4. file' \in Seq(Line) /\ used' \in Nat
  BY <1>2, KeptIs, AgentsFinite DEF EInv, Reconciled
<1>5. eng' \in [Episode -> EngineRec] /\ eng'[n] = x /\ \A f \in Episode : f # n => eng'[f] = eng[f]
  BY <1>1, <1>3 DEF EInv, Types
<1>6. status' \in Statuses /\ active' \in {0, n}
  BY <1>1 DEF Statuses
<1>7. Types'
  BY <1>2, <1>3, <1>4, <1>5, <1>6, CallsFinite DEF EInv, Types
<1>8. Shapes'
  BY <1>5 DEF EInv, Shapes
<1>9. ~stomped
  BY <1>2 DEF EInv, Told
<1>10. Told'
  BY <1>1, <1>2, <1>5, <1>9 DEF Told
<1>11. Saved'
  <2> SUFFICES ASSUME NEW f \in saving PROVE f <= n /\ Idle(eng'[f])
    BY <1>2 DEF Saved
  <2>1. f \in Episode /\ f <= epoch /\ Idle(eng[f]) /\ f \in Nat
    BY DEF EInv, Types, Saved, Episode
  <2>2. f # n /\ f <= n
    BY <2>1, <1>1, <1>3
  <2> QED BY <2>1, <2>2, <1>5
<1> QED BY <1>7, <1>8, <1>10, <1>11 DEF EInv

LEMMA ResumeKeeps == ASSUME EInv, NEW b \in Budget .. MaxBudget, Resume(b) PROVE EInv'
<1>1. TakeOver(b) /\ status' = "Active" /\ active' = epoch + 1 /\ UNCHANGED faults
      /\ eng' = [eng EXCEPT ![epoch + 1] = Started(Entries(Kept))] /\ host' = [host EXCEPT ![epoch + 1] = "serving"]
  BY DEF Resume
<1>2. PICK x : x = Started(Entries(Kept))
  OBVIOUS
<1>3. Loads(file)
  BY <1>1 DEF TakeOver
<1>4. x \in EngineRec /\ Shape(x)
  BY <1>2, <1>3, KeptIs, StartedIs DEF EInv
<1>5. host' \in [Episode -> Hosts]
  BY <1>1, Fixed DEF Hosts
<1> QED BY <1>1, <1>2, <1>4, <1>5, Fixed, TakeOverKeeps

LEMMA ResumeUnsavedKeeps == ASSUME EInv, NEW b \in Budget .. MaxBudget, ResumeUnsaved(b) PROVE EInv'
<1>1. TakeOver(b) /\ Fault("persist") /\ status' = "Interrupted" /\ active' = 0
      /\ eng' = [eng EXCEPT ![epoch + 1] = Off] /\ UNCHANGED host
  BY DEF ResumeUnsaved
<1> QED BY <1>1, Fixed, OffIs, TakeOverKeeps

LEMMA CrashKeeps == ASSUME EInv, Crash PROVE EInv'
<1>1. /\ Fault("crash")
      /\ file' \in {file} \cup UNION {PartialAppends(Head(eng[e].todo)) :
                                      e \in {f \in Episode : eng[f].pc = "record"}}
      /\ status' \in Restored /\ saving' = {} /\ stomped' = FALSE
      /\ eng' = [e \in Episode |-> Off] /\ host' = [e \in Episode |-> "gone"]
      /\ cancelled' = [e \in Episode |-> FALSE] /\ intent' = [e \in Episode |-> FALSE] /\ active' = 0
      /\ UNCHANGED <<used, budget, blame, epoch>>
  BY DEF Crash
<1>2. file' \in Seq(Line)
  <2>1. CASE file' = file
    BY <2>1, Fixed
  <2>2. ASSUME NEW e \in Episode, eng[e].pc = "record", file' \in PartialAppends(Head(eng[e].todo))
        PROVE  file' \in Seq(Line)
    BY <2>2, Fixed, NextLine, PartialTyped
  <2> QED BY <1>1, <2>1, <2>2
<1>3. faults' \in 0 .. MaxFaults
  BY <1>1, Fixed
<1>s. status' \in Statuses
  BY <1>1 DEF EInv, Types, Restored, Statuses
<1>4. Types'
  BY <1>1, <1>2, <1>3, <1>s, OffIs DEF EInv, Types, Hosts
<1>5. \A e \in Episode : eng'[e] = Off
  BY <1>1
<1>6. Shapes'
  BY <1>5, OffIs DEF Shapes
<1>7. Told' /\ Saved'
  BY <1>1, <1>5, OffIs DEF EInv, Types, Told, Saved
<1> QED BY <1>4, <1>6, <1>7 DEF EInv

LEMMA InitE == Init => EInv
<1> SUFFICES ASSUME Init PROVE EInv
  OBVIOUS
<1>1. <<>> \in Seq(Line) /\ <<>> \in Seq(Entry) /\ Dense(<<>>)
  BY DEF Dense
<1>2. PICK x : x = Started(<<>>)
  OBVIOUS
<1>3. x \in EngineRec /\ Shape(x)
  BY <1>1, <1>2, StartedIs
<1>4. eng = [e \in Episode |-> IF e = 1 THEN x ELSE Off]
  BY <1>2 DEF Init
<1>5. eng \in [Episode -> EngineRec] /\ \A e \in Episode : Shape(eng[e])
  BY <1>3, <1>4, OffIs
<1>6. 1 \in Episode /\ MaxSeq \in Nat /\ Budget \in Nat /\ MaxBudget \in Nat /\ Budget <= MaxBudget /\ MaxFaults \in Nat
  BY WorkflowAssumption, CallsFinite DEF Episode
<1>a. /\ file \in Seq(Line) /\ status \in Statuses /\ used \in Nat /\ budget \in Budget .. MaxBudget
      /\ blame \in 0 .. MaxSeq /\ epoch \in Episode /\ active \in {0, epoch} /\ faults \in 0 .. MaxFaults
  BY <1>1, <1>6 DEF Init, Statuses
<1>b. host \in [Episode -> Hosts] /\ cancelled \in [Episode -> BOOLEAN] /\ intent \in [Episode -> BOOLEAN]
  BY DEF Init, Hosts
<1>c. stomped \in BOOLEAN
  BY Zenon DEF Init
<1>d. saving \subseteq Episode
  BY DEF Init
<1>7. Types
  BY <1>5, <1>a, <1>b, <1>c, <1>d, Zenon DEF Types
<1>8. Told /\ Saved
  BY DEF Init, Told, Saved
<1> QED BY <1>5, <1>7, <1>8 DEF EInv, Shapes

LEMMA NextE == EInv /\ [Next]_vars => EInv'
<1> SUFFICES ASSUME EInv, [Next]_vars PROVE EInv'
  OBVIOUS
<1>1. CASE UNCHANGED vars
  BY <1>1 DEF vars, run, EInv, Types, Shapes, Told, Saved
<1>2. CASE Next
  <2>1. ASSUME NEW e \in Episode, EngineStep(e) \/ RecordFails(e) \/ HostStep(e) \/ WatcherStep(e) \/ SaveFails(e)
        PROVE  EInv'
    BY <2>1, EngineStepKeeps, RecordFailsKeeps, HostStepKeeps, RetireKeeps, SaveKeeps, SaveFailsKeeps DEF WatcherStep
  <2>2. CASE Pause \/ Stop \/ Shutdown \/ ResumeRefused \/ Crash
    BY <2>2, PauseKeeps, StopKeeps, ShutdownKeeps, ResumeRefusedKeeps, CrashKeeps
  <2>3. ASSUME NEW b \in Budget .. MaxBudget, Resume(b) \/ ResumeUnsaved(b) PROVE EInv'
    BY <2>3, ResumeKeeps, ResumeUnsavedKeeps
  <2> QED BY <1>2, <2>1, <2>2, <2>3 DEF Next
<1> QED BY <1>1, <1>2

LEMMA AlwaysE == Spec => []EInv
BY InitE, NextE, PTL DEF Spec

(* Whatever a resume overtakes, an engine at work that nobody told to stop  *)
(* runs a run that is Active: the outcome of a retired episode never marks  *)
(* it, because the watcher compares the epoch under the tracker's lock.     *)
(* The one watcher that does mark it, with Interrupted, is one that applied *)
(* its outcome before the resume and could not save it (persist_ack).       *)
THEOREM StatusOfSuccessor == Spec => []SuccessorKeepsStatus
<1>1. EInv => SuccessorKeepsStatus
  BY DEF EInv, Told, Idle, SuccessorKeepsStatus
<1> QED BY <1>1, AlwaysE, PTL

-----------------------------------------------------------------------------
(* Where a resume waits for the engine, one engine works on the journal.    *)

LEMMA IdlePending == ASSUME NEW r, Idle(r) PROVE Pending(r) = 0
BY DEF Idle, Pending

LEMMA Whose ==
  ASSUME EInv, Alone, NEW e \in Episode, ~Idle(eng[e])
  PROVE  /\ e = epoch /\ AllWhole(file) /\ Len(file) = Len(eng[e].mem) /\ blame = 0
         /\ \A i \in 1 .. Len(file) : file[i].entry = eng[e].mem[i] /\ file[i].entry.seq = i - 1
<1>1. e = epoch
  BY DEF Alone, OneEngine
<1>2. AllWhole(file) /\ Len(file) = Len(eng[e].mem) /\ \A i \in 1 .. Len(file) : file[i].entry = eng[e].mem[i]
  BY <1>1 DEF Alone, InStep
<1>3. blame = 0
  BY <1>1 DEF Alone, Blamed
<1>4. Dense(eng[e].mem)
  BY Fields DEF Shape
<1> QED BY <1>1, <1>2, <1>3, <1>4 DEF Dense

LEMMA EngineAlone ==
  ASSUME EInv, Alone, NEW e \in Episode, NEW x \in EngineRec, Engine(e, x), Idle(eng[e]) => Idle(x),
         x.mem = eng[e].mem, e = epoch => AgentEntries(file) + Pending(x) <= used', e # epoch => used' = used,
         used' <= budget, x.err # 0 => ~Idle(eng[e]) \/ x.err = eng[e].err,
         UNCHANGED <<file, budget, blame, epoch>>
  PROVE  Alone'
<1>1. eng' = [eng EXCEPT ![e] = x] /\ eng \in [Episode -> EngineRec] /\ epoch \in Episode
  BY DEF Engine, EInv, Types
<1>2. eng'[e] = x /\ \A f \in Episode : f # e => eng'[f] = eng[f]
  BY <1>1
<1>3. OneEngine'
  BY <1>2 DEF Alone, OneEngine
<1>4. InStep'
  <2>1. Idle(eng[epoch]) => Idle(eng'[epoch])
    BY <1>1, <1>2
  <2>2. eng'[epoch].mem = eng[epoch].mem
    BY <1>1, <1>2
  <2> QED BY <2>1, <2>2 DEF Alone, InStep
<1>5. Covered'
  <2>1. CASE e = epoch
    BY <2>1, <1>2 DEF Covered
  <2>2. CASE e # epoch
    BY <2>2, <1>1, <1>2 DEF Alone, Covered
  <2> QED BY <2>1, <2>2
<1>6. Blamed'
  <2>1. CASE e = epoch
    <3>1. x.err # 0 => AllWhole(file)
      BY <2>1 DEF Alone, InStep, Blamed
    <3>2. blame # 0 => Idle(x) /\ AllWhole(file)
      BY <2>1 DEF Alone, Blamed
    <3> QED BY <2>1, <3>1, <3>2, <1>2 DEF Blamed
  <2>2. CASE e # epoch
    BY <2>2, <1>1, <1>2 DEF Alone, Blamed
  <2> QED BY <2>1, <2>2
<1> QED BY <1>3, <1>4, <1>5, <1>6 DEF Alone

LEMMA Counts ==
  ASSUME EInv, Alone
  PROVE  /\ AgentEntries(file) \in Nat /\ Pending(eng[epoch]) \in Nat /\ used \in Nat /\ budget \in Nat
         /\ AgentEntries(file) + Pending(eng[epoch]) <= used /\ used <= budget /\ epoch \in Episode
<1>1. epoch \in Episode /\ file \in Seq(Line) /\ used \in Nat /\ budget \in Nat
  BY WorkflowAssumption DEF EInv, Types
<1>2. Pending(eng[epoch]) \in Nat
  BY <1>1, Fields, PendingNat
<1> QED BY <1>1, <1>2, AgentsFinite DEF Alone, Covered

\* A step that promises nothing.
LEMMA EngineTame ==
  ASSUME EInv, Alone, NEW e \in Episode, NEW x \in EngineRec, Engine(e, x), Idle(eng[e]) => Idle(x),
         x.mem = eng[e].mem, Pending(x) <= Pending(eng[e]), Pending(x) \in Nat,
         x.err # 0 => ~Idle(eng[e]) \/ x.err = eng[e].err,
         UNCHANGED <<file, used, budget, blame, epoch>>
  PROVE  Alone'
<1>1. e = epoch => AgentEntries(file) + Pending(x) <= used'
  BY Counts
<1>2. used' <= budget
  BY Counts
<1> QED BY <1>1, <1>2, EngineAlone

LEMMA QuietStepAlone ==
  ASSUME EInv, Alone, NEW e \in Episode,
         Progress(e) \/ Replay(e) \/ LiveCall(e) \/ Reserved(e) \/ Answered(e) \/ Released(e)
  PROVE  Alone'
<1>1. ~Idle(eng[e]) /\ \E r : Engine(e, r) /\ Moves(e, r)
  BY ProgressMoves, ReplayMoves, LiveCallMoves, ReservedMoves, AnsweredMoves, ReleasedMoves
<1>2. PICK x : Engine(e, x) /\ Moves(e, x)
  BY <1>1
<1>3. UNCHANGED <<file, run, epoch>>
  BY DEF Progress, Replay, LiveCall, Reserved, Answered, Released
<1>4. UNCHANGED <<file, used, budget, blame, epoch>>
  BY <1>3 DEF run
<1>5. x \in EngineRec /\ Shape(x) /\ x.mem = eng[e].mem /\ Pending(x) <= Pending(eng[e]) /\ Pending(x) \in Nat
  BY <1>2, PendingNat DEF Moves
<1> QED BY <1>1, <1>2, <1>4, <1>5, EngineTame

LEMMA RecordAlone ==
  ASSUME EInv, Alone, NEW e \in Episode, Record(e)
  PROVE  /\ Alone' /\ AllWhole(file') /\ file' = Append(file, [entry |-> Head(eng[e].todo), form |-> "whole"])
         /\ e = epoch /\ file' \in Seq(Line) /\ Len(file') = Len(file) + 1
         /\ \A i \in 1 .. Len(file) : file'[i] = file[i]
<1>1. PICK en : en = Head(eng[e].todo)
  OBVIOUS
<1>2. eng[e].pc = "record" /\ file' = AppendLine(file, en, "whole") /\ UNCHANGED <<run, epoch>>
  BY <1>1 DEF Record
<1>3. en \in Entry /\ en.seq = Len(eng[e].mem) /\ ~Idle(eng[e])
  BY <1>1, <1>2, NextLine
<1>4. /\ e = epoch /\ AllWhole(file) /\ Len(file) = Len(eng[e].mem) /\ blame = 0
      /\ \A i \in 1 .. Len(file) : file[i].entry = eng[e].mem[i] /\ file[i].entry.seq = i - 1
  BY <1>3, Whose
<1>5. PICK l : l = [entry |-> en, form |-> "whole"]
  OBVIOUS
<1>6. l \in Line /\ l.entry = en /\ l.form = "whole"
  BY <1>3, <1>5 DEF Line, Forms
<1>7. file \in Seq(Line) /\ Len(file) \in Nat
  BY Fixed
<1>8. file' = Append(file, l)
  BY <1>2, <1>4, <1>5, <1>7, AppendWhole
<1>9. file' \in Seq(Line) /\ Len(file') = Len(file) + 1 /\ file'[Len(file) + 1] = l
      /\ \A i \in 1 .. Len(file) : file'[i] = file[i]
  BY <1>6, <1>7, <1>8
<1>10. AgentEntries(file') = AgentEntries(file) + (IF en.agent THEN 1 ELSE 0)
  BY <1>6, <1>7, <1>8, AgentsAppended
<1>11. AllWhole(file')
  BY <1>4, <1>6, <1>7, <1>9 DEF AllWhole
<1>12. Loads(file')
  <2>1. Extends(file, file', en)
    BY <1>5, <1>8 DEF Extends
  <2> QED BY <2>1, <1>3, <1>4, <1>7, ExtendedLoads
<1>13. PICK d \in EngineRec : /\ Engine(e, d) /\ Shape(d) /\ d.mem = Append(eng[e].mem, en)
                              /\ Pending(d) + (IF en.agent THEN 1 ELSE 0) <= Pending(eng[e])
  BY <1>1, RecordMoves
<1>14. eng'[e] = d /\ \A f \in Episode : f # e => eng'[f] = eng[f]
  BY <1>13 DEF Engine, EInv, Types
<1>15. OneEngine'
  BY <1>2, <1>4, <1>14 DEF Alone, OneEngine
<1>16. InStep'
  <2>1. PICK m : m = eng[e].mem
    OBVIOUS
  <2>2. m \in Seq(Entry) /\ Len(m) = Len(file) /\ d.mem = Append(m, en)
        /\ \A i \in 1 .. Len(file) : file[i].entry = m[i]
    BY <2>1, <1>4, <1>13, Fields, RecFields
  <2>3. Len(d.mem) = Len(file) + 1 /\ d.mem[Len(file) + 1] = en /\ \A i \in 1 .. Len(file) : d.mem[i] = m[i]
    BY <2>2, <1>3, <1>7
  <2>4. \A i \in 1 .. Len(file') : i \in 1 .. Len(file) \/ i = Len(file) + 1
    BY <1>7, <1>9
  <2>5. \A i \in 1 .. Len(file') : file'[i].entry = d.mem[i]
    BY <2>2, <2>3, <2>4, <1>6, <1>9
  <2> QED BY <2>3, <2>5, <1>2, <1>4, <1>9, <1>11, <1>14 DEF InStep
<1>17. Covered'
  <2>1. Pending(d) \in Nat
    BY <1>13, PendingNat
  <2>2. AgentEntries(file') + Pending(d) <= used
    BY <2>1, <1>4, <1>10, <1>13, Counts
  <2> QED BY <2>2, <1>2, <1>4, <1>14, Counts DEF Covered, run
<1>18. Blamed'
  BY <1>2, <1>4, <1>11 DEF Blamed, run
<1>19. Alone'
  BY <1>12, <1>15, <1>16, <1>17, <1>18 DEF Alone
<1> QED BY <1>1, <1>4, <1>5, <1>8, <1>9, <1>11, <1>19

\* The journal after an append that was cut short.
LEMMA CutShort ==
  ASSUME EInv, Alone, NEW e \in Episode, eng[e].pc = "record", file' \in PartialAppends(Head(eng[e].todo))
  PROVE  /\ e = epoch /\ blame = 0 /\ Loads(file') /\ Len(file) <= Len(file')
         /\ AgentEntries(file') <= used /\ \A i \in 1 .. Len(file) : file'[i] = file[i]
<1>1. PICK en : en = Head(eng[e].todo)
  OBVIOUS
<1>2. en \in Entry /\ en.seq = Len(eng[e].mem) /\ ~Idle(eng[e]) /\ en.agent = AgentStep(eng[e])
      /\ Len(eng[e].mem) < eng[e].seq
  BY <1>1, NextLine
<1>3. /\ e = epoch /\ AllWhole(file) /\ Len(file) = Len(eng[e].mem) /\ blame = 0
      /\ \A i \in 1 .. Len(file) : file[i].entry.seq = i - 1
  BY <1>2, Whose
<1>4. file \in Seq(Line)
  BY Fixed
<1>5. Extends(file, file', en)
  BY <1>1, <1>3, <1>4, PartialExtends
<1>6. /\ file' \in Seq(Line) /\ Loads(file')
      /\ AgentEntries(file') <= AgentEntries(file) + (IF en.agent THEN 1 ELSE 0)
      /\ Len(file) <= Len(file') /\ \A i \in 1 .. Len(file) : file'[i] = file[i]
  BY <1>2, <1>3, <1>4, <1>5, ExtendedLoads
<1>7. (IF en.agent THEN 1 ELSE 0) <= Pending(eng[e])
  <2>1. eng[e].seq \in Nat /\ Len(eng[e].mem) \in Nat
    BY Fields, RecFields, CallsFinite
  <2> QED BY <2>1, <1>2 DEF Pending
<1>8. AgentEntries(file') \in Nat
  BY <1>6, AgentsFinite
<1>9. AgentEntries(file') <= used
  BY <1>3, <1>6, <1>7, <1>8, Counts
<1> QED BY <1>3, <1>6, <1>9

LEMMA RecordFailsAlone == ASSUME EInv, Alone, NEW e \in Episode, RecordFails(e) PROVE Alone'
<1>1. eng[e].pc = "record" /\ file' \in PartialAppends(Head(eng[e].todo))
      /\ Engine(e, Exited(eng[e], "Failed", 0)) /\ UNCHANGED <<run, epoch>>
  BY DEF RecordFails
<1>2. e = epoch /\ blame = 0 /\ Loads(file') /\ AgentEntries(file') <= used
  BY <1>1, CutShort
<1>3. PICK x : x = Exited(eng[e], "Failed", 0)
  OBVIOUS
<1>4. "Failed" \in Outcomes \ {"none"} /\ 0 \in 0 .. MaxSeq /\ eng[e] \in EngineRec /\ Dense(eng[e].mem)
  BY Fields, CallsFinite DEF Outcomes, Shape
<1>5. Idle(x) /\ Pending(x) = 0 /\ x.err = 0
  BY <1>3, <1>4, ExitedIs
<1>6. eng'[e] = x /\ \A f \in Episode : f # e => eng'[f] = eng[f]
  BY <1>1, <1>3 DEF Engine, EInv, Types
<1>7. OneEngine'
  BY <1>1, <1>2, <1>6 DEF Alone, OneEngine
<1>8. InStep' /\ Blamed'
  BY <1>1, <1>2, <1>5, <1>6 DEF InStep, Blamed, run
<1>9. Covered'
  <2>1. file' \in Seq(Line)
    BY RecordFailsKeeps DEF EInv, Types
  <2>2. AgentEntries(file') \in Nat
    BY <2>1, AgentsFinite
  <2> QED BY <2>2, <1>1, <1>2, <1>5, <1>6, Counts DEF Covered, run
<1> QED BY <1>2, <1>7, <1>8, <1>9 DEF Alone

LEMMA ResemblesAlone ==
  ASSUME EInv, Alone, NEW e \in Episode, NEW x \in EngineRec, Engine(e, x), Resembles(eng[e], x),
         Refuses(eng[e], x), UNCHANGED <<file, used, budget, blame, epoch>>
  PROVE  Alone'
<1>1. eng[e] \in EngineRec /\ Shape(eng[e])
  BY Fields
<1>2. Shape(x) /\ Idle(x) = Idle(eng[e]) /\ Pending(x) <= Pending(eng[e])
  BY <1>1, ResemblesShape, ResemblesPending
<1>3. Pending(x) \in Nat
  BY <1>2, PendingNat
<1>4. x.mem = eng[e].mem /\ x.err = eng[e].err
  BY DEF Resembles
<1> QED BY <1>2, <1>3, <1>4, EngineTame

LEMMA HostTakeAlone == ASSUME EInv, Alone, NEW e \in Episode, HostTake(e) PROVE Alone'
<1>1. PICK o : o = eng[e]
  OBVIOUS
<1>2. PICK j \in 1 .. Len(o.slots) :
            /\ o.slots[j] = "queued"
            /\ \/ o.pc = "wait" /\ Slot(e, j, "running") /\ used' = used
               \/ o.pc = "reserve" /\ Slot(e, j, "quota") /\ used' = used
               \/ /\ o.pc = "reserve" /\ Slot(e, j, "ok")
                  /\ used + LiveCount(e) <= budget /\ used' = used + LiveCount(e)
               \/ /\ o.pc = "release" /\ Slot(e, j, "ok")
                  /\ used' = IF used < Unjournaled(e) THEN 0 ELSE used - Unjournaled(e)
  BY <1>1, HostTakeIs
<1>3. UNCHANGED <<file, budget, blame, epoch>>
  BY DEF HostTake
<1>4. o \in EngineRec /\ Shape(o) /\ j \in 1 .. Len(eng[e].slots)
  BY <1>1, <1>2, Fields
<1>5. ~Idle(o) /\ e = epoch
  <2>1. ~Idle(o)
    BY <1>2 DEF Idle
  <2> QED BY <2>1, <1>1 DEF Alone, OneEngine
<1>6. CASE o.pc = "wait" /\ Slot(e, j, "running") /\ used' = used
  <2>1. PICK x \in EngineRec : Engine(e, x) /\ Resembles(o, x)
    BY <1>1, <1>4, <1>6, SlotIs DEF SlotStates
  <2>2. Refuses(o, x)
    BY <1>6 DEF Refuses
  <2> QED BY <2>1, <2>2, <1>1, <1>3, <1>6, ResemblesAlone
<1>7. CASE o.pc = "reserve" /\ Slot(e, j, "quota") /\ used' = used
  <2>1. PICK x \in EngineRec : Engine(e, x) /\ Resembles(o, x) /\ x.slots[j] = "quota"
    BY <1>1, <1>4, <1>7, SlotIs DEF SlotStates
  <2>2. j = 1
    BY <1>2, <1>4, <1>7 DEF Shape, Replies
  <2>3. Refuses(o, x)
    BY <2>1, <2>2 DEF Refuses
  <2> QED BY <2>1, <2>3, <1>1, <1>3, <1>7, ResemblesAlone
<1>8. ASSUME o.pc \in {"reserve", "release"}, Slot(e, j, "ok")
      PROVE  \E x \in EngineRec : /\ Engine(e, x) /\ Resembles(o, x) /\ Idle(x) = Idle(o)
                                  /\ Pending(x) = IF o.pc = "reserve" THEN Before(o.step + 1) - Len(o.mem) ELSE 0
  <2>1. PICK x \in EngineRec : Engine(e, x) /\ Resembles(o, x) /\ x.slots[j] = "ok"
    BY <1>1, <1>4, <1>8, SlotIs DEF SlotStates
  <2>2. j = 1
    BY <1>2, <1>4, <1>8 DEF Shape, Replies
  <2>3. Idle(x) = Idle(o)
    BY <2>1, <1>4, ResemblesShape
  <2>4. Pending(x) = IF o.pc = "reserve" THEN Before(o.step + 1) - Len(o.mem) ELSE 0
    BY <2>1, <2>2, <1>8 DEF Pending, Resembles
  <2> QED BY <2>1, <2>3, <2>4
<1>9. CASE /\ o.pc = "reserve" /\ Slot(e, j, "ok")
           /\ used + LiveCount(e) <= budget /\ used' = used + LiveCount(e)
  <2>1. PICK x \in EngineRec : /\ Engine(e, x) /\ Resembles(o, x) /\ Idle(x) = Idle(o)
                               /\ Pending(x) = Before(o.step + 1) - Len(o.mem)
    BY <1>8, <1>9
  <2>2. Len(o.mem) < Before(o.step + 1)
    BY <1>4, <1>9 DEF Shape, Position
  <2>3. Len(o.mem) \in Nat /\ Before(o.step + 1) \in Nat
    BY <1>4, RecFields, CallsBefore
  <2>4. LiveCount(e) = Before(o.step + 1) - Len(o.mem) /\ LiveCount(e) \in Nat
    <3>1. eng[e].pc \in {"call", "reserve"}
      BY <1>1, <1>9
    <3> QED BY <3>1, <2>2, <2>3, <1>1, LiveIs
  <2>5. AgentEntries(file) + Pending(x) <= used' /\ used' <= budget
    BY <2>1, <2>4, <1>9, Counts
  <2>6. x.mem = eng[e].mem /\ x.err = eng[e].err
    BY <2>1, <1>1 DEF Resembles
  <2> QED BY <2>1, <2>5, <2>6, <1>1, <1>3, <1>5, EngineAlone
<1>10. CASE /\ o.pc = "release" /\ Slot(e, j, "ok")
            /\ used' = IF used < Unjournaled(e) THEN 0 ELSE used - Unjournaled(e)
  <2>1. PICK x \in EngineRec : /\ Engine(e, x) /\ Resembles(o, x) /\ Idle(x) = Idle(o)
                               /\ Pending(x) = 0
    BY <1>8, <1>10
  <2>2. j = 1
    BY <1>2, <1>4, <1>10 DEF Shape, Replies
  <2>3. Unjournaled(e) \in Nat /\ Unjournaled(e) = o.seq - Len(o.mem)
    BY <1>1, <1>10, UnjournaledIs
  <2>4. Pending(o) = Unjournaled(e)
    BY <2>2, <2>3, <1>2, <1>10 DEF Pending
  <2>5. AgentEntries(file) + Pending(x) <= used' /\ used' <= budget
    BY <2>1, <2>3, <2>4, <1>1, <1>5, <1>10, Counts
  <2>6. x.mem = eng[e].mem /\ x.err = eng[e].err
    BY <2>1, <1>1 DEF Resembles
  <2> QED BY <2>1, <2>5, <2>6, <1>1, <1>3, <1>5, EngineAlone
<1> QED BY <1>2, <1>6, <1>7, <1>9, <1>10

LEMMA HostStepAlone == ASSUME EInv, Alone, NEW e \in Episode, HostStep(e) PROVE Alone'
<1>1. CASE HostTake(e)
  BY <1>1, HostTakeAlone
<1>2. CASE HostDrained(e)
  <2>1. UNCHANGED <<file, used, budget, blame, epoch>>
    BY <1>2 DEF HostDrained, run
  <2> QED BY <2>1, <1>2, HostDrainedIs, ResemblesAlone
<1>3. CASE HostStop(e)
  <2>1. eng' \in [Episode -> EngineRec]
        /\ \A f \in Episode : Resembles(eng[f], eng'[f]) /\ Refuses(eng[f], eng'[f])
    BY <1>3, HostStopIs
  <2>2. \A f \in Episode : /\ Idle(eng'[f]) = Idle(eng[f]) /\ Pending(eng'[f]) <= Pending(eng[f])
                           /\ Pending(eng'[f]) \in Nat
                           /\ eng'[f].mem = eng[f].mem /\ eng'[f].err = eng[f].err
    <3> TAKE f \in Episode
    <3>1. eng[f] \in EngineRec /\ Shape(eng[f]) /\ eng'[f] \in EngineRec
      BY <2>1, Fields
    <3>2. Shape(eng'[f]) /\ Idle(eng'[f]) = Idle(eng[f]) /\ Pending(eng'[f]) <= Pending(eng[f])
      BY <2>1, <3>1, ResemblesShape, ResemblesPending
    <3>3. Pending(eng'[f]) \in Nat
      BY <3>1, <3>2, PendingNat
    <3> QED BY <2>1, <3>2, <3>3 DEF Resembles
  <2>3. UNCHANGED <<file, used, budget, blame, epoch>>
    BY <1>3 DEF HostStop, run
  <2>4. epoch \in Episode
    BY Counts
  <2>5. OneEngine'
    BY <2>2, <2>3 DEF Alone, OneEngine
  <2>6. InStep' /\ Blamed'
    BY <2>2, <2>3, <2>4 DEF Alone, InStep, Blamed
  <2>7. Covered'
    BY <2>2, <2>3, <2>4, Counts DEF Covered
  <2> QED BY <2>3, <2>5, <2>6, <2>7 DEF Alone
<1>4. ASSUME NEW j \in 1 .. MaxSeq, HostReply(e, j) PROVE Alone'
  <2>1. eng[e].pc = "wait" /\ j \in 1 .. Len(eng[e].slots) /\ UNCHANGED <<file, run, epoch>>
    BY <1>4 DEF HostReply
  <2>2. PICK s \in {"ok", "failed", "cancelled"} : Slot(e, j, s)
    BY <1>4 DEF HostReply
  <2>3. s \in SlotStates /\ s # "quota"
    BY DEF SlotStates
  <2>4. PICK x \in EngineRec : Engine(e, x) /\ Resembles(eng[e], x)
    BY <2>1, <2>2, <2>3, SlotIs
  <2>5. Refuses(eng[e], x)
    BY <2>1 DEF Refuses
  <2>6. UNCHANGED <<file, used, budget, blame, epoch>>
    BY <2>1 DEF run
  <2> QED BY <2>4, <2>5, <2>6, ResemblesAlone
<1> QED BY <1>1, <1>2, <1>3, <1>4 DEF HostStep

LEMMA RetireAlone == ASSUME EInv, Alone, NEW e \in Episode, Retire(e) PROVE Alone'
<1>1. /\ eng[e].pc = "done" /\ eng' = [eng EXCEPT ![e] = Off] /\ UNCHANGED <<file, used, budget, epoch>>
  BY DEF Retire
<1>2. eng'[e] = Off /\ \A f \in Episode : f # e => eng'[f] = eng[f]
  BY <1>1 DEF EInv, Types
<1>3. epoch # e => blame' = blame
  BY DEF Retire, IsCurrent
<1>4. blame' \in {blame, 0, eng[e].err}
  BY DEF Retire, ApplyOutcome
<1>5. OneEngine'
  BY <1>1, <1>2, OffIs DEF Alone, OneEngine
<1>6. CASE epoch = e
  <2>1. InStep'
    BY <1>1, <1>2, <1>6, OffIs DEF InStep
  <2>2. Covered'
    BY <1>1, <1>2, <1>6, OffIs, Counts DEF Covered
  <2>3. Blamed'
    BY <1>1, <1>2, <1>4, <1>6, OffIs DEF Alone, Blamed
  <2> QED BY <2>1, <2>2, <2>3, <1>1, <1>5 DEF Alone
<1>7. CASE epoch # e
  <2>1. eng'[epoch] = eng[epoch]
    BY <1>2, <1>7, Counts
  <2> QED BY <2>1, <1>1, <1>3, <1>5, <1>7 DEF Alone, InStep, Covered, Blamed
<1> QED BY <1>6, <1>7

LEMMA CommandAlone ==
  ASSUME EInv, Alone, Pause \/ Stop \/ Shutdown \/ \E e \in Episode : Save(e) \/ SaveFails(e)
  PROVE  Alone'
<1>1. blame' \in {0, blame} /\ UNCHANGED <<file, used, budget, epoch, eng>>
  BY DEF Pause, Stop, Shutdown, Save, SaveFails, run
<1> QED BY <1>1 DEF Alone, OneEngine, InStep, Covered, Blamed

LEMMA KeptLoads ==
  ASSUME EInv, Alone
  PROVE  /\ Kept \in Seq(Line) /\ AllWhole(Kept) /\ Loads(Kept) /\ AgentEntries(Kept) \in Nat
         /\ AgentEntries(Kept) <= used
<1>1. Types /\ Loads(file)
  BY DEF EInv, Alone
<1>2. /\ Kept \in Seq(Line) /\ AllWhole(Kept) /\ AgentEntries(Kept) <= AgentEntries(file)
      /\ \A i \in 1 .. Len(Kept) : Kept[i].entry.seq = i - 1
  BY <1>1, KeptIs
<1>3. AgentEntries(Kept) \in Nat
  BY <1>2, AgentsFinite
<1>4. Loads(Kept)
  BY <1>2 DEF Loads, AllWhole
<1> QED BY <1>2, <1>3, <1>4, Counts

LEMMA Waited ==
  ASSUME EInv, Overtaken \subseteq {"done"}, Overtakes, NEW e \in Episode
  PROVE  Idle(eng[e])
BY DEF Overtakes, Idle

LEMMA ResumeRefusedAlone == ASSUME EInv, Alone, Overtaken \subseteq {"done"}, ResumeRefused PROVE Alone'
<1>1. Overtakes /\ file' = Kept /\ used' = Reconciled(Kept) /\ UNCHANGED <<budget, blame, epoch, eng>>
  BY DEF ResumeRefused
<1>2. \A e \in Episode : Idle(eng[e])
  BY <1>1, Waited
<1>3. Idle(eng[epoch]) /\ Pending(eng[epoch]) = 0
  BY <1>2, Counts, IdlePending
<1>4. OneEngine' /\ InStep'
  BY <1>1, <1>2, <1>3 DEF OneEngine, InStep
<1>5. Covered'
  BY <1>1, <1>3, Counts, KeptLoads DEF Covered, Reconciled
<1>6. Blamed'
  BY <1>1, <1>3, KeptLoads DEF Blamed
<1> QED BY <1>1, <1>4, <1>5, <1>6, KeptLoads DEF Alone

\* An episode begins with the engine x, which has the journal in memory if it
\* is at work.
LEMMA TakeOverAlone ==
  ASSUME EInv, Alone, Overtaken \subseteq {"done"}, NEW b \in Budget .. MaxBudget, TakeOver(b),
         NEW x \in EngineRec, eng' = [eng EXCEPT ![epoch + 1] = x], Pending(x) = 0, x.err = 0,
         Idle(x) \/ x.mem = Entries(Kept)
  PROVE  Alone'
<1>1. PICK n : n = epoch + 1
  OBVIOUS
<1>2. /\ Overtakes /\ epoch < MaxEpisodes /\ file' = Kept /\ used' = Reconciled(Kept) /\ budget' = b
      /\ b >= budget /\ blame' = 0 /\ epoch' = n
  BY <1>1 DEF TakeOver
<1>3. n \in Episode
  BY <1>1, <1>2, WorkflowAssumption DEF EInv, Types, Episode
<1>4. \A e \in Episode : Idle(eng[e])
  BY <1>2, Waited
<1>6. /\ Entries(Kept) \in Seq(Entry) /\ Dense(Entries(Kept)) /\ Len(Entries(Kept)) = Len(Kept)
      /\ \A i \in 1 .. Len(Kept) : Entries(Kept)[i] = Kept[i].entry
  BY KeptIs DEF EInv, Alone
<1>8. eng'[n] = x /\ \A f \in Episode : f # n => eng'[f] = eng[f]
  BY <1>1, <1>3 DEF EInv, Types
<1>9. OneEngine'
  BY <1>2, <1>4, <1>8 DEF OneEngine
<1>10. InStep'
  BY <1>2, <1>6, <1>8, KeptLoads DEF InStep
<1>11. Covered'
  <2>1. b \in Nat /\ AgentEntries(Kept) <= b
    BY <1>2, WorkflowAssumption, KeptLoads, Counts
  <2> QED BY <2>1, <1>2, <1>8, KeptLoads DEF Covered, Reconciled
<1>12. Blamed'
  BY <1>2, <1>8 DEF Blamed
<1> QED BY <1>2, <1>9, <1>10, <1>11, <1>12, KeptLoads DEF Alone

LEMMA ResumeAlone ==
  ASSUME EInv, Alone, Overtaken \subseteq {"done"}, NEW b \in Budget .. MaxBudget, Resume(b)
  PROVE  Alone'
<1>1. TakeOver(b) /\ eng' = [eng EXCEPT ![epoch + 1] = Started(Entries(Kept))]
  BY DEF Resume
<1>2. PICK x : x = Started(Entries(Kept))
  OBVIOUS
<1>3. Entries(Kept) \in Seq(Entry) /\ Dense(Entries(Kept))
  BY KeptIs DEF EInv, Alone
<1>4. x \in EngineRec /\ x.mem = Entries(Kept) /\ Pending(x) = 0 /\ x.err = 0
  BY <1>2, <1>3, StartedIs
<1> QED BY <1>1, <1>2, <1>4, TakeOverAlone

LEMMA ResumeUnsavedAlone ==
  ASSUME EInv, Alone, Overtaken \subseteq {"done"}, NEW b \in Budget .. MaxBudget, ResumeUnsaved(b)
  PROVE  Alone'
<1>1. TakeOver(b) /\ eng' = [eng EXCEPT ![epoch + 1] = Off]
  BY DEF ResumeUnsaved
<1>2. Off \in EngineRec /\ Idle(Off) /\ Pending(Off) = 0 /\ Off.err = 0
  BY OffIs DEF Shape, Parked
<1> QED BY <1>1, <1>2, TakeOverAlone

LEMMA CrashAlone == ASSUME EInv, Alone, Crash PROVE Alone'
<1>1. /\ file' \in {file} \cup UNION {PartialAppends(Head(eng[e].todo)) :
                                      e \in {f \in Episode : eng[f].pc = "record"}}
      /\ eng' = [e \in Episode |-> Off] /\ UNCHANGED <<used, budget, blame, epoch>>
  BY DEF Crash
<1>2. \A e \in Episode : eng'[e] = Off
  BY <1>1
<1>3. epoch' \in Episode /\ eng'[epoch] = Off
  BY <1>1, <1>2, Counts
<1>4. OneEngine' /\ InStep'
  BY <1>1, <1>2, <1>3, OffIs DEF OneEngine, InStep
<1>5. CASE file' = file
  <2>1. Covered'
    BY <1>1, <1>3, <1>5, OffIs, Counts DEF Covered
  <2>2. Blamed'
    BY <1>1, <1>3, <1>5, OffIs DEF Alone, Blamed
  <2> QED BY <2>1, <2>2, <1>4, <1>5 DEF Alone
<1>6. ASSUME NEW e \in Episode, eng[e].pc = "record", file' \in PartialAppends(Head(eng[e].todo))
      PROVE  Alone'
  <2>1. blame = 0 /\ Loads(file') /\ AgentEntries(file') <= used
    BY <1>6, CutShort
  <2>2. AgentEntries(file') \in Nat
    BY CrashKeeps, AgentsFinite DEF EInv, Types
  <2>3. Covered'
    BY <2>1, <2>2, <1>1, <1>3, OffIs, Counts DEF Covered
  <2>4. Blamed'
    BY <2>1, <1>1, <1>3, OffIs DEF Blamed
  <2> QED BY <2>1, <2>3, <2>4, <1>4 DEF Alone
<1> QED BY <1>1, <1>5, <1>6

LEMMA InitAlone == Init => Alone
<1> SUFFICES ASSUME Init PROVE Alone
  OBVIOUS
<1>1. EInv /\ file = <<>> /\ used = 0 /\ budget = Budget /\ blame = 0 /\ epoch = 1 /\ 1 \in Episode /\ Budget \in Nat
  BY InitE, WorkflowAssumption DEF Init, Episode
<1>2. eng = [e \in Episode |-> IF e = 1 THEN Started(<<>>) ELSE Off]
  BY DEF Init
<1>3. eng[1] = Started(<<>>) /\ \A e \in Episode : e # 1 => eng[e] = Off
  BY <1>1, <1>2
<1>4. <<>> \in Seq(Entry) /\ Dense(<<>>) /\ file \in Seq(Line) /\ Len(file) = 0
  BY <1>1 DEF Dense
<1>5. eng[1].mem = <<>> /\ Pending(eng[1]) = 0 /\ eng[1].err = 0
  BY <1>3, <1>4, StartedIs
<1>6. AgentEntries(file) = 0
  <2>1. {i \in 1 .. Len(file) : file[i].entry.agent} = {}
    BY <1>4
  <2> QED BY <2>1, FS_EmptySet DEF AgentEntries
<1>7. OneEngine
  BY <1>1, <1>3, OffIs DEF OneEngine
<1>8. InStep /\ Loads(file) /\ Blamed
  BY <1>1, <1>4, <1>5 DEF InStep, Loads, Blamed, AllWhole
<1>9. Covered
  BY <1>1, <1>5, <1>6 DEF Covered
<1> QED BY <1>7, <1>8, <1>9 DEF Alone

LEMMA NextAlone == Overtaken \subseteq {"done"} /\ EInv /\ Alone /\ [Next]_vars => Alone'
<1> SUFFICES ASSUME Overtaken \subseteq {"done"}, EInv, Alone, [Next]_vars PROVE Alone'
  OBVIOUS
<1>1. CASE UNCHANGED vars
  BY <1>1 DEF vars, run, Alone, OneEngine, InStep, Covered, Blamed
<1>2. CASE Next
  <2>1. ASSUME NEW e \in Episode, EngineStep(e) \/ RecordFails(e) \/ HostStep(e) \/ WatcherStep(e) \/ SaveFails(e)
        PROVE  Alone'
    <3>1. CASE Save(e) \/ SaveFails(e)
      BY <3>1, CommandAlone
    <3> QED BY <2>1, <3>1, QuietStepAlone, RecordAlone, RecordFailsAlone, HostStepAlone, RetireAlone
            DEF EngineStep, WatcherStep
  <2>2. CASE Pause \/ Stop \/ Shutdown \/ ResumeRefused \/ Crash
    BY <2>2, CommandAlone, ResumeRefusedAlone, CrashAlone
  <2>3. ASSUME NEW b \in Budget .. MaxBudget, Resume(b) \/ ResumeUnsaved(b) PROVE Alone'
    BY <2>3, ResumeAlone, ResumeUnsavedAlone
  <2> QED BY <1>2, <2>1, <2>2, <2>3 DEF Next
<1> QED BY <1>1, <1>2

-----------------------------------------------------------------------------
(* The script is never told two answers to one call.                       *)

LEMMA HoldsOn ==
  ASSUME NEW f \in Seq(Line), NEW g \in Seq(Line), NEW s, Holds(f, s),
         Len(f) <= Len(g), \A i \in 1 .. Len(f) : g[i] = f[i]
  PROVE  Holds(g, s)
<1> SUFFICES ASSUME NEW k \in 0 .. (MaxSeq - 1), s[k] # {}
             PROVE  k < Len(g) /\ g[k + 1].form # "torn" /\ s[k] = {g[k + 1].entry}
  BY DEF Holds
<1>1. k < Len(f) /\ f[k + 1].form # "torn" /\ s[k] = {f[k + 1].entry}
  BY DEF Holds
<1>2. k \in Nat /\ Len(f) \in Nat /\ Len(g) \in Nat
  BY CallsFinite
<1>3. k + 1 \in 1 .. Len(f)
  BY <1>1, <1>2
<1> QED BY <1>1, <1>2, <1>3

LEMMA WitnessKin ==
  ASSUME NEW e \in Episode, NEW r \in EngineRec, NEW f \in Seq(Line), Kin, Holds(f, seen), AllWhole(f),
         Len(r.mem) = Len(f), \A i \in 1 .. Len(f) : r.mem[i] = f[i].entry, Dense(r.mem),
         Step(e).n \in Nat \ {0}, Step(e).n <= r.seq, r.seq <= Len(r.mem), Witness(e, r)
  PROVE  /\ seen' \in [0 .. (MaxSeq - 1) -> SUBSET Entry] /\ Holds(f, seen') /\ forked' = {}
<1>1. PICK n \in Nat \ {0} : n = Step(e).n
  OBVIOUS
<1>2. PICK q : q = r.seq
  OBVIOUS
<1>3. PICK m : m = r.mem
  OBVIOUS
<1>4. /\ q \in Nat /\ q <= MaxSeq /\ MaxSeq \in Nat /\ n <= q /\ q <= Len(m) /\ Len(m) \in Nat
      /\ m \in Seq(Entry) /\ Len(m) = Len(f) /\ \A i \in 1 .. Len(f) : m[i] = f[i].entry
      /\ \A i \in 1 .. Len(m) : m[i].seq = i - 1
  BY <1>1, <1>2, <1>3, RecFields, CallsFinite DEF Dense
<1> DEFINE a == SubSeq(m, q - n + 1, q)
           D == 0 .. (MaxSeq - 1)
<1>5. Answers(e, r) = a
  BY <1>1, <1>2, <1>3 DEF Answers
<1>6. a \in Seq(Entry) /\ Len(a) = n /\ \A i \in 1 .. n : a[i] = m[q - n + i]
  <2>1. PICK lo \in Nat : lo = q - n + 1
    BY <1>4
  <2>2. lo \in 1 .. (Len(m) + 1) /\ q \in (lo - 1) .. Len(m) /\ q - lo + 1 = n
    BY <2>1, <1>4
  <2>3. PICK b : b = SubSeq(m, lo, q)
    OBVIOUS
  <2>4. b \in Seq(Entry) /\ Len(b) = q - lo + 1 /\ \A i \in 1 .. (q - lo + 1) : b[i] = m[lo + i - 1]
    BY <2>2, <2>3, <1>4, SubSeqProperties
  <2>5. a = b
    BY <2>1, <2>3
  <2>6. \A i \in 1 .. n : lo + i - 1 = q - n + i
    BY <2>1, <1>4
  <2> HIDE DEF a
  <2> QED BY <2>2, <2>4, <2>5, <2>6
<1> HIDE DEF a
<1>7. \A i \in 1 .. n : /\ q - n + i \in 1 .. Len(f) /\ a[i].seq = q - n + i - 1 /\ a[i].seq \in D
                        /\ a[i] = f[a[i].seq + 1].entry /\ a[i] \in Entry /\ a[i].seq < Len(f)
  <2> TAKE i \in 1 .. n
  <2>1. q - n + i \in 1 .. Len(f) /\ q - n + i - 1 \in D
    BY <1>4
  <2>2. PICK j \in 1 .. Len(f) : j = q - n + i
    BY <2>1
  <2>3. a[i] = m[j]
    BY <2>2, <1>6
  <2>4. m[j].seq = j - 1 /\ m[j] = f[j].entry
    BY <1>4
  <2>5. a[i].seq = j - 1 /\ a[i] = f[j].entry
    BY <2>3, <2>4, Zenon
  <2>6. j - 1 = q - n + i - 1 /\ j - 1 < Len(f) /\ j - 1 \in D /\ (j - 1) + 1 = j
    BY <2>1, <2>2, <1>4
  <2>7. PICK k \in D : k = j - 1
    BY <2>6
  <2>8. a[i].seq = k /\ a[i] = f[k + 1].entry /\ k = q - n + i - 1 /\ k < Len(f)
    <3>1. a[i].seq = k
      BY <2>5, <2>7
    <3>2. k + 1 = j /\ k = q - n + i - 1 /\ k < Len(f)
      BY <2>6, <2>7
    <3>3. a[i] = f[k + 1].entry
      BY <2>5, <3>2
    <3> QED BY <3>1, <3>2, <3>3
  <2>9. a[i] \in Entry
    BY <1>6
  <2> HIDE DEF D
  <2> QED BY <2>1, <2>8, <2>9
<1> DEFINE new == {i \in 1 .. n : seen[a[i].seq] # {a[i]}}
<1>8. /\ seen' = [k \in DOMAIN seen |-> IF \E i \in 1 .. n : a[i].seq = k
                                        THEN {a[k - q + n + 1]} ELSE seen[k]]
      /\ forked' = forked \cup {a[i].seq : i \in {j \in new : seen[a[j].seq] # {}}}
  BY <1>2, <1>5, <1>6 DEF Witness
<1>9. \A j \in 1 .. n : seen[a[j].seq] # {} => seen[a[j].seq] = {a[j]}
  <2> TAKE j \in 1 .. n
  <2>1. PICK k \in D : k = a[j].seq
    BY <1>7
  <2>2. a[j] = f[k + 1].entry
    BY <2>1, <1>7
  <2>3. seen[k] # {} => seen[k] = {f[k + 1].entry}
    BY <2>1 DEF Holds
  <2> QED BY <2>1, <2>2, <2>3
<1>10. forked' = {}
  BY <1>8, <1>9 DEF Kin
<1>11. seen \in [D -> SUBSET Entry]
  BY DEF Kin, Remembered
<1>12. ASSUME NEW k \in D, NEW i \in 1 .. n, a[i].seq = k
       PROVE  seen'[k] = {a[i]}
  <2>1. k = q - n + i - 1
    BY <1>7, <1>12
  <2>2. k - q + n + 1 = i
    BY <2>1, <1>4
  <2> QED BY <2>2, <1>8, <1>11, <1>12
<1>13. ASSUME NEW k \in D, ~\E i \in 1 .. n : a[i].seq = k
       PROVE  seen'[k] = seen[k]
  BY <1>8, <1>11, <1>13
<1>14. seen' \in [D -> SUBSET Entry]
  <2>1. \A k \in D : seen'[k] \in SUBSET Entry
    BY <1>7, <1>11, <1>12, <1>13
  <2>2. seen' = [k \in D |-> seen'[k]]
    BY <1>8, <1>11
  <2> QED BY <2>1, <2>2
<1>15. Holds(f, seen')
  <2> SUFFICES ASSUME NEW k \in D, seen'[k] # {}
               PROVE  k < Len(f) /\ f[k + 1].form # "torn" /\ seen'[k] = {f[k + 1].entry}
    BY DEF Holds
  <2>1. CASE \E i \in 1 .. n : a[i].seq = k
    <3>1. PICK i \in 1 .. n : a[i].seq = k
      BY <2>1
    <3>2. k < Len(f) /\ a[i] = f[k + 1].entry /\ k + 1 \in 1 .. Len(f)
      <4>1. a[i].seq < Len(f) /\ a[i] = f[a[i].seq + 1].entry
        BY <1>7
      <4>2. k < Len(f) /\ a[i] = f[k + 1].entry
        BY <4>1, <3>1
      <4>3. k \in Nat /\ Len(f) \in Nat
        BY <1>4
      <4> QED BY <4>2, <4>3
    <3>3. f[k + 1].form = "whole"
      BY <3>2 DEF AllWhole
    <3> QED BY <3>1, <3>2, <3>3, <1>12
  <2>2. CASE ~\E i \in 1 .. n : a[i].seq = k
    BY <2>2, <1>13 DEF Holds
  <2> QED BY <2>1, <2>2
<1> QED BY <1>10, <1>14, <1>15

LEMMA ReplayKin == ASSUME EInv, Alone, Kin, NEW e \in Episode, Replay(e) PROVE Kin'
<1>1. PICK o : o = eng[e]
  OBVIOUS
<1>2. PICK n : n = Step(e).n
  OBVIOUS
<1> DEFINE r == [o EXCEPT !.seq = o.seq + n]
<1>3. o.pc = "call" /\ LiveCount(e) = 0 /\ Witness(e, r) /\ file' = file
  BY <1>1, <1>2 DEF Replay
<1>4. o \in EngineRec /\ Shape(o) /\ ~Idle(eng[e])
  BY <1>1, <1>3, Fields DEF Idle
<1>5. /\ n \in Nat \ {0} /\ o.seq \in Nat /\ o.seq + n \in 0 .. MaxSeq /\ o.seq + n <= Len(o.mem)
  BY <1>1, <1>2, <1>3, <1>4, LiveIs, RecFields, CallsFinite
<1>6. r \in EngineRec /\ r.seq = o.seq + n /\ r.mem = o.mem
  BY <1>4, <1>5 DEF EngineRec
<1> HIDE DEF r
<1>7. /\ AllWhole(file) /\ Len(file) = Len(r.mem) /\ \A i \in 1 .. Len(file) : r.mem[i] = file[i].entry
  BY <1>1, <1>4, <1>6, Whose
<1>8. Dense(r.mem) /\ Step(e).n <= r.seq /\ r.seq <= Len(r.mem) /\ Step(e).n \in Nat \ {0}
  BY <1>2, <1>4, <1>5, <1>6 DEF Shape
<1>9. file \in Seq(Line) /\ Holds(file, seen)
  BY Fixed DEF Kin, Remembered
<1>10. seen' \in [0 .. (MaxSeq - 1) -> SUBSET Entry] /\ Holds(file, seen') /\ forked' = {}
  BY <1>3, <1>6, <1>7, <1>8, <1>9, WitnessKin
<1> QED BY <1>3, <1>10 DEF Kin, Remembered

LEMMA RecordKin == ASSUME EInv, Alone, Kin, NEW e \in Episode, Record(e) PROVE Kin'
<1>1. PICK o : o = eng[e]
  OBVIOUS
<1>2. PICK en : en = Head(o.todo)
  OBVIOUS
<1>3. /\ AllWhole(file') /\ file' = Append(file, [entry |-> en, form |-> "whole"]) /\ file' \in Seq(Line)
      /\ Len(file') = Len(file) + 1 /\ \A i \in 1 .. Len(file) : file'[i] = file[i]
  BY <1>1, <1>2, RecordAlone
<1>4. file \in Seq(Line) /\ Len(file) \in Nat /\ Holds(file, seen)
  BY Fixed DEF Kin, Remembered
<1>5. Holds(file', seen)
  <2>1. PICK g : g = file'
    OBVIOUS
  <2>2. g \in Seq(Line) /\ Len(file) <= Len(g) /\ \A i \in 1 .. Len(file) : g[i] = file[i]
    BY <2>1, <1>3, <1>4
  <2>3. Holds(g, seen)
    BY <2>2, <1>4, HoldsOn
  <2> QED BY <2>1, <2>3
<1>6. PICK m : m = Append(o.mem, en)
  OBVIOUS
<1>7. PICK t : t = Tail(o.todo)
  OBVIOUS
<1> DEFINE r == [o EXCEPT !.mem = m, !.todo = t]
<1>8. o \in EngineRec /\ Shape(o) /\ o.pc = "record" /\ o.mem \in Seq(Entry) /\ o.todo \in Seq(Entry) /\ o.seq \in Nat
      /\ o.todo # <<>> /\ en \in Entry /\ en.seq = Len(o.mem) /\ ~Idle(eng[e]) /\ Step(e) = Script[o.step]
  BY <1>1, <1>2, NextLine, Fields, RecFields, CallsFinite DEF Record
<1>9. m \in Seq(Entry) /\ Len(m) = Len(o.mem) + 1 /\ m[Len(o.mem) + 1] = en
      /\ \A i \in 1 .. Len(o.mem) : m[i] = o.mem[i]
  BY <1>6, <1>8
<1>10. t \in Seq(Entry) /\ Len(t) = Len(o.todo) - 1
  BY <1>7, <1>8
<1>11. r \in EngineRec /\ r.seq = o.seq /\ r.mem = m /\ r.todo = t
  BY <1>8, <1>9, <1>10 DEF EngineRec
<1>12. \/ UNCHANGED <<seen, forked>>
       \/ t = <<>> /\ Witness(e, r)
  <2>1. r = [eng[e] EXCEPT !.mem = Append(@, Head(eng[e].todo)), !.todo = Tail(@)]
    BY <1>1, <1>2, <1>6, <1>7
  <2> HIDE DEF r
  <2> QED BY <2>1, <1>11 DEF Record
<1> HIDE DEF r
<1>13. CASE UNCHANGED <<seen, forked>>
  BY <1>5, <1>13 DEF Kin, Remembered
<1>14. CASE t = <<>> /\ Witness(e, r)
  <2>1. /\ Len(file) = Len(o.mem) /\ \A i \in 1 .. Len(file) : file[i].entry = o.mem[i] /\ file[i].entry.seq = i - 1
    BY <1>1, <1>8, Whose
  <2>2. file'[Len(file) + 1].entry = en
    <3>1. PICK l : l = [entry |-> en, form |-> "whole"]
      OBVIOUS
    <3>2. l \in Line /\ l.entry = en
      BY <3>1, <1>8 DEF Line, Forms
    <3> QED BY <3>1, <3>2, <1>3, <1>4
  <2>3. \A i \in 1 .. Len(file') : i \in 1 .. Len(file) \/ i = Len(file) + 1
    BY <1>3, <1>4
  <2>4. Len(r.mem) = Len(file') /\ \A i \in 1 .. Len(file') : r.mem[i] = file'[i].entry
    BY <2>1, <2>2, <2>3, <1>3, <1>9, <1>11
  <2>5. Dense(r.mem)
    <3>1. \A i \in 1 .. Len(file) : r.mem[i].seq = i - 1
      BY <2>1, <1>9, <1>11
    <3>2. r.mem[Len(file) + 1].seq = (Len(file) + 1) - 1
      BY <2>1, <1>4, <1>8, <1>9, <1>11
    <3> QED BY <2>3, <2>4, <3>1, <3>2 DEF Dense
  <2>6. /\ Len(o.todo) = o.seq - Len(o.mem) /\ Before(o.step) <= Len(o.mem) /\ o.seq = Before(o.step + 1)
        /\ o.step \in 1 .. Len(Script)
    BY <1>8, RecFields, CallsFinite DEF Shape, Continues, Position, Parked, Idle
  <2>7. Before(o.step + 1) = Before(o.step) + Script[o.step].n /\ Before(o.step) \in Nat
        /\ Script[o.step].n \in Nat \ {0}
    BY <2>6, BeforeStep, CallsBefore, ScriptSteps
  <2>8. Len(t) = 0
    BY <1>14
  <2>9. Len(o.todo) \in Nat /\ Len(o.mem) \in Nat
    BY <1>8
  <2>10. r.seq = Len(r.mem) /\ r.seq \in Nat
    <3>1. PICK x \in Nat, y \in Nat, z \in Nat : x = Len(o.todo) /\ y = Len(o.mem) /\ z = o.seq
      BY <2>9, <1>8
    <3>2. x = z - y /\ 0 = x - 1 /\ Len(m) = y + 1
      BY <3>1, <2>6, <2>8, <1>9, <1>10
    <3>3. z = Len(m)
      BY <3>2
    <3> QED BY <3>1, <3>3, <1>11
  <2>11. Step(e).n \in Nat \ {0} /\ Step(e).n <= r.seq /\ r.seq <= Len(r.mem)
    BY <2>6, <2>7, <2>10, <1>8, <1>11
  <2>12. seen' \in [0 .. (MaxSeq - 1) -> SUBSET Entry] /\ Holds(file', seen') /\ forked' = {}
    BY <2>4, <2>5, <2>11, <1>3, <1>5, <1>11, <1>14, WitnessKin
  <2> QED BY <2>12 DEF Kin, Remembered
<1> QED BY <1>12, <1>13, <1>14

\* A repair takes nothing the script has seen.
LEMMA RepairHolds ==
  ASSUME EInv, Alone, NEW s, Holds(file, s)
  PROVE  Holds(Repaired(file), s)
<1>1. PICK g : g = Repaired(file)
  OBVIOUS
<1>2. file \in Seq(Line) /\ Loads(file)
  BY Fixed DEF Alone
<1>3. /\ g \in Seq(Line) /\ AllWhole(g) /\ Len(g) <= Len(file)
      /\ \A i \in 1 .. Len(g) : g[i].entry = file[i].entry
      /\ Len(g) # Len(file) => Len(g) = Len(file) - 1 /\ file[Len(file)].form = "torn"
  BY <1>1, <1>2, RepairedIs
<1> SUFFICES ASSUME NEW k \in 0 .. (MaxSeq - 1), s[k] # {}
             PROVE  k < Len(g) /\ g[k + 1].form # "torn" /\ s[k] = {g[k + 1].entry}
  BY <1>1 DEF Holds
<1>4. k < Len(file) /\ file[k + 1].form # "torn" /\ s[k] = {file[k + 1].entry}
  BY DEF Holds
<1>5. k \in Nat /\ Len(file) \in Nat /\ Len(g) \in Nat
  BY <1>2, <1>3, CallsFinite
<1>6. k < Len(g)
  BY <1>3, <1>4, <1>5
<1>7. k + 1 \in 1 .. Len(g)
  BY <1>5, <1>6
<1> QED BY <1>3, <1>4, <1>6, <1>7 DEF AllWhole

LEMMA ResumeRefusedKin == ASSUME EInv, Alone, Kin, ResumeRefused PROVE Kin'
<1>1. status = "BudgetLimited" /\ file' = Kept /\ UNCHANGED <<seen, forked>>
  BY DEF ResumeRefused, SameHistory
<1>2. Kept = Repaired(file)
  BY <1>1 DEF Kept, Prunes
<1> QED BY <1>1, <1>2, RepairHolds DEF Kin, Remembered

LEMMA TakeOverKin == ASSUME EInv, Alone, Kin, NEW b \in Budget .. MaxBudget, TakeOver(b) PROVE Kin'
<1>1. PICK g : g = Repaired(file)
  OBVIOUS
<1>2. /\ file' = Kept /\ UNCHANGED forked
      /\ seen' = IF Prunes(g) /\ Last(file).entry.tag = "error" THEN [seen EXCEPT ![Len(Kept)] = {}] ELSE seen
  BY <1>1 DEF TakeOver
<1>3. Kept = IF Prunes(g) THEN Front(g) ELSE g
  BY <1>1 DEF Kept
<1>4. Holds(g, seen) /\ seen \in [0 .. (MaxSeq - 1) -> SUBSET Entry] /\ forked = {}
  BY <1>1, RepairHolds DEF Kin, Remembered
<1>5. CASE ~Prunes(g)
  BY <1>2, <1>3, <1>4, <1>5 DEF Kin, Remembered
<1>6. CASE Prunes(g)
  <2>1. file \in Seq(Line) /\ Loads(file) /\ Len(file) \in Nat
    BY Fixed DEF Alone
  <2>2. g # <<>> /\ Last(g).entry.tag = "error" /\ blame = Len(g)
    BY <1>6 DEF Prunes
  <2>3. g \in Seq(Line) /\ \A i \in 1 .. Len(g) : g[i].entry = file[i].entry
    BY <1>1, <2>1, RepairedIs
  <2>4. Len(g) \in Nat \ {0} /\ Last(g) = g[Len(g)]
        /\ Front(g) \in Seq(Line) /\ Len(Front(g)) = Len(g) - 1
        /\ \A i \in 1 .. Len(g) - 1 : Front(g)[i] = g[i]
    BY <2>2, <2>3, FrontLast
  <2>5. AllWhole(file)
    BY <2>2, <2>4 DEF Alone, Blamed
  <2>6. Len(g) = Len(file)
    BY <1>1, <2>1, <2>5, RepairedIs
  <2>7. Last(file).entry.tag = "error"
    <3>1. file # <<>>
      BY <2>4, <2>6
    <3>2. Last(file) = file[Len(file)]
      BY <2>1, <3>1, FrontLast
    <3> QED BY <3>2, <2>2, <2>3, <2>4, <2>6
  <2>8. PICK h : h = Front(g)
    OBVIOUS
  <2>9. h \in Seq(Line) /\ Len(h) = Len(g) - 1 /\ \A i \in 1 .. Len(h) : h[i] = g[i]
    BY <2>4, <2>8
  <2>10. Kept = h /\ seen' = [seen EXCEPT ![Len(h)] = {}]
    BY <1>2, <1>3, <1>6, <2>7, <2>8
  <2>11. seen' \in [0 .. (MaxSeq - 1) -> SUBSET Entry]
    BY <1>4, <2>10
  <2>12. Holds(h, seen')
    <3> SUFFICES ASSUME NEW k \in 0 .. (MaxSeq - 1), seen'[k] # {}
                 PROVE  k < Len(h) /\ h[k + 1].form # "torn" /\ seen'[k] = {h[k + 1].entry}
      BY DEF Holds
    <3>1. k # Len(h) /\ seen'[k] = seen[k]
      BY <1>4, <2>10
    <3>2. k < Len(g) /\ g[k + 1].form # "torn" /\ seen[k] = {g[k + 1].entry}
      BY <1>4, <3>1 DEF Holds
    <3>3. k \in Nat /\ Len(h) \in Nat /\ k < Len(h)
      BY <2>4, <2>9, <3>1, <3>2, CallsFinite
    <3>4. k + 1 \in 1 .. Len(h)
      BY <3>3
    <3> QED BY <2>9, <3>1, <3>2, <3>3, <3>4
  <2> QED BY <1>2, <1>4, <2>10, <2>11, <2>12 DEF Kin, Remembered
<1> QED BY <1>5, <1>6

\* A journal that is cut short keeps what was there.
LEMMA CutKin == ASSUME EInv, Alone, Kin, (\E e \in Episode : RecordFails(e)) \/ Crash PROVE Kin'
<1>1. UNCHANGED <<seen, forked>>
  BY DEF RecordFails, Crash, SameHistory
<1>2. CASE file' = file
  BY <1>1, <1>2 DEF Kin, Remembered
<1>3. ASSUME NEW e \in Episode, eng[e].pc = "record", file' \in PartialAppends(Head(eng[e].todo))
      PROVE  Kin'
  <2>1. Len(file) <= Len(file') /\ \A i \in 1 .. Len(file) : file'[i] = file[i]
    BY <1>3, CutShort
  <2>2. file \in Seq(Line) /\ file' \in Seq(Line)
    BY <1>3, Fixed, NextLine, PartialTyped
  <2>3. Holds(file, seen)
    BY DEF Kin, Remembered
  <2>4. Holds(file', seen)
    BY <2>1, <2>2, <2>3, HoldsOn
  <2> QED BY <1>1, <2>4 DEF Kin, Remembered
<1>4. \/ file' = file
      \/ \E e \in Episode : eng[e].pc = "record" /\ file' \in PartialAppends(Head(eng[e].todo))
  BY DEF RecordFails, Crash
<1> QED BY <1>2, <1>3, <1>4

LEMMA NextKin == EInv /\ Alone /\ Kin /\ [Next]_vars => Kin'
<1> SUFFICES ASSUME EInv, Alone, Kin, [Next]_vars PROVE Kin'
  OBVIOUS
<1>1. CASE UNCHANGED <<file, seen, forked>>
  BY <1>1 DEF Kin, Remembered
<1>2. CASE Next
  <2>1. ASSUME NEW e \in Episode, EngineStep(e) \/ HostStep(e) \/ WatcherStep(e) \/ SaveFails(e)
        PROVE  Kin'
    <3>1. CASE Replay(e) \/ Record(e)
      BY <3>1, ReplayKin, RecordKin
    <3>2. CASE Progress(e) \/ LiveCall(e) \/ Reserved(e) \/ Answered(e) \/ Released(e)
      <4>1. UNCHANGED <<file, seen, forked>>
        BY <3>2 DEF Progress, LiveCall, Reserved, Answered, Released, SameHistory
      <4> QED BY <4>1, <1>1
    <3>3. CASE HostStep(e) \/ WatcherStep(e) \/ SaveFails(e)
      <4>1. UNCHANGED <<file, seen, forked>>
        BY <3>3 DEF HostStep, HostTake, HostStop, HostDrained, HostReply, WatcherStep, Retire, Save, SaveFails, SameHistory
      <4> QED BY <4>1, <1>1
    <3> QED BY <2>1, <3>1, <3>2, <3>3 DEF EngineStep
  <2>2. CASE Pause \/ Stop \/ Shutdown
    <3>1. UNCHANGED <<file, seen, forked>>
      BY <2>2 DEF Pause, Stop, Shutdown, SameHistory
    <3> QED BY <3>1, <1>1
  <2>3. ASSUME NEW b \in Budget .. MaxBudget, Resume(b) \/ ResumeUnsaved(b) PROVE Kin'
    <3>1. TakeOver(b)
      BY <2>3 DEF Resume, ResumeUnsaved
    <3> QED BY <3>1, TakeOverKin
  <2> QED BY <1>2, <2>1, <2>2, <2>3, CutKin, ResumeRefusedKin DEF Next
<1> QED BY <1>1, <1>2 DEF vars

LEMMA InitKin == Init => Kin
<1> SUFFICES ASSUME Init PROVE Kin
  OBVIOUS
<1>1. seen = [k \in 0 .. (MaxSeq - 1) |-> {}] /\ forked = {}
  BY DEF Init
<1> QED BY <1>1 DEF Kin, Remembered, Holds

-----------------------------------------------------------------------------
(* The theorems.  All but the first assume that a resume overtakes no       *)
(* engine at work; run workflow_resume shows what happens otherwise.        *)

LEMMA AlwaysAlone == ASSUME Overtaken \subseteq {"done"} PROVE Spec => [](EInv /\ Alone /\ Kin)
<1>1. Init => EInv /\ Alone /\ Kin
  BY InitE, InitAlone, InitKin
<1>2. EInv /\ Alone /\ Kin /\ [Next]_vars => (EInv /\ Alone /\ Kin)'
  BY NextE, NextAlone, NextKin
<1> QED BY <1>1, <1>2, PTL DEF Spec

(* The journal of a run loads after every crash, failed append, pause and   *)
(* resume: Journal::record writes no line whose number is not the next one, *)
(* and Journal::load repairs what an interrupted append left.               *)
THEOREM JournalStaysLoadable == ASSUME Overtaken \subseteq {"done"} PROVE Spec => []JournalLoads
<1>1. Alone => JournalLoads
  BY DEF Alone, JournalLoads
<1> QED BY <1>1, AlwaysAlone, PTL

(* No call is answered twice in different ways: a later episode replays     *)
(* what the script has seen, except the host error that failed the run and  *)
(* that prune_trailing_host_error removed.                                  *)
THEOREM AnswersStay == ASSUME Overtaken \subseteq {"done"} PROVE Spec => []SameAnswer
<1>1. Kin => SameAnswer
  BY DEF Kin, SameAnswer
<1> QED BY <1>1, AlwaysAlone, PTL

(* The agents journaled and under way stay within the budget, whatever is   *)
(* reserved, given back, lost in a crash or reconciled at a resume.         *)
THEOREM BudgetHolds == ASSUME Overtaken \subseteq {"done"} PROVE Spec => []AgentsWithinBudget
<1>1. EInv /\ Alone => AgentsWithinBudget
  <2> SUFFICES ASSUME EInv, Alone PROVE AgentsWithinBudget
    OBVIOUS
  <2>1. epoch \in Episode /\ IsAgent(epoch) = AgentStep(eng[epoch])
    BY Counts, Fields
  <2> DEFINE out == IF eng[epoch].pc \in {"wait", "record"} /\ IsAgent(epoch) THEN Unjournaled(epoch) ELSE 0
  <2>2. out \in Nat /\ out <= Pending(eng[epoch])
    <3>1. CASE eng[epoch].pc \in {"wait", "record"} /\ IsAgent(epoch)
      <4>1. Unjournaled(epoch) \in Nat /\ Unjournaled(epoch) = eng[epoch].seq - Len(eng[epoch].mem)
        BY <2>1, <3>1, UnjournaledIs
      <4>2. Pending(eng[epoch]) = Unjournaled(epoch)
        BY <2>1, <3>1, <4>1 DEF Pending
      <4> QED BY <3>1, <4>1, <4>2
    <3>2. CASE ~(eng[epoch].pc \in {"wait", "record"} /\ IsAgent(epoch))
      BY <3>2, Counts
    <3> QED BY <3>1, <3>2
  <2> HIDE DEF out
  <2>3. AgentEntries(file) + out <= budget
    BY <2>2, Counts
  <2> QED BY <2>3 DEF AgentsWithinBudget, out
<1> QED BY <1>1, AlwaysAlone, PTL

(* Every variable of the run keeps its type, the engine's place in the      *)
(* journal never leaves the script, and the charge never leaves the budget. *)
THEOREM RunTyped == ASSUME Overtaken \subseteq {"done"} PROVE Spec => []TypeOK
<1>1. EInv /\ Alone /\ Kin => TypeOK
  <2> SUFFICES ASSUME EInv, Alone, Kin PROVE TypeOK
    OBVIOUS
  <2>1. used \in 0 .. MaxBudget
    <3>1. budget \in Budget .. MaxBudget /\ Budget \in Nat /\ MaxBudget \in Nat
      BY WorkflowAssumption DEF EInv, Types
    <3> QED BY <3>1, Counts
  <2>2. ASSUME NEW e \in Episode
        PROVE  /\ eng[e].seq \in 0 .. MaxSeq /\ eng[e].mem \in Seq(Entry) /\ eng[e].todo \in Seq(Entry)
               /\ eng[e].pc = "record" <=> eng[e].todo # <<>>
    BY Fields, RecFields, NextLine DEF Shape, Parked
  <2>3. file \in Seq([entry : Entry, form : Forms])
    BY Fixed DEF Line
  <2>4. forked \subseteq 0 .. (MaxSeq - 1)
    BY DEF Kin
  <2> QED BY <2>1, <2>2, <2>3, <2>4 DEF EInv, Types, Hosts, TypeOK
<1> QED BY <1>1, AlwaysAlone, PTL
=============================================================================

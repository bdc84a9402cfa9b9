------------------------ MODULE PromptServiceProofs -------------------------
(***************************************************************************)
(* What becomes of a message, for any number of prompts, interjections,    *)
(* resumed approvals and clients: it is in one place at any time, it has   *)
(* at most one turn, turns do not overlap, each ends once, every RPC is    *)
(* answered exactly when its row is gone, a message sent now keeps its     *)
(* place in the queue, and so the scheduler implements PromptService.      *)
(***************************************************************************)
EXTENDS TurnSchedulerProofs

-----------------------------------------------------------------------------
(* What the queue operations do to the set of rows.  A sequence holds each  *)
(* message at most once; how messages and prompts of the result follow from *)
(* those of the arguments is what the actions below need.                   *)
Once(s) == \A i, j \in DOMAIN s : s[i].msg = s[j].msg => i = j

LEMMA MessagesOfRange == \A s : MessagesOf(s) = {x.msg : x \in Range(s)}
BY DEF MessagesOf, Range

LEMMA PromptRowsRange == \A s : PromptRows(s) = {x.msg : x \in {y \in Range(s) : y.kind = "prompt"}}
BY DEF PromptRows, Range

LEMMA PromptsAmong == \A s : PromptRows(s) \subseteq MessagesOf(s)
BY DEF MessagesOf, PromptRows

LEMMA SameRange ==
  ASSUME NEW s, NEW t, Range(s) = Range(t)
  PROVE  MessagesOf(s) = MessagesOf(t) /\ PromptRows(s) = PromptRows(t)
BY MessagesOfRange, PromptRowsRange

LEMMA EmptyPlace ==
  Once(<<>>) /\ MessagesOf(<<>>) = {} /\ PromptRows(<<>>) = {}
<1>1. DOMAIN <<>> = {}
  OBVIOUS
<1> QED BY <1>1 DEF Once, MessagesOf, PromptRows

LEMMA NoMessages == ASSUME NEW T, NEW s \in Seq(T), MessagesOf(s) = {} PROVE s = <<>>
<1>1. s # <<>> => 1 \in DOMAIN s
  OBVIOUS
<1> QED BY <1>1 DEF MessagesOf

LEMMA OnePlaceOf ==
  ASSUME NEW e
  PROVE  /\ Once(<<e>>) /\ MessagesOf(<<e>>) = {e.msg}
         /\ PromptRows(<<e>>) = IF e.kind = "prompt" THEN {e.msg} ELSE {}
<1>1. DOMAIN <<e>> = {1} /\ <<e>>[1] = e
  OBVIOUS
<1>2. Once(<<e>>) /\ MessagesOf(<<e>>) = {e.msg}
  BY <1>1 DEF Once, MessagesOf
<1>3. Range(<<e>>) = {e}
  BY <1>1 DEF Range
<1>4. PromptRows(<<e>>) = IF e.kind = "prompt" THEN {e.msg} ELSE {}
  BY <1>3, PromptRowsRange
<1> QED BY <1>2, <1>4

LEMMA ConcatPlaces ==
  ASSUME NEW T, NEW s \in Seq(T), NEW t \in Seq(T)
  PROVE  /\ s \o t \in Seq(T)
         /\ Range(s \o t) = Range(s) \cup Range(t)
         /\ MessagesOf(s \o t) = MessagesOf(s) \cup MessagesOf(t)
         /\ PromptRows(s \o t) = PromptRows(s) \cup PromptRows(t)
         /\ Once(s) /\ Once(t) /\ MessagesOf(s) \cap MessagesOf(t) = {} => Once(s \o t)
<1> DEFINE r == s \o t
<1>1. r \in Seq(T) /\ Len(s) \in Nat /\ Len(t) \in Nat /\ Len(r) = Len(s) + Len(t)
  OBVIOUS
<1>2. /\ DOMAIN s = 1..Len(s) /\ DOMAIN t = 1..Len(t) /\ DOMAIN r = 1..(Len(s) + Len(t))
  BY <1>1
<1>3. \A i \in 1..Len(s) : r[i] = s[i]
  OBVIOUS
<1>4. \A i \in 1..Len(t) : r[i + Len(s)] = t[i]
  OBVIOUS
<1>5. \A i \in (Len(s) + 1)..(Len(s) + Len(t)) : i - Len(s) \in 1..Len(t) /\ r[i] = t[i - Len(s)]
  BY <1>1
<1> HIDE DEF r
<1>6. Range(r) = Range(s) \cup Range(t)
  <2>1. Range(s) \subseteq Range(r)
    BY <1>1, <1>2, <1>3 DEF Range
  <2>2. Range(t) \subseteq Range(r)
    <3>1. \A i \in 1..Len(t) : i + Len(s) \in 1..(Len(s) + Len(t))
      BY <1>1
    <3> QED BY <3>1, <1>2, <1>4 DEF Range
  <2>3. ASSUME NEW i \in DOMAIN r PROVE r[i] \in Range(s) \cup Range(t)
    <3>1. CASE i \in 1..Len(s)
      BY <3>1, <1>2, <1>3 DEF Range
    <3>2. CASE i \notin 1..Len(s)
      <4>1. i \in (Len(s) + 1)..(Len(s) + Len(t))
        BY <3>2, <1>1, <1>2
      <4> QED BY <4>1, <1>2, <1>5 DEF Range
    <3> QED BY <3>1, <3>2
  <2> QED BY <2>1, <2>2, <2>3 DEF Range
<1>7. MessagesOf(r) = MessagesOf(s) \cup MessagesOf(t)
  BY <1>6, MessagesOfRange
<1>8. PromptRows(r) = PromptRows(s) \cup PromptRows(t)
  BY <1>6, PromptRowsRange
<1>9. ASSUME Once(s), Once(t), MessagesOf(s) \cap MessagesOf(t) = {} PROVE Once(r)
  <2> SUFFICES ASSUME NEW i \in DOMAIN r, NEW j \in DOMAIN r, r[i].msg = r[j].msg PROVE i = j
    BY DEF Once
  <2>1. ASSUME NEW k \in DOMAIN r, k \notin 1..Len(s)
        PROVE  k - Len(s) \in DOMAIN t /\ r[k] = t[k - Len(s)] /\ k \in Int
    <3>1. k \in (Len(s) + 1)..(Len(s) + Len(t))
      BY <2>1, <1>1, <1>2
    <3> QED BY <3>1, <1>1, <1>2, <1>5
  <2>2. CASE i \in 1..Len(s) /\ j \in 1..Len(s)
    BY <2>2, <1>2, <1>3, <1>9 DEF Once
  <2>3. CASE i \notin 1..Len(s) /\ j \notin 1..Len(s)
    <3>1. i - Len(s) = j - Len(s)
      BY <2>1, <2>3, <1>9 DEF Once
    <3> QED BY <3>1, <2>1, <2>3, <1>1
  <2>4. CASE i \in 1..Len(s) /\ j \notin 1..Len(s)
    <3>1. r[i].msg \in MessagesOf(s)
      BY <2>4, <1>2, <1>3 DEF MessagesOf
    <3>2. r[j].msg \in MessagesOf(t)
      BY <2>1, <2>4 DEF MessagesOf
    <3> QED BY <3>1, <3>2, <1>9
  <2>5. CASE i \notin 1..Len(s) /\ j \in 1..Len(s)
    <3>1. r[j].msg \in MessagesOf(s)
      BY <2>5, <1>2, <1>3 DEF MessagesOf
    <3>2. r[i].msg \in MessagesOf(t)
      BY <2>1, <2>5 DEF MessagesOf
    <3> QED BY <3>1, <3>2, <1>9
  <2> QED BY <2>2, <2>3, <2>4, <2>5
<1> QED BY <1>1, <1>6, <1>7, <1>8, <1>9 DEF r

(* A sequence cut in two. *)
LEMMA CutPlaces ==
  ASSUME NEW T, NEW q \in Seq(T), NEW k \in 0..Len(q), Once(q)
  PROVE  LET a == SubSeq(q, 1, k)
             b == SubSeq(q, k + 1, Len(q))
         IN  /\ a \in Seq(T) /\ b \in Seq(T) /\ Once(a) /\ Once(b)
             /\ Len(a) = k /\ (k # 0 => a[1] = q[1])
             /\ MessagesOf(a) \cap MessagesOf(b) = {}
             /\ MessagesOf(q) = MessagesOf(a) \cup MessagesOf(b)
             /\ PromptRows(q) = PromptRows(a) \cup PromptRows(b)
<1> DEFINE a == SubSeq(q, 1, k)
           b == SubSeq(q, k + 1, Len(q))
<1>1. a \in Seq(T) /\ Len(a) = k /\ \A i \in 1..k : a[i] = q[i]
  OBVIOUS
<1>2. b \in Seq(T) /\ Len(b) = Len(q) - k /\ \A i \in 1..(Len(q) - k) : b[i] = q[i + k]
  OBVIOUS
<1>4. DOMAIN a = 1..k /\ DOMAIN b = 1..(Len(q) - k) /\ DOMAIN q = 1..Len(q) /\ Len(q) \in Nat
  BY <1>1, <1>2
<1> HIDE DEF a, b
<1>5. MessagesOf(q) = MessagesOf(a) \cup MessagesOf(b) /\ PromptRows(q) = PromptRows(a) \cup PromptRows(b)
  <2>1. \A i \in DOMAIN a : i \in DOMAIN q /\ a[i] = q[i]
    BY <1>1, <1>4
  <2>2. \A i \in DOMAIN b : i + k \in DOMAIN q /\ b[i] = q[i + k]
    BY <1>2, <1>4
  <2>3. \A i \in DOMAIN q : (i \in DOMAIN a /\ a[i] = q[i]) \/ (i - k \in DOMAIN b /\ b[i - k] = q[i])
    BY <1>1, <1>2, <1>4
  <2>4. Range(q) = Range(a) \cup Range(b)
    BY <2>1, <2>2, <2>3 DEF Range
  <2> QED BY <2>4, MessagesOfRange, PromptRowsRange
<1>6. Once(a)
  BY <1>1, <1>4 DEF Once
<1>7. \A i \in DOMAIN b : i + k \in DOMAIN q /\ b[i] = q[i + k] /\ i \in Int
  BY <1>2, <1>4
<1>8. Once(b)
  <2> SUFFICES ASSUME NEW i \in DOMAIN b, NEW j \in DOMAIN b, b[i].msg = b[j].msg PROVE i = j
    BY DEF Once
  <2>1. i + k = j + k
    BY <1>7 DEF Once
  <2> QED BY <2>1, <1>7
<1>9. MessagesOf(a) \cap MessagesOf(b) = {}
  <2> SUFFICES ASSUME NEW i \in DOMAIN a, NEW j \in DOMAIN b, a[i].msg = b[j].msg PROVE FALSE
    BY DEF MessagesOf
  <2>1. i \in DOMAIN q /\ a[i] = q[i] /\ i \in 1..k
    BY <1>1, <1>4
  <2>2. i = j + k
    BY <2>1, <1>7 DEF Once
  <2>3. j >= 1
    BY <1>4
  <2> QED BY <2>1, <2>2, <2>3, <1>7
<1>10. k # 0 => a[1] = q[1]
  BY <1>1
<1> QED BY <1>1, <1>2, <1>5, <1>6, <1>8, <1>9, <1>10 DEF a, b

(* Taking the head. *)
LEMMA HeadPlaces ==
  ASSUME NEW T, NEW q \in Seq(T), q # <<>>, Once(q)
  PROVE  /\ Once(Tail(q)) /\ q[1].msg \in MessagesOf(q)
         /\ MessagesOf(Tail(q)) = MessagesOf(q) \ {q[1].msg}
         /\ PromptRows(Tail(q)) = PromptRows(q) \ {q[1].msg}
         /\ Once(<<Head(q)>>) /\ MessagesOf(<<Head(q)>>) = {q[1].msg}
         /\ PromptRows(<<Head(q)>>) = PromptRows(q) \cap {q[1].msg}
<1> DEFINE a == SubSeq(q, 1, 1)
           b == SubSeq(q, 1 + 1, Len(q))
<1>1. 1 \in 0..Len(q) /\ 1 \in DOMAIN q
  OBVIOUS
<1>2. /\ Once(a) /\ Once(b)
      /\ MessagesOf(a) \cap MessagesOf(b) = {}
      /\ MessagesOf(q) = MessagesOf(a) \cup MessagesOf(b)
      /\ PromptRows(q) = PromptRows(a) \cup PromptRows(b)
  BY <1>1, CutPlaces
<1>3. b = Tail(q) /\ Head(q) = q[1]
  BY <1>1
<1>4. Once(<<Head(q)>>) /\ MessagesOf(<<Head(q)>>) = {q[1].msg}
  BY <1>3, OnePlaceOf
<1>5. PromptRows(<<Head(q)>>) \subseteq {q[1].msg} /\ PromptRows(b) \subseteq MessagesOf(b)
  BY <1>4, PromptsAmong
<1>7. MessagesOf(a) = MessagesOf(<<Head(q)>>) /\ PromptRows(a) = PromptRows(<<Head(q)>>)
  <2>1. DOMAIN a = {1} /\ a[1] = q[1]
    BY <1>1
  <2>2. DOMAIN <<Head(q)>> = {1} /\ <<Head(q)>>[1] = q[1]
    BY <1>3
  <2>3. Range(a) = {q[1]}
    BY <2>1 DEF Range
  <2>4. Range(<<Head(q)>>) = {q[1]}
    BY <2>2 DEF Range
  <2> QED BY <2>3, <2>4, SameRange
<1>6. q[1].msg \in MessagesOf(q)
  BY <1>1 DEF MessagesOf
<1> HIDE DEF a, b
<1> QED BY <1>2, <1>3, <1>4, <1>5, <1>6, <1>7

(* Adding one row. *)
LEMMA AppendPlaces ==
  ASSUME NEW T, NEW q \in Seq(T), NEW e \in T, Once(q), e.msg \notin MessagesOf(q)
  PROVE  /\ Once(Append(q, e))
         /\ MessagesOf(Append(q, e)) = MessagesOf(q) \cup {e.msg}
         /\ PromptRows(Append(q, e)) = PromptRows(q) \cup (IF e.kind = "prompt" THEN {e.msg} ELSE {})
<1> DEFINE c == <<e>>
<1>1. c \in Seq(T) /\ Append(q, e) = q \o c
  OBVIOUS
<1>2. /\ Once(c) /\ MessagesOf(c) = {e.msg}
      /\ PromptRows(c) = IF e.kind = "prompt" THEN {e.msg} ELSE {}
  BY OnePlaceOf, Zenon
<1> HIDE DEF c
<1>3. MessagesOf(q) \cap MessagesOf(c) = {}
  BY <1>2
<1> QED BY <1>1, <1>2, <1>3, ConcatPlaces

LEMMA InsertPlaces ==
  ASSUME NEW T, NEW q \in Seq(T), NEW i \in 1..(Len(q) + 1), NEW e \in T,
         Once(q), e.msg \notin MessagesOf(q)
  PROVE  /\ Once(InsertAt(q, i, e))
         /\ MessagesOf(InsertAt(q, i, e)) = MessagesOf(q) \cup {e.msg}
         /\ PromptRows(InsertAt(q, i, e)) = PromptRows(q) \cup (IF e.kind = "prompt" THEN {e.msg} ELSE {})
<1> DEFINE k == i - 1
           a == SubSeq(q, 1, k)
           b == SubSeq(q, k + 1, Len(q))
           c == <<e>>
           d == a \o c
<1>1. k \in 0..Len(q) /\ k + 1 = i
  OBVIOUS
<1>2. InsertAt(q, i, e) = d \o b
  BY <1>1 DEF InsertAt
<1> HIDE DEF k
<1>3. /\ a \in Seq(T) /\ b \in Seq(T) /\ Once(a) /\ Once(b)
      /\ MessagesOf(a) \cap MessagesOf(b) = {}
      /\ MessagesOf(q) = MessagesOf(a) \cup MessagesOf(b)
      /\ PromptRows(q) = PromptRows(a) \cup PromptRows(b)
  BY <1>1, CutPlaces
<1>4. c \in Seq(T)
  OBVIOUS
<1>5. /\ Once(c) /\ MessagesOf(c) = {e.msg}
      /\ PromptRows(c) = IF e.kind = "prompt" THEN {e.msg} ELSE {}
  BY OnePlaceOf, Zenon
<1> HIDE DEF a, b, c
<1>6. MessagesOf(a) \cap MessagesOf(c) = {}
  BY <1>3, <1>5
<1>7. /\ d \in Seq(T) /\ Once(d)
      /\ MessagesOf(d) = MessagesOf(a) \cup MessagesOf(c)
      /\ PromptRows(d) = PromptRows(a) \cup PromptRows(c)
  BY <1>3, <1>4, <1>5, <1>6, ConcatPlaces
<1> HIDE DEF d
<1>8. MessagesOf(d) \cap MessagesOf(b) = {}
  BY <1>3, <1>5, <1>7
<1>9. /\ Once(d \o b)
      /\ MessagesOf(d \o b) = MessagesOf(d) \cup MessagesOf(b)
      /\ PromptRows(d \o b) = PromptRows(d) \cup PromptRows(b)
  BY <1>3, <1>7, <1>8, ConcatPlaces
<1>10. Once(InsertAt(q, i, e))
  BY <1>2, <1>9
<1>11. MessagesOf(InsertAt(q, i, e)) = MessagesOf(q) \cup {e.msg}
  BY <1>2, <1>3, <1>5, <1>7, <1>9
<1>12. PromptRows(InsertAt(q, i, e)) = PromptRows(q) \cup (IF e.kind = "prompt" THEN {e.msg} ELSE {})
  BY <1>2, <1>3, <1>5, <1>7, <1>9
<1> QED BY <1>10, <1>11, <1>12

(* The stranded interjections become rows that no RPC waits for. *)
LEMMA FallbackPlaces ==
  ASSUME NEW q \in Seq(Row), NEW m, NEW entries,
         NEW n \in Nat, Len(entries) = n, DOMAIN entries = 1..n,
         \A i \in 1..n : entries[i].msg \in Messages,
         Once(q), Once(entries), MessagesOf(q) \cap MessagesOf(entries) = {}
  PROVE  /\ Once(WithFallbacks(q, m, entries))
         /\ MessagesOf(WithFallbacks(q, m, entries)) = MessagesOf(q) \cup MessagesOf(entries)
         /\ PromptRows(WithFallbacks(q, m, entries)) = PromptRows(q)
<1> DEFINE k == BehindFront(q, m) - 1
           a == SubSeq(q, 1, k)
           b == SubSeq(q, k + 1, Len(q))
           f == [i \in 1..n |-> FallbackRow(entries[i].msg)]
           d == a \o f
<1>1. k \in 0..Len(q) /\ k + 1 = BehindFront(q, m)
  BY BehindFrontRange
<1>2. WithFallbacks(q, m, entries) = d \o b
  BY <1>1 DEF WithFallbacks
<1> HIDE DEF k
<1>3. /\ a \in Seq(Row) /\ b \in Seq(Row) /\ Once(a) /\ Once(b)
      /\ MessagesOf(a) \cap MessagesOf(b) = {}
      /\ MessagesOf(q) = MessagesOf(a) \cup MessagesOf(b)
      /\ PromptRows(q) = PromptRows(a) \cup PromptRows(b)
  BY <1>1, CutPlaces
<1>4. f \in Seq(Row)
  BY DEF FallbackRow, Row
<1>5. \A i \in 1..n : f[i].msg = entries[i].msg /\ f[i].kind = "fallback"
  BY DEF FallbackRow
<1>6. DOMAIN f = 1..n
  OBVIOUS
<1> HIDE DEF a, b, f
<1>7. Once(f) /\ MessagesOf(f) = MessagesOf(entries)
  BY <1>5, <1>6 DEF Once, MessagesOf
<1>8. PromptRows(f) = {}
  BY <1>5, <1>6 DEF PromptRows
<1>9. MessagesOf(a) \cap MessagesOf(f) = {}
  BY <1>3, <1>7
<1>10. /\ d \in Seq(Row) /\ Once(d)
       /\ MessagesOf(d) = MessagesOf(a) \cup MessagesOf(f)
       /\ PromptRows(d) = PromptRows(a) \cup PromptRows(f)
  BY <1>3, <1>4, <1>7, <1>9, ConcatPlaces
<1> HIDE DEF d
<1>11. MessagesOf(d) \cap MessagesOf(b) = {}
  BY <1>3, <1>7, <1>10
<1>12. /\ Once(d \o b)
       /\ MessagesOf(d \o b) = MessagesOf(d) \cup MessagesOf(b)
       /\ PromptRows(d \o b) = PromptRows(d) \cup PromptRows(b)
  BY <1>3, <1>10, <1>11, ConcatPlaces
<1>13. Once(WithFallbacks(q, m, entries))
  BY <1>2, <1>12
<1>14. MessagesOf(WithFallbacks(q, m, entries)) = MessagesOf(q) \cup MessagesOf(entries)
  BY <1>2, <1>3, <1>7, <1>10, <1>12
<1>15. PromptRows(WithFallbacks(q, m, entries)) = PromptRows(q)
  BY <1>2, <1>3, <1>8, <1>10, <1>12
<1> QED BY <1>13, <1>14, <1>15

(* The rows at some positions are exactly those rows. *)
LEMMA KeepingPlaces ==
  ASSUME NEW q \in Seq(Row), NEW S \in SUBSET (DOMAIN q), NEW r \in Keeping(q, S), Once(q)
  PROVE  /\ Once(r)
         /\ Range(r) = {q[i] : i \in S}
         /\ MessagesOf(r) = {q[i].msg : i \in S}
<1> DEFINE n == Cardinality(S)
<1>1. PICK at \in [1..n -> S] :
        /\ \A i, j \in 1..n : i < j => at[i] < at[j]
        /\ r = [i \in 1..n |-> q[at[i]]]
  BY DEF Keeping
<1>2. DOMAIN q = 1..Len(q) /\ Len(q) \in Nat
  OBVIOUS
<1>3. IsFiniteSet(S) /\ n \in Nat
  <2>1. IsFiniteSet(DOMAIN q)
    BY <1>2, FS_Interval
  <2>2. IsFiniteSet(S)
    BY <2>1, FS_Subset
  <2> QED BY <2>2, FS_CardinalityType
<1> HIDE DEF n
<1>4. at \in Injection(1..n, S)
  <2>1. \A i, j \in 1..n : i # j => at[i] # at[j]
    <3> SUFFICES ASSUME NEW i \in 1..n, NEW j \in 1..n, i # j PROVE at[i] # at[j]
      OBVIOUS
    <3>1. at[i] \in Int /\ at[j] \in Int
      BY <1>1, <1>2
    <3>2. i < j \/ j < i
      BY <1>3
    <3> QED BY <3>1, <3>2, <1>1
  <2> QED BY <1>1, <2>1 DEF Injection, IsInjective
<1>5. at \in Surjection(1..n, S)
  <2>1. Cardinality(1..n) = Cardinality(S)
    BY <1>3, FS_Interval DEF n
  <2> QED BY <1>3, <1>4, <2>1, FS_Injection
<1>6. DOMAIN r = 1..n /\ \A i \in 1..n : at[i] \in S /\ r[i] = q[at[i]]
  BY <1>1
<1>7. \A s \in S : \E i \in 1..n : at[i] = s
  BY <1>5 DEF Surjection
<1>8. Range(r) = {q[i] : i \in S}
  BY <1>6, <1>7 DEF Range
<1>9. MessagesOf(r) = {q[i].msg : i \in S}
  BY <1>8, MessagesOfRange
<1>10. Once(r)
  <2> SUFFICES ASSUME NEW i \in 1..n, NEW j \in 1..n, r[i].msg = r[j].msg PROVE i = j
    BY <1>6 DEF Once
  <2>1. at[i] = at[j]
    BY <1>6 DEF Once
  <2> QED BY <2>1, <1>4 DEF Injection, IsInjective
<1> QED BY <1>8, <1>9, <1>10

LEMMA WithoutPlaces ==
  ASSUME NEW q \in Seq(Row), NEW S \in SUBSET (DOMAIN q), NEW r \in Without(q, S), Once(q)
  PROVE  /\ Once(r)
         /\ {q[i].msg : i \in S} \subseteq MessagesOf(q)
         /\ MessagesOf(r) = MessagesOf(q) \ {q[i].msg : i \in S}
         /\ PromptRows(r) = PromptRows(q) \ {q[i].msg : i \in S}
<1> DEFINE K == DOMAIN q \ S
<1>1. K \in SUBSET (DOMAIN q) /\ r \in Keeping(q, K)
  BY DEF Without
<1>2. Once(r) /\ Range(r) = {q[i] : i \in K} /\ MessagesOf(r) = {q[i].msg : i \in K}
  BY <1>1, KeepingPlaces
<1>3. \A i \in K, j \in S : q[i].msg # q[j].msg
  BY DEF Once
<1>4. {q[i].msg : i \in S} \subseteq MessagesOf(q)
  BY DEF MessagesOf
<1>5. MessagesOf(r) = MessagesOf(q) \ {q[i].msg : i \in S}
  BY <1>2, <1>3 DEF MessagesOf
<1>6. PromptRows(r) = {x.msg : x \in {y \in {q[i] : i \in K} : y.kind = "prompt"}}
  BY <1>2, PromptRowsRange
<1>7. PromptRows(r) = {q[i].msg : i \in {j \in K : q[j].kind = "prompt"}}
  BY <1>6
<1>8. PromptRows(r) = PromptRows(q) \ {q[i].msg : i \in S}
  BY <1>7, <1>3 DEF PromptRows
<1> QED BY <1>2, <1>4, <1>5, <1>8

LEMMA ReorderPlaces ==
  ASSUME NEW q \in Seq(Row), NEW m, NEW r \in Reorderings(q, m), Once(q)
  PROVE  Once(r) /\ MessagesOf(r) = MessagesOf(q) /\ PromptRows(r) = PromptRows(q)
<1>1. PICK at \in Bijection(DOMAIN q, DOMAIN q) : r = [i \in DOMAIN q |-> q[at[i]]]
  BY DEF Reorderings
<1>2. /\ at \in [DOMAIN q -> DOMAIN q]
      /\ \A i, j \in DOMAIN q : at[i] = at[j] => i = j
      /\ \A j \in DOMAIN q : \E i \in DOMAIN q : at[i] = j
  BY <1>1 DEF Bijection, Injection, Surjection, IsInjective
<1>3. DOMAIN r = DOMAIN q /\ \A i \in DOMAIN q : r[i] = q[at[i]]
  BY <1>1
<1>4. Range(r) = Range(q)
  BY <1>2, <1>3 DEF Range
<1>5. Once(r)
  <2> SUFFICES ASSUME NEW i \in DOMAIN q, NEW j \in DOMAIN q, r[i].msg = r[j].msg PROVE i = j
    BY <1>3 DEF Once
  <2>1. at[i] \in DOMAIN q /\ at[j] \in DOMAIN q /\ q[at[i]].msg = q[at[j]].msg
    BY <1>2, <1>3
  <2>2. at[i] = at[j]
    BY <2>1 DEF Once
  <2> QED BY <2>2, <1>2
<1> QED BY <1>4, <1>5, SameRange

-----------------------------------------------------------------------------
(* The inductive invariant.                                                 *)

(* Where a message can be: in the queue, in the cancel's hand, among the     *)
(* interjections, held by a turn's restore guard, with the loop on its way   *)
(* to the queue, done with, or not yet sent.                                 *)
Held == UNION {MessagesOf(drawn[t]) : t \in Messages}

Coming == IF At("queue") THEN {loop.msg} ELSE {}

Split(q, h, b, d, c, x, u) ==
    /\ Messages = q \cup h \cup b \cup d \cup c \cup x \cup u
    /\ q \cap (h \cup b \cup d \cup c \cup x \cup u) = {}
    /\ h \cap (b \cup d \cup c \cup x \cup u) = {}
    /\ b \cap (d \cup c \cup x \cup u) = {}
    /\ d \cap (c \cup x \cup u) = {}
    /\ c \cap (x \cup u) = {}
    /\ x \cap u = {}

Placed == Split(MessagesOf(queue), MessagesOf(loop.hand), MessagesOf(buffer), Held, Coming,
                done, unsent)

(* No place has a message twice. *)
Unrepeated ==
    /\ Once(queue) /\ Once(loop.hand) /\ Once(buffer)
    /\ \A t \in Messages : Once(drawn[t])
    /\ \A t, v \in Messages : t # v => MessagesOf(drawn[t]) \cap MessagesOf(drawn[v]) = {}

Books == Unrepeated /\ Placed /\ AnsweredWhenGone

(* The loop's lease is the gate's, and while someone else's claim, or one   *)
(* nobody owns, closes the gate, no turn is registered.  Rewinds hold none. *)
Leased ==
    /\ loop.at \in {"flush", "claim"} => loop.kind \notin {"named", "legacy", "rewound"}
    /\ At("rewind") => loop.kind = "named"
    /\ loop.at \in {"pop", "release", "finish"} => loop.lease # None
    /\ loop.lease = None /\ gate # None => running = None
    /\ loop.lease # None =>
         /\ gate = loop.lease
         /\ loop.at \in {"teardown", "sweep", "tail", "release", "finish", "pop"}
         /\ loop.kind \notin {"named", "legacy", "rewound"}
         /\ At("pop") => /\ loop.lease.task /\ loop.lease.front = loop.msg
                         /\ loop.kind = "complete"

(* A lease without a task: nothing runs or starts under it. *)
NoTask ==
    loop.lease # None /\ ~loop.lease.task =>
        /\ running = None
        /\ loop.lease.front # None => turn[loop.lease.front] = "none"

(* A lease with a task: the task stays registered until the release, its    *)
(* row stays the front until it is taken, and by then the task is over or   *)
(* aborted.                                                                 *)
Task ==
    loop.lease # None /\ loop.lease.task =>
        /\ loop.lease.front # None
        /\ running = IF At("finish") THEN None ELSE loop.lease.front
        /\ loop.at \in {"teardown", "sweep", "pop"} => FrontMsg(queue) = loop.lease.front
        /\ loop.at \in {"pop", "tail", "release"} => ~Alive(loop.lease.front)
        /\ At("release") => loop.lease.front \in done

(* What a cancel has in hand: rows that never ran, and its victim's. *)
Hands ==
    /\ loop.hand # <<>> => loop.at \in {"tail", "rewound"}
    /\ At("rewound") => loop.msg \in Messages /\ MessagesOf(loop.hand) = {loop.msg}
    /\ At("tail") =>
         /\ \A m \in MessagesOf(loop.hand) : turn[m] # "none" <=> m = loop.victim
         /\ loop.victim # None => loop.victim \in MessagesOf(loop.hand) /\ ~Alive(loop.victim)
         /\ loop.lease # None =>
              loop.victim = IF loop.lease.task THEN loop.lease.front ELSE None

(* A message that had its turn is running, in hand or done with, so that it  *)
(* never has another; what names a turn names one that began.                *)
RanOnce == \A m \in Messages :
    turn[m] # "none" => running = m \/ m \in MessagesOf(loop.hand) \/ m \in done

Begun(m) == m # None => turn[m] # "none"

Named == Begun(running) /\ Begun(pin) /\ Begun(loop.pinned)

(* Aborted tasks have not finished, a completion is of a finished task, and  *)
(* only a turn that drains holds interjections.                              *)
Tasks ==
    /\ \A m \in aborting : turn[m] \in Live
    /\ \A i \in DOMAIN completions : turn[completions[i]] = "sent"
    /\ \A m \in Messages : drawn[m] # <<>> => turn[m] = "drain"

Control == Leased /\ NoTask /\ Task /\ Hands /\ RanOnce /\ Named /\ Tasks
             /\ OneLiveTurn /\ LiveTurnPinned

(* The turn a send-now is about to cancel has committed its message. *)
SendsNow ==
    loop.kind = "sendnow" /\ loop.at \in {"flush", "claim", "teardown", "sweep"}
      => running # None /\ committed

(* A shutdown that got the gate has taken every prompt's row. *)
Swept ==
    (loop.kind = "shutdown" /\ loop.at \in {"tail", "release", "finish"})
        \/ (At("closed") /\ gate = None)
      => PromptRows(queue) = {}

(* Without resumed approvals nothing disturbs a lease, so that the gate      *)
(* always has its owner.                                                     *)
StillOwned ==
    Resumes = {} =>
        /\ gate # None => loop.lease = gate
        /\ loop.lease # None /\ ~loop.lease.task /\ loop.at \in {"teardown", "sweep"}
             => FrontMsg(queue) = loop.lease.front

Endings == OneOutcome /\ SendsNow /\ Swept /\ StillOwned

(* A resumed approval that is still to queue its message has not sent it. *)
Awaited == \A h \in Resumes : helper[h] = "queue" => h \in unsent

Life == IInv /\ Books /\ Control /\ Endings /\ Awaited

-----------------------------------------------------------------------------
(* What the invariant says of the front and of messages in their places.     *)

LEMMA LoopFields ==
  ASSUME IInv
  PROVE  /\ loop.at \in Labels /\ loop.msg \in Messages \cup {None}
         /\ loop.victim \in Messages \cup {None} /\ loop.pinned \in Messages \cup {None}
         /\ loop.hand \in Seq(Row) /\ loop.lease \in Leases
         /\ loop.lease # None => /\ loop.lease.front \in Messages \cup {None}
                                 /\ loop.lease.task \in BOOLEAN
<1>1. loop \in Loops
  BY DEF IInv, TypeOK
<1>2. /\ loop.at \in Labels /\ loop.msg \in Messages \cup {None}
      /\ loop.victim \in Messages \cup {None} /\ loop.pinned \in Messages \cup {None}
      /\ loop.hand \in Seq(Row) /\ loop.lease \in Leases
  BY <1>1 DEF Loops
<1>3. loop.lease # None => loop.lease \in [front : Messages \cup {None}, task : BOOLEAN]
  BY <1>2 DEF Leases
<1> QED BY <1>2, <1>3

LEMMA Fields ==
  ASSUME IInv
  PROVE  /\ queue \in Seq(Row) /\ running \in Messages \cup {None} /\ gate \in Leases
         /\ pin \in Messages \cup {None} /\ buffer \in Seq(Entry)
         /\ turn \in [Messages -> Live \cup {"none", "sent", "gone"}]
         /\ aborting \subseteq Messages /\ drawn \in [Messages -> Seq(Entry)]
         /\ completions \in Seq(Messages)
         /\ unsent \subseteq Messages /\ open \subseteq Prompts /\ done \subseteq Messages
BY DEF IInv, TypeOK, QueueType, TurnType, BookType

LEMMA RunningRow ==
  ASSUME Life, running # None, loop.lease = None \/ loop.at \notin {"tail", "release"}
  PROVE  /\ running \in Messages /\ queue # <<>> /\ queue[1].msg = running
         /\ FrontMsg(queue) = running /\ running \in MessagesOf(queue)
<1>1. running \in Messages /\ queue \in Seq(Row)
  BY Fields DEF Life
<1>2. FrontMsg(queue) = running
  <2>1. CASE gate = None
    BY <2>1 DEF Life, IInv, RunningIsFront
  <2>2. CASE gate # None
    <3>1. loop.lease # None
      BY <2>2 DEF Life, Control, Leased
    <3>2. loop.lease.task
      BY <3>1 DEF Life, Control, NoTask
    <3>3. loop.at \in {"teardown", "sweep", "finish", "pop"}
      BY <3>1 DEF Life, Control, Leased
    <3> QED BY <3>1, <3>2, <3>3 DEF Life, Control, Task, At
  <2> QED BY <2>1, <2>2
<1>3. queue # <<>> /\ queue[1].msg = running
  BY <1>1, <1>2, QueueAssumption DEF FrontMsg
<1>4. 1 \in DOMAIN queue
  BY <1>1, <1>3
<1> QED BY <1>1, <1>2, <1>3, <1>4 DEF MessagesOf

LEMMA RunningPlace ==
  ASSUME Life, running # None
  PROVE  running \in MessagesOf(queue) \cup MessagesOf(loop.hand) \cup done
<1>1. CASE loop.lease = None \/ loop.at \notin {"tail", "release"}
  BY <1>1, RunningRow
<1>2. CASE loop.lease # None /\ loop.at \in {"tail", "release"}
  <2>1. loop.lease.task
    BY <1>2 DEF Life, Control, NoTask
  <2>2. running = loop.lease.front /\ (At("release") => loop.lease.front \in done)
    BY <1>2, <2>1 DEF Life, Control, Task, At
  <2>3. CASE At("tail")
    BY <1>2, <2>1, <2>2, <2>3 DEF Life, Control, Hands
  <2> QED BY <1>2, <2>2, <2>3 DEF At
<1> QED BY <1>1, <1>2

LEMMA Disjoint ==
  ASSUME NEW q, NEW h, NEW b, NEW d, NEW c, NEW x, NEW u, Split(q, h, b, d, c, x, u), NEW m
  PROVE  /\ m \in q => m \notin h /\ m \notin b /\ m \notin d /\ m \notin c /\ m \notin x /\ m \notin u
         /\ m \in h => m \notin b /\ m \notin d /\ m \notin c /\ m \notin x /\ m \notin u
         /\ m \in b => m \notin d /\ m \notin c /\ m \notin x /\ m \notin u
         /\ m \in d => m \notin c /\ m \notin x /\ m \notin u
         /\ m \in c => m \notin x /\ m \notin u
         /\ m \in x => m \notin u
BY DEF Split

(* A message that is still to run has had no turn. *)
LEMMA NotYetRun ==
  ASSUME Life, NEW m \in Messages,
         \/ m \in MessagesOf(queue) /\ m # running
         \/ m \in MessagesOf(buffer) \/ m \in Held \/ m \in Coming \/ m \in unsent
  PROVE  turn[m] = "none" /\ m # running /\ m \notin done /\ m \notin MessagesOf(loop.hand)
<1>1. Split(MessagesOf(queue), MessagesOf(loop.hand), MessagesOf(buffer), Held, Coming, done, unsent)
  BY DEF Life, Books, Placed
<1>2. m \notin done /\ m \notin MessagesOf(loop.hand)
  BY <1>1, Disjoint
<1>3. m # running
  <2>1. CASE m \in MessagesOf(queue) /\ m # running
    BY <2>1
  <2>2. CASE m \notin MessagesOf(queue)
    <3>1. running # None => running \in MessagesOf(queue) \cup MessagesOf(loop.hand) \cup done
      BY RunningPlace
    <3> QED BY <3>1, <2>2, <1>2, QueueAssumption
  <2>3. m \in MessagesOf(queue) => m # running
    BY <1>1, Disjoint
  <2> QED BY <2>1, <2>2, <2>3
<1>4. turn[m] # "none" => running = m \/ m \in MessagesOf(loop.hand) \/ m \in done
  BY DEF Life, Control, RanOnce
<1> QED BY <1>2, <1>3, <1>4

LEMMA RowMessage ==
  ASSUME NEW q \in Seq(Row), NEW i \in DOMAIN q
  PROVE  q[i].msg \in Messages /\ q[i].msg \in MessagesOf(q)
<1>1. q[i] \in Row
  OBVIOUS
<1> QED BY <1>1 DEF Row, MessagesOf

-----------------------------------------------------------------------------
(* The control part, for the kinds of step that leave most of it alone.      *)

(* The loop, the turns and the gate stay as they are. *)
LEMMA ControlQuiet ==
  ASSUME Life, UNCHANGED <<loop, gate, running, turn, aborting, pin>>, Tasks', done \subseteq done',
         running # None /\ FrontMsg(queue) = running => FrontMsg(queue') = running
  PROVE  Control'
<1> USE DEF Life, Control
<1>1. Leased'
  BY DEF Leased, At
<1>2. NoTask'
  BY DEF NoTask
<1>3. Task'
  BY DEF Task, At, Alive
<1>4. Hands'
  BY DEF Hands, At, Alive
<1>5. RanOnce'
  BY DEF RanOnce
<1>6. Named'
  BY DEF Named, Begun
<1>7. OneLiveTurn' /\ LiveTurnPinned'
  BY DEF OneLiveTurn, LiveTurnPinned, Alive
<1> QED BY <1>1, <1>2, <1>3, <1>4, <1>5, <1>6, <1>7

(* A handler without a lease is over, or a new one begins; what it had in    *)
(* hand is done with, and the gate is as it was or open.                     *)
FreshLoop ==
    /\ loop'.lease = None /\ loop'.hand = <<>> /\ loop'.pinned = None
    /\ loop'.at \notin {"pop", "release", "finish", "tail", "rewound"}
    /\ loop'.at \in {"flush", "claim"} => loop'.kind \notin {"named", "legacy", "rewound"}
    /\ loop'.at = "rewind" => loop'.kind = "named"

LEMMA ControlFresh ==
  ASSUME Life, UNCHANGED <<running, turn, aborting, pin>>, Tasks', FreshLoop,
         gate' \in {gate, None}, loop.lease = None \/ running = None,
         done \subseteq done', MessagesOf(loop.hand) \subseteq done'
  PROVE  Control'
<1> USE DEF Life, Control
<1>1. Leased'
  BY DEF Leased, At, FreshLoop
<1>2. NoTask'
  BY DEF NoTask, FreshLoop
<1>3. Task'
  BY DEF Task, FreshLoop
<1>4. Hands'
  BY DEF Hands, At, FreshLoop
<1>5. RanOnce'
  BY DEF RanOnce
<1>6. Named'
  BY DEF Named, Begun, FreshLoop
<1>7. OneLiveTurn' /\ LiveTurnPinned'
  BY DEF OneLiveTurn, LiveTurnPinned, Alive
<1> QED BY <1>1, <1>2, <1>3, <1>4, <1>5, <1>6, <1>7

LEMMA TurnAfter ==
  ASSUME turn \in [Messages -> Live \cup {"none", "sent", "gone"}], NEW m \in Messages, NEW x,
         turn' = [turn EXCEPT ![m] = x]
  PROVE  turn'[m] = x /\ \A n \in Messages : n # m => turn'[n] = turn[n]
OBVIOUS

(* A live turn goes on; only when it returns may it give up the pin. *)
LEMMA ControlTurn ==
  ASSUME Life, NEW m \in Messages, Alive(m), NEW x \in Live \cup {"sent"},
         turn' = [turn EXCEPT ![m] = x], UNCHANGED <<loop, gate, running, aborting>>,
         \/ pin' = pin /\ (x \in {"returned", "sent"} \/ turn[m] # "returned")
         \/ pin' = Unpinned(m) /\ x = "returned",
         Tasks', done \subseteq done',
         running # None /\ FrontMsg(queue) = running => FrontMsg(queue') = running
  PROVE  Control'
<1> USE DEF Life, Control
<1>1. running = m /\ m # None
  BY QueueAssumption DEF OneLiveTurn
<1>2. turn'[m] = x /\ \A n \in Messages : n # m => turn'[n] = turn[n]
  BY Fields, TurnAfter
<1>3. x # "none" /\ turn[m] # "none"
  BY DEF Alive, Live
<1>4. \A n \in Messages : turn'[n] = "none" <=> turn[n] = "none"
  BY <1>2, <1>3
<1>5. \A n \in Messages : n # m => (Alive(n)' <=> Alive(n))
  BY <1>2 DEF Alive
<1>6. Leased'
  BY DEF Leased, At
<1>7. NoTask'
  BY <1>1 DEF NoTask
<1>8. Task'
  <2>1. SUFFICES ASSUME loop.lease # None, loop.lease.task
                 PROVE  /\ loop.lease.front # None
                        /\ running = IF At("finish") THEN None ELSE loop.lease.front
                        /\ loop.at \in {"teardown", "sweep", "pop"} => FrontMsg(queue') = loop.lease.front
                        /\ loop.at \in {"pop", "tail", "release"} => ~Alive(loop.lease.front)'
                        /\ At("release") => loop.lease.front \in done'
    BY DEF Task, At
  <2>2. loop.lease.front \in Messages
    BY <2>1, LoopFields DEF Task
  <2> QED BY <1>1, <1>5, <2>1, <2>2 DEF Task, At
<1>9. Hands'
  <2>1. \A n \in MessagesOf(loop.hand) : n \in Messages
    BY LoopFields, RowMessages
  <2>2. loop.victim # None /\ At("tail") => ~Alive(loop.victim)'
    BY <1>5, LoopFields DEF Hands
  <2> QED BY <1>4, <2>1, <2>2 DEF Hands, At
<1>10. RanOnce'
  BY <1>4 DEF RanOnce
<1>11. Named'
  BY <1>3, <1>2, <1>4, <1>1, Fields, LoopFields, QueueAssumption DEF Named, Begun, Unpinned
<1>12. OneLiveTurn'
  BY <1>1, <1>5 DEF OneLiveTurn
<1>13. LiveTurnPinned'
  <2>1. \A n \in Messages : Alive(n)' => n = m
    BY <1>1, <1>5 DEF OneLiveTurn
  <2>2. Alive(m)' /\ turn'[m] # "returned" => pin' = m
    BY <1>2 DEF LiveTurnPinned, Alive, Live
  <2> QED BY <2>1, <2>2 DEF LiveTurnPinned
<1> QED BY <1>6, <1>7, <1>8, <1>9, <1>10, <1>11, <1>12, <1>13

LEMMA ControlDrop ==
  ASSUME Life, NEW m \in Messages, TurnDrop(m), Tasks'
  PROVE  Control'
<1> USE DEF Life, Control
<1>1. /\ m \in aborting /\ aborting' = aborting \ {m} /\ turn' = [turn EXCEPT ![m] = "gone"]
      /\ pin' \in {pin, Unpinned(m)} /\ UNCHANGED <<queue, loop, gate, running, done>>
  BY DEF TurnDrop, state, book
<1>2. turn'[m] = "gone" /\ \A n \in Messages : n # m => turn'[n] = turn[n]
  BY <1>1, Fields, TurnAfter
<1>3. turn[m] # "none"
  BY <1>1 DEF Tasks, Live
<1>4. \A n \in Messages : turn'[n] = "none" <=> turn[n] = "none"
  BY <1>2, <1>3
<1>5. \A n \in Messages : Alive(n)' => Alive(n) /\ n # m
  BY <1>1, <1>2 DEF Alive, Live
<1>6. Leased'
  BY <1>1 DEF Leased, At
<1>7. NoTask'
  <2>1. loop.lease # None => loop.lease.front \in Messages \cup {None}
    BY LoopFields
  <2> QED BY <1>1, <1>4, <2>1 DEF NoTask
<1>8. Task'
  <2>1. loop.lease # None => loop.lease.front \in Messages \cup {None}
    BY LoopFields
  <2> QED BY <1>1, <1>5, <2>1 DEF Task, At
<1>9. Hands'
  <2>1. \A n \in MessagesOf(loop.hand) : n \in Messages
    BY LoopFields, RowMessages
  <2>2. loop.victim # None /\ At("tail") => ~Alive(loop.victim)'
    BY <1>1, <1>5, LoopFields DEF Hands
  <2> QED BY <1>1, <1>4, <2>1, <2>2 DEF Hands, At
<1>10. RanOnce'
  BY <1>1, <1>4 DEF RanOnce
<1>11. Named'
  BY <1>1, <1>4, Fields, LoopFields, QueueAssumption DEF Named, Begun, Unpinned
<1>12. OneLiveTurn'
  BY <1>1, <1>5 DEF OneLiveTurn
<1>13. LiveTurnPinned'
  BY <1>1, <1>2, <1>5 DEF LiveTurnPinned, Unpinned
<1> QED BY <1>6, <1>7, <1>8, <1>9, <1>10, <1>11, <1>12, <1>13

(* A promotion, by the loop or by another task while the loop does anything   *)
(* that does not hold the gate.                                              *)
LEMMA PromotedRow ==
  ASSUME Life, NEW combine \in BOOLEAN, Promote(combine)
  PROVE  /\ running = None /\ gate = None /\ loop.lease = None /\ queue # <<>>
         /\ queue[1].msg \in Messages /\ queue[1].msg \in MessagesOf(queue)
         /\ turn[queue[1].msg] = "none"
         /\ queue[1].msg \notin aborting /\ queue[1].msg \notin done
         /\ queue[1].msg \notin MessagesOf(loop.hand)
         /\ \A n \in Messages : ~Alive(n)
<1> USE DEF Life
<1>1. running = None /\ gate = None /\ queue # <<>>
  BY DEF Promote, MayPromote, NothingToStart
<1>2. loop.lease = None
  BY <1>1 DEF Control, Leased
<1>3. queue[1].msg \in Messages /\ queue[1].msg \in MessagesOf(queue)
  <2>1. queue \in Seq(Row)
    BY Fields
  <2>2. 1 \in DOMAIN queue
    BY <1>1, <2>1
  <2> QED BY <2>1, <2>2, RowMessage
<1>4. /\ turn[queue[1].msg] = "none" /\ queue[1].msg \notin done
      /\ queue[1].msg \notin MessagesOf(loop.hand)
  BY <1>1, <1>3, NotYetRun, QueueAssumption
<1>5. queue[1].msg \notin aborting
  BY <1>4 DEF Control, Tasks, Live
<1>6. \A n \in Messages : ~Alive(n)
  BY <1>1, QueueAssumption DEF Control, OneLiveTurn
<1> QED BY <1>1, <1>2, <1>3, <1>4, <1>5, <1>6

LEMMA ControlPromote ==
  ASSUME Life, NEW combine \in BOOLEAN, Promote(combine), loop' = loop \/ FreshLoop,
         done \subseteq done', MessagesOf(loop.hand) \subseteq MessagesOf(loop'.hand) \cup done'
  PROVE  Control'
<1> USE DEF Life, Control
<1> DEFINE m == queue[1].msg
<1>1. /\ running = None /\ gate = None /\ loop.lease = None
      /\ m \in Messages /\ m \in MessagesOf(queue)
      /\ turn[m] = "none" /\ m \notin aborting /\ m \notin done /\ m \notin MessagesOf(loop.hand)
      /\ \A n \in Messages : ~Alive(n)
  BY PromotedRow
<1>2. /\ running' = m /\ pin' = m /\ turn' = [turn EXCEPT ![m] = "intake"]
      /\ UNCHANGED <<gate, aborting, drawn, completions>>
  BY DEF Promote
<1> HIDE DEF m
<1>3. turn'[m] = "intake" /\ \A n \in Messages : n # m => turn'[n] = turn[n]
  BY <1>1, <1>2, Fields, TurnAfter
<1>4. \A n \in Messages : Alive(n)' => n = m
  BY <1>1, <1>2, <1>3 DEF Alive
<1>5. \A n \in Messages : turn[n] # "none" => n # m /\ turn'[n] = turn[n]
  BY <1>1, <1>3
<1>6. loop'.lease = None /\ gate' = None
  BY <1>1, <1>2 DEF FreshLoop
<1>7. Leased'
  BY <1>1, <1>6 DEF Leased, At, FreshLoop
<1>8. NoTask' /\ Task'
  BY <1>6 DEF NoTask, Task
<1>9. Hands'
  <2>1. CASE FreshLoop
    BY <2>1 DEF Hands, At, FreshLoop
  <2>2. CASE loop' = loop
    <3>1. \A n \in MessagesOf(loop.hand) : n \in Messages /\ n # m /\ turn'[n] = turn[n]
      BY <1>1, <1>3, LoopFields, RowMessages
    <3>2. ASSUME loop.victim # None, At("tail") PROVE ~Alive(loop.victim)'
      <4>1. loop.victim \in MessagesOf(loop.hand)
        BY <3>2 DEF Hands
      <4> QED BY <4>1, <3>1, <1>4, <2>2
    <3> QED BY <2>2, <3>1, <3>2, <1>1 DEF Hands, At
  <2> QED BY <2>1, <2>2
<1>10. RanOnce'
  BY <1>1, <1>2, <1>3, QueueAssumption DEF RanOnce
<1>11. Named'
  <2>1. loop'.pinned # None => loop'.pinned = loop.pinned
    BY DEF FreshLoop
  <2>2. Begun(loop.pinned)'
    BY <1>1, <1>3, LoopFields, <2>1 DEF Named, Begun
  <2> QED BY <2>1, <2>2, <1>2, <1>3 DEF Named, Begun
<1>12. Tasks'
  <2>1. \A n \in aborting : turn'[n] \in Live
    BY <1>1, <1>3, Fields DEF Tasks
  <2>2. \A i \in DOMAIN completions : turn'[completions[i]] = "sent"
    <3>1. \A i \in DOMAIN completions : completions[i] \in Messages
      BY Fields
    <3> QED BY <3>1, <1>1, <1>3 DEF Tasks
  <2>3. \A n \in Messages : drawn[n] # <<>> => turn'[n] = "drain"
    BY <1>1, <1>3 DEF Tasks
  <2> QED BY <2>1, <2>2, <2>3, <1>2 DEF Tasks
<1>13. OneLiveTurn' /\ LiveTurnPinned'
  BY <1>2, <1>4 DEF OneLiveTurn, LiveTurnPinned
<1> QED BY <1>7, <1>8, <1>9, <1>10, <1>11, <1>12, <1>13

-----------------------------------------------------------------------------
(* The books, for the ways in which messages move.                           *)

LEMMA NoHand ==
  ASSUME Life, loop.at \notin {"tail", "rewound"}
  PROVE  loop.hand = <<>> /\ MessagesOf(loop.hand) = {} /\ PromptRows(loop.hand) = {}
BY EmptyPlace DEF Life, Control, Hands

DrawnApart ==
    /\ \A t \in Messages : Once(drawn[t])
    /\ \A t, v \in Messages : t # v => MessagesOf(drawn[t]) \cap MessagesOf(drawn[v]) = {}

LEMMA BooksFrom ==
  ASSUME Once(queue'), Once(loop'.hand), Once(buffer'), DrawnApart',
         Split(MessagesOf(queue'), MessagesOf(loop'.hand), MessagesOf(buffer'), Held', Coming',
               done', unsent'),
         open' = PromptRows(queue') \cup PromptRows(loop'.hand) \cup Coming'
  PROVE  Books'
<1>1. Unrepeated'
  BY DEF Unrepeated, DrawnApart
<1>2. Placed'
  BY DEF Placed
<1>3. AnsweredWhenGone'
  BY DEF AnsweredWhenGone, Coming
<1> QED BY <1>1, <1>2, <1>3 DEF Books

LEMMA BooksHas ==
  ASSUME Life
  PROVE  /\ Once(queue) /\ Once(loop.hand) /\ Once(buffer) /\ DrawnApart
         /\ Split(MessagesOf(queue), MessagesOf(loop.hand), MessagesOf(buffer), Held, Coming,
                  done, unsent)
         /\ open = PromptRows(queue) \cup PromptRows(loop.hand) \cup Coming
         /\ PromptRows(queue) \subseteq MessagesOf(queue)
         /\ PromptRows(loop.hand) \subseteq MessagesOf(loop.hand)
BY PromptsAmong DEF Life, Books, Unrepeated, Placed, AnsweredWhenGone, Coming, DrawnApart

LEMMA HeldSame ==
  ASSUME UNCHANGED drawn
  PROVE  Held' = Held /\ (DrawnApart => DrawnApart')
BY DEF Held, DrawnApart

LEMMA HeldChange ==
  ASSUME drawn \in [Messages -> Seq(Entry)], DrawnApart, NEW m \in Messages, NEW e, Once(e),
         drawn' = [drawn EXCEPT ![m] = e],
         MessagesOf(e) \cap (Held \ MessagesOf(drawn[m])) = {}
  PROVE  /\ Held' = (Held \ MessagesOf(drawn[m])) \cup MessagesOf(e)
         /\ MessagesOf(drawn[m]) \subseteq Held /\ Once(drawn[m]) /\ DrawnApart'
<1>1. drawn'[m] = e /\ \A t \in Messages : t # m => drawn'[t] = drawn[t]
  OBVIOUS
<1>2. \A t \in Messages : t # m => MessagesOf(drawn[t]) \subseteq Held \ MessagesOf(drawn[m])
  BY DEF Held, DrawnApart
<1>3. Held' = UNION {MessagesOf(drawn'[t]) : t \in Messages}
  BY DEF Held
<1>4. \A x : x \in Held' <=> x \in MessagesOf(e) \/ x \in Held \ MessagesOf(drawn[m])
  <2> TAKE x
  <2>1. x \in Held' <=> \E t \in Messages : x \in MessagesOf(drawn'[t])
    BY <1>3
  <2>2. x \in Held <=> \E t \in Messages : x \in MessagesOf(drawn[t])
    BY DEF Held
  <2>3. ASSUME x \in Held' PROVE x \in MessagesOf(e) \/ x \in Held \ MessagesOf(drawn[m])
    BY <2>1, <2>3, <1>1, <1>2
  <2>4. ASSUME x \in MessagesOf(e) PROVE x \in Held'
    BY <2>1, <2>4, <1>1
  <2>5. ASSUME x \in Held \ MessagesOf(drawn[m]) PROVE x \in Held'
    BY <2>1, <2>2, <2>5, <1>1
  <2> QED BY <2>3, <2>4, <2>5
<1>5. Held' = (Held \ MessagesOf(drawn[m])) \cup MessagesOf(e)
  BY <1>4
<1>6. DrawnApart'
  <2>1. \A t \in Messages : Once(drawn'[t])
    BY <1>1 DEF DrawnApart
  <2>2. \A t, v \in Messages : t # v => MessagesOf(drawn'[t]) \cap MessagesOf(drawn'[v]) = {}
    <3> SUFFICES ASSUME NEW t \in Messages, NEW v \in Messages, t # v
                 PROVE  MessagesOf(drawn'[t]) \cap MessagesOf(drawn'[v]) = {}
      OBVIOUS
    <3>1. CASE t = m
      <4>1. drawn'[t] = e /\ drawn'[v] = drawn[v]
        BY <3>1, <1>1
      <4> QED BY <3>1, <4>1, <1>2
    <3>2. CASE v = m
      <4>1. drawn'[v] = e /\ drawn'[t] = drawn[t]
        BY <3>2, <1>1
      <4> QED BY <3>2, <4>1, <1>2
    <3>3. CASE t # m /\ v # m
      BY <3>3, <1>1 DEF DrawnApart
    <3> QED BY <3>1, <3>2, <3>3
  <2> QED BY <2>1, <2>2 DEF DrawnApart
<1> QED BY <1>5, <1>6 DEF Held, DrawnApart

(* Nothing moves. *)
LEMMA BooksQuiet ==
  ASSUME Life, UNCHANGED <<buffer, drawn, done, unsent, open>>,
         Once(queue'), MessagesOf(queue') = MessagesOf(queue), PromptRows(queue') = PromptRows(queue),
         loop'.hand = loop.hand, Coming' = Coming
  PROVE  Books'
BY BooksHas, HeldSame, BooksFrom

(* Rows leave the queue, are answered and done with. *)
LEMMA BooksRemove ==
  ASSUME Life, NEW S \in SUBSET (DOMAIN queue), RowRemoved(S),
         UNCHANGED <<buffer, drawn, unsent>>, loop'.hand = loop.hand, Coming' = Coming
  PROVE  Books'
<1> DEFINE X == {queue[i].msg : i \in S}
<1>1. queue' \in Without(queue, S) /\ open' = open \ X /\ done' = done \cup X
  BY DEF RowRemoved, Dispose
<1>2. /\ Once(queue') /\ X \subseteq MessagesOf(queue)
      /\ MessagesOf(queue') = MessagesOf(queue) \ X /\ PromptRows(queue') = PromptRows(queue) \ X
  BY <1>1, WithoutPlaces, BooksHas, Fields DEF Life
<1> HIDE DEF X
<1>3. Held' = Held /\ DrawnApart'
  BY BooksHas, HeldSame
<1>4. Split(MessagesOf(queue'), MessagesOf(loop'.hand), MessagesOf(buffer'), Held', Coming',
            done', unsent')
  BY <1>1, <1>2, <1>3, BooksHas DEF Split
<1>5. X \cap PromptRows(loop.hand) = {} /\ X \cap Coming = {}
  BY <1>2, BooksHas DEF Split
<1>6. open' = PromptRows(queue') \cup PromptRows(loop'.hand) \cup Coming'
  BY <1>1, <1>2, <1>5, BooksHas
<1> QED BY <1>2, <1>3, <1>4, <1>6, BooksHas, BooksFrom

(* The interjections are flushed to the queue. *)
LEMMA BooksFlush ==
  ASSUME Life, FlushStranded, UNCHANGED <<drawn, done, unsent, open>>,
         loop'.hand = loop.hand, Coming' = Coming
  PROVE  Books'
<1> DEFINE n == Len(buffer)
<1>1. queue' = WithFallbacks(queue, running, buffer) /\ buffer' = <<>>
  BY DEF FlushStranded
<1>2. buffer \in Seq(Entry) /\ n \in Nat /\ DOMAIN buffer = 1..n /\ queue \in Seq(Row)
  BY Fields DEF Life
<1>3. \A i \in 1..n : buffer[i].msg \in Messages
  <2>1. \A i \in 1..n : buffer[i] \in Entry
    BY <1>2
  <2> QED BY <2>1 DEF Entry
<1>4. MessagesOf(queue) \cap MessagesOf(buffer) = {}
  BY BooksHas DEF Split
<1> HIDE DEF n
<1>5. Len(buffer) = n
  BY DEF n
<1>6. /\ Once(queue') /\ MessagesOf(queue') = MessagesOf(queue) \cup MessagesOf(buffer)
      /\ PromptRows(queue') = PromptRows(queue)
  BY <1>1, <1>2, <1>3, <1>4, <1>5, FallbackPlaces, BooksHas
<1>7. Held' = Held /\ DrawnApart'
  BY BooksHas, HeldSame
<1>8. Once(buffer') /\ MessagesOf(buffer') = {}
  BY <1>1, EmptyPlace
<1>9. Split(MessagesOf(queue'), MessagesOf(loop'.hand), MessagesOf(buffer'), Held', Coming',
            done', unsent')
  BY <1>6, <1>7, <1>8, BooksHas DEF Split
<1> QED BY <1>6, <1>7, <1>8, <1>9, BooksHas, BooksFrom

(* A steering turn takes rows out of the queue as interjections. *)
LEMMA SteerPlaces ==
  ASSUME Life, NEW m \in Messages, Steer, NEW b \in BufferAfterSteer(m)
  PROVE  LET X == {queue[i].msg : i \in Steered}
         IN  /\ Once(queue') /\ MessagesOf(queue') = MessagesOf(queue) \ X
             /\ PromptRows(queue') = PromptRows(queue) \ X
             /\ X \subseteq MessagesOf(queue) /\ open' = open \ X
             /\ b \in Seq(Entry) /\ Once(b) /\ MessagesOf(b) = MessagesOf(buffer) \cup X
<1> DEFINE X == {queue[i].msg : i \in Steered}
<1>1. Steered \in SUBSET (DOMAIN queue)
  BY SteeredSet
<1>2. queue \in Seq(Row) /\ buffer \in Seq(Entry) /\ Once(queue) /\ Once(buffer)
  BY Fields, BooksHas DEF Life
<1>3. /\ Once(queue') /\ MessagesOf(queue') = MessagesOf(queue) \ X
      /\ PromptRows(queue') = PromptRows(queue) \ X
      /\ X \subseteq MessagesOf(queue) /\ open' = open \ X
  BY <1>1, <1>2, WithoutPlaces DEF Steer
<1>4. PICK taken \in Keeping(queue, Steered) :
        b = buffer \o [i \in DOMAIN taken |-> [msg |-> taken[i].msg, aim |-> m]]
  BY DEF BufferAfterSteer
<1>5. taken \in Seq(Row) /\ Once(taken) /\ MessagesOf(taken) = X
  BY <1>1, <1>2, KeepingRows, KeepingPlaces
<1> DEFINE t == [i \in DOMAIN taken |-> [msg |-> taken[i].msg, aim |-> m]]
<1>6. t \in Seq(Entry)
  <2>1. DOMAIN taken = 1..Len(taken) /\ Len(taken) \in Nat
    BY <1>5
  <2>2. \A i \in 1..Len(taken) : taken[i] \in Row
    BY <1>5
  <2>3. \A i \in 1..Len(taken) : [msg |-> taken[i].msg, aim |-> m] \in Entry
    BY <2>2 DEF Entry, Row
  <2> QED BY <2>1, <2>3
<1>7. DOMAIN t = DOMAIN taken /\ \A i \in DOMAIN taken : t[i].msg = taken[i].msg
  OBVIOUS
<1> HIDE DEF t, X
<1>8. Once(t) /\ MessagesOf(t) = X
  BY <1>5, <1>7 DEF Once, MessagesOf
<1>9. MessagesOf(buffer) \cap MessagesOf(t) = {}
  BY <1>3, <1>8, BooksHas DEF Split
<1>10. b = buffer \o t
  BY <1>4 DEF t
<1>11. b \in Seq(Entry) /\ Once(b) /\ MessagesOf(b) = MessagesOf(buffer) \cup X
  BY <1>2, <1>6, <1>8, <1>9, <1>10, ConcatPlaces
<1> QED BY <1>3, <1>11 DEF X

(* The head of the queue, or more of it, goes to the cancel's hand. *)
LEMMA BooksTake ==
  ASSUME Life, loop.at \notin {"tail", "rewound", "queue"}, NEW a \in Seq(Row), loop'.hand = a,
         Once(a), Once(queue'), MessagesOf(a) \cap MessagesOf(queue') = {},
         MessagesOf(queue) = MessagesOf(a) \cup MessagesOf(queue'),
         PromptRows(queue) = PromptRows(a) \cup PromptRows(queue'),
         loop'.at # "queue", UNCHANGED <<buffer, drawn, done, unsent, open>>
  PROVE  Books'
<1>1. loop.hand = <<>> /\ MessagesOf(loop.hand) = {} /\ PromptRows(loop.hand) = {}
  BY NoHand
<1>2. Coming = {} /\ Coming' = {}
  BY DEF Coming, At
<1>3. Held' = Held /\ DrawnApart'
  BY BooksHas, HeldSame
<1>4. Split(MessagesOf(queue'), MessagesOf(loop'.hand), MessagesOf(buffer'), Held', Coming',
            done', unsent')
  BY <1>1, <1>2, <1>3, BooksHas DEF Split
<1>5. open' = PromptRows(queue') \cup PromptRows(loop'.hand) \cup Coming'
  BY <1>1, <1>2, BooksHas
<1> QED BY <1>3, <1>4, <1>5, BooksHas, BooksFrom

(* What a cancel has in hand is answered and done with. *)
LEMMA BooksDispose ==
  ASSUME Life, ~At("queue"), Dispose(MessagesOf(loop.hand)), loop'.hand = <<>>, loop'.at # "queue",
         UNCHANGED <<queue, buffer, drawn, unsent>>
  PROVE  Books'
<1>1. Once(loop'.hand) /\ MessagesOf(loop'.hand) = {} /\ PromptRows(loop'.hand) = {}
  BY EmptyPlace
<1>2. Coming = {} /\ Coming' = {}
  BY DEF Coming, At
<1>3. Held' = Held /\ DrawnApart'
  BY BooksHas, HeldSame
<1>4. open' = open \ MessagesOf(loop.hand) /\ done' = done \cup MessagesOf(loop.hand)
  BY DEF Dispose
<1>5. Split(MessagesOf(queue'), MessagesOf(loop'.hand), MessagesOf(buffer'), Held', Coming',
            done', unsent')
  BY <1>1, <1>2, <1>3, <1>4, BooksHas DEF Split
<1>6. PromptRows(queue) \cap MessagesOf(loop.hand) = {}
  BY BooksHas DEF Split
<1>7. open' = PromptRows(queue') \cup PromptRows(loop'.hand) \cup Coming'
  BY <1>1, <1>2, <1>4, <1>6, BooksHas
<1> QED BY <1>1, <1>3, <1>5, <1>7, BooksHas, BooksFrom

(* A message not yet sent arrives in the queue. *)
LEMMA BooksArrive ==
  ASSUME Life, NEW m \in unsent, unsent' = unsent \ {m},
         Once(queue'), MessagesOf(queue') = MessagesOf(queue) \cup {m},
         PromptRows(queue') = PromptRows(queue),
         loop'.hand = loop.hand, Coming' = Coming, UNCHANGED <<buffer, drawn, done, open>>
  PROVE  Books'
<1>1. Held' = Held /\ DrawnApart'
  BY BooksHas, HeldSame
<1>2. Split(MessagesOf(queue'), MessagesOf(loop'.hand), MessagesOf(buffer'), Held', Coming',
            done', unsent')
  BY <1>1, BooksHas DEF Split
<1> QED BY <1>1, <1>2, BooksHas, BooksFrom

(* The prompt the loop is serving arrives in the queue. *)
LEMMA BooksQueue ==
  ASSUME Life, At("queue"), loop'.at # "queue", loop'.hand = <<>>,
         Once(queue'), MessagesOf(queue') = MessagesOf(queue) \cup {loop.msg},
         PromptRows(queue') = PromptRows(queue) \cup {loop.msg},
         UNCHANGED <<buffer, drawn, done, unsent, open>>
  PROVE  Books'
<1>1. loop.hand = <<>> /\ MessagesOf(loop.hand) = {} /\ PromptRows(loop.hand) = {}
  BY NoHand DEF At
<1>2. Coming = {loop.msg} /\ Coming' = {}
  BY DEF Coming, At
<1>3. Held' = Held /\ DrawnApart'
  BY BooksHas, HeldSame
<1>4. Split(MessagesOf(queue'), MessagesOf(loop'.hand), MessagesOf(buffer'), Held', Coming',
            done', unsent')
  BY <1>1, <1>2, <1>3, BooksHas DEF Split
<1>5. open' = PromptRows(queue') \cup PromptRows(loop'.hand) \cup Coming'
  BY <1>1, <1>2, BooksHas
<1> QED BY <1>1, <1>3, <1>4, <1>5, BooksHas, BooksFrom

-----------------------------------------------------------------------------
(* How turns end, for steps that record nothing.                             *)

LEMMA OutcomeKept ==
  ASSUME Life, UNCHANGED outcomes, done \subseteq done',
         \A m \in done : turn'[m] = "none" <=> turn[m] = "none",
         \A m \in done' \ done : turn'[m] = "none"
  PROVE  OneOutcome'
BY DEF Life, Endings, OneOutcome

(* The loop does not move. *)
LEMMA LoopStays ==
  ASSUME Life, UNCHANGED <<loop, gate>>, running # None => running' = running,
         running # None /\ committed => committed', PromptRows(queue') \subseteq PromptRows(queue),
         \/ FrontMsg(queue') = FrontMsg(queue) \/ running # None
  PROVE  SendsNow' /\ Swept' /\ StillOwned'
<1> USE DEF Life, Endings
<1>1. SendsNow'
  BY DEF SendsNow
<1>2. Swept'
  BY DEF Swept, At
<1>3. StillOwned'
  BY DEF StillOwned, Control, NoTask
<1> QED BY <1>1, <1>2, <1>3

(* The loop goes to a point where it holds no lease and that is neither the  *)
(* end of a shutdown nor a send-now's cancel.                                *)
LEMMA LoopLeaves ==
  ASSUME Life, loop'.lease = None, loop'.at # "closed",
         loop'.kind = "sendnow" => loop'.at \notin {"flush", "claim", "teardown", "sweep"},
         loop'.kind = "shutdown" => loop'.at \notin {"tail", "release", "finish"},
         \/ gate' = None
         \/ gate' = gate /\ loop.lease = None
  PROVE  SendsNow' /\ Swept' /\ StillOwned'
BY DEF Life, Endings, SendsNow, Swept, StillOwned, At

LEMMA Returns ==
  ASSUME NEW label, Return(label)
  PROVE  /\ loop'.at = label /\ loop'.kind = "none" /\ loop'.lease = None /\ loop'.hand = <<>>
         /\ loop'.pinned = None
BY DEF Return, Idle

-----------------------------------------------------------------------------
(* The steps of a turn task.                                                 *)

Rest == Books /\ Control /\ Endings

LEMMA TasksTurn ==
  ASSUME Life, NEW m \in Messages, Alive(m), NEW x, turn' = [turn EXCEPT ![m] = x],
         UNCHANGED aborting,
         completions' = completions \/ (x = "sent" /\ completions' = Append(completions, m)),
         drawn'[m] # <<>> => x = "drain", \A n \in Messages : n # m => drawn'[n] = drawn[n]
  PROVE  Tasks'
<1> USE DEF Life, Control
<1>1. turn'[m] = x /\ \A n \in Messages : n # m => turn'[n] = turn[n]
  BY Fields, TurnAfter
<1>2. m \notin aborting /\ turn[m] \in Live /\ turn[m] # "sent"
  BY DEF Alive, Live
<1>3. \A n \in aborting' : turn'[n] \in Live
  BY <1>1, <1>2, Fields DEF Tasks
<1>4. \A i \in DOMAIN completions : completions[i] \in Messages /\ completions[i] # m
                                    /\ turn'[completions[i]] = "sent"
  <2>1. \A i \in DOMAIN completions : completions[i] \in Messages
    BY Fields
  <2> QED BY <2>1, <1>1, <1>2 DEF Tasks
<1>5. \A i \in DOMAIN completions' : turn'[completions'[i]] = "sent"
  <2>1. CASE completions' = completions
    BY <2>1, <1>4
  <2>2. CASE x = "sent" /\ completions' = Append(completions, m)
    <3>1. completions \in Seq(Messages)
      BY Fields
    <3>2. \A i \in DOMAIN completions' : (i \in DOMAIN completions /\ completions'[i] = completions[i])
                                         \/ completions'[i] = m
      BY <3>1, <2>2
    <3> QED BY <3>2, <2>2, <1>1, <1>4
  <2> QED BY <2>1, <2>2
<1>6. \A n \in Messages : drawn'[n] # <<>> => turn'[n] = "drain"
  BY <1>1 DEF Tasks
<1> QED BY <1>3, <1>5, <1>6 DEF Tasks

(* A turn goes on without touching the queue or the interjections. *)
LEMMA TurnGoesOn ==
  ASSUME Life, NEW m \in Messages,
         \/ TurnCommit(m) \/ TurnReturnEarly(m) \/ TurnGuard(m) \/ TurnBlocked(m)
         \/ TurnWake(m) \/ TurnEnd(m) \/ TurnSend(m)
  PROVE  Rest'
<1>1. /\ Alive(m) /\ UNCHANGED <<queue, running, gate, loop, buffer, aborting, drawn, book>>
      /\ committed' = committed \/ committed'
  BY DEF TurnCommit, TurnReturnEarly, TurnGuard, TurnBlocked, TurnWake, TurnEnd, TurnSend, state
<1>2. PICK x \in {"committed", "returned", "loop", "blocked", "sent"} :
        /\ turn' = [turn EXCEPT ![m] = x]
        /\ \/ pin' = pin /\ (x \in {"returned", "sent"} \/ turn[m] # "returned")
           \/ pin' = Unpinned(m) /\ x = "returned"
        /\ completions' = completions \/ (x = "sent" /\ completions' = Append(completions, m))
        /\ turn[m] # "drain"
  BY DEF TurnCommit, TurnReturnEarly, TurnGuard, TurnBlocked, TurnWake, TurnEnd, TurnSend, state
<1>3. UNCHANGED <<unsent, open, done, outcomes>>
  BY <1>1 DEF book
<1>4. drawn[m] = <<>>
  BY <1>2 DEF Life, Control, Tasks
<1>5. Tasks'
  BY <1>1, <1>2, <1>4, TasksTurn
<1>6. x \in Live \cup {"sent"}
  BY DEF Live
<1>7. Control'
  BY <1>1, <1>2, <1>3, <1>5, <1>6, ControlTurn
<1>8. Books'
  <2>1. Once(queue') /\ MessagesOf(queue') = MessagesOf(queue) /\ PromptRows(queue') = PromptRows(queue)
        /\ loop'.hand = loop.hand
    BY <1>1, BooksHas
  <2>2. Coming' = Coming
    BY <1>1 DEF Coming, At
  <2> QED BY <1>1, <1>3, <2>1, <2>2, BooksQuiet
<1>9. OneOutcome'
  <2>1. turn'[m] # "none" /\ turn[m] # "none" /\ \A n \in Messages : n # m => turn'[n] = turn[n]
    BY <1>1, <1>2, Fields, TurnAfter DEF Life, Alive, Live
  <2>2. done \subseteq Messages
    BY Fields DEF Life
  <2> QED BY <2>1, <2>2, <1>3, OutcomeKept
<1>10. SendsNow' /\ Swept' /\ StillOwned'
  BY <1>1, LoopStays
<1> QED BY <1>7, <1>8, <1>9, <1>10 DEF Rest, Endings

LEMMA Quiet ==
  ASSUME Life, UNCHANGED <<queue, running, gate, committed, pin, buffer, turn, aborting, drawn,
                           completions, loop, book>>
  PROVE  Rest'
<1>1. UNCHANGED <<unsent, open, done, outcomes>>
  BY DEF book
<1>2. Tasks'
  BY DEF Life, Control, Tasks
<1>3. Control'
  BY <1>1, <1>2, ControlQuiet
<1>4. Books'
  <2>1. Once(queue') /\ MessagesOf(queue') = MessagesOf(queue) /\ PromptRows(queue') = PromptRows(queue)
        /\ loop'.hand = loop.hand
    BY BooksHas
  <2>2. Coming' = Coming
    BY DEF Coming, At
  <2> QED BY <1>1, <2>1, <2>2, BooksQuiet
<1>5. OneOutcome'
  BY <1>1, OutcomeKept
<1>6. SendsNow' /\ Swept' /\ StillOwned'
  BY LoopStays
<1> QED BY <1>3, <1>4, <1>5, <1>6 DEF Rest, Endings

LEMMA SteerFront ==
  ASSUME Life, Steer, running # None, FrontMsg(queue) = running
  PROVE  FrontMsg(queue') = running
<1>1. queue \in Seq(Row)
  BY Fields DEF Life
<1>2. queue' \in Seq(Row) /\ (1 \notin Steered => SameHead(queue, queue'))
  BY <1>1, SteeredSet, WithoutRows DEF Steer
<1>3. queue # <<>> /\ queue[1].msg = running
  BY DEF FrontMsg
<1>4. 1 \notin Steered
  BY <1>3, SteeredSet
<1> QED BY <1>1, <1>2, <1>3, <1>4, FrontOfSameHead

LEMMA TurnWaitLife == ASSUME Life, NEW m \in Messages, TurnWait(m) PROVE Rest'
<1>1. /\ Alive(m) /\ turn[m] = "loop" /\ Steer /\ buffer' \in BufferAfterSteer(m)
      /\ turn' = [turn EXCEPT ![m] = "wait"]
      /\ UNCHANGED <<running, gate, committed, pin, aborting, drawn, completions, loop, unsent,
                     done, outcomes>>
  BY DEF TurnWait
<1> DEFINE X == {queue[i].msg : i \in Steered}
<1>2. /\ Once(queue') /\ MessagesOf(queue') = MessagesOf(queue) \ X
      /\ PromptRows(queue') = PromptRows(queue) \ X
      /\ X \subseteq MessagesOf(queue) /\ open' = open \ X
      /\ Once(buffer') /\ MessagesOf(buffer') = MessagesOf(buffer) \cup X
  BY <1>1, SteerPlaces
<1> HIDE DEF X
<1>3. drawn[m] = <<>>
  BY <1>1 DEF Life, Control, Tasks
<1>4. Tasks'
  BY <1>1, <1>3, TasksTurn
<1>5. running # None /\ FrontMsg(queue) = running => FrontMsg(queue') = running
  BY <1>1, SteerFront
<1>6. "wait" \in Live \cup {"sent"}
  BY DEF Live
<1>7. Control'
  BY <1>1, <1>4, <1>5, <1>6, ControlTurn
<1>8. Books'
  <2>1. Held' = Held /\ DrawnApart' /\ Coming' = Coming
    BY <1>1, BooksHas, HeldSame DEF Coming, At
  <2>2. Split(MessagesOf(queue'), MessagesOf(loop'.hand), MessagesOf(buffer'), Held', Coming',
              done', unsent')
    BY <1>1, <1>2, <2>1, BooksHas DEF Split
  <2>3. X \cap PromptRows(loop.hand) = {} /\ X \cap Coming = {}
    BY <1>2, BooksHas DEF Split
  <2>4. open' = PromptRows(queue') \cup PromptRows(loop'.hand) \cup Coming'
    BY <1>1, <1>2, <2>1, <2>3, BooksHas
  <2> QED BY <1>1, <1>2, <2>1, <2>2, <2>4, BooksHas, BooksFrom
<1>9. OneOutcome'
  <2>1. turn'[m] # "none" /\ turn[m] # "none" /\ \A n \in Messages : n # m => turn'[n] = turn[n]
    BY <1>1, Fields, TurnAfter DEF Life
  <2>2. done \subseteq Messages
    BY Fields DEF Life
  <2> QED BY <2>1, <2>2, <1>1, OutcomeKept
<1>10. SendsNow' /\ Swept' /\ StillOwned'
  <2>1. running = m /\ m # None
    BY <1>1, QueueAssumption DEF Life, Control, OneLiveTurn
  <2> QED BY <1>1, <1>2, <2>1, LoopStays
<1> QED BY <1>7, <1>8, <1>9, <1>10 DEF Rest, Endings

LEMMA TurnDrainLife == ASSUME Life, NEW m \in Messages, TurnDrain(m) PROVE Rest'
<1>1. /\ Alive(m) /\ turn[m] = "loop" /\ Steer /\ buffer' = <<>>
      /\ turn' = [turn EXCEPT ![m] = "drain"]
      /\ UNCHANGED <<running, gate, committed, pin, aborting, completions, loop, unsent,
                     done, outcomes>>
  BY DEF TurnDrain
<1>2. PICK e \in BufferAfterSteer(m) : drawn' = [drawn EXCEPT ![m] = e]
  BY DEF TurnDrain
<1> DEFINE X == {queue[i].msg : i \in Steered}
<1>3. /\ Once(queue') /\ MessagesOf(queue') = MessagesOf(queue) \ X
      /\ PromptRows(queue') = PromptRows(queue) \ X
      /\ X \subseteq MessagesOf(queue) /\ open' = open \ X
      /\ Once(e) /\ MessagesOf(e) = MessagesOf(buffer) \cup X
  BY <1>1, SteerPlaces
<1> HIDE DEF X
<1>4. drawn[m] = <<>> /\ MessagesOf(drawn[m]) = {}
  BY <1>1, EmptyPlace DEF Life, Control, Tasks
<1>5. drawn \in [Messages -> Seq(Entry)]
  BY Fields DEF Life
<1>6. Tasks'
  BY <1>1, <1>2, <1>5, TasksTurn
<1>7. running # None /\ FrontMsg(queue) = running => FrontMsg(queue') = running
  BY <1>1, SteerFront
<1>8. "drain" \in Live \cup {"sent"}
  BY DEF Live
<1>9. Control'
  BY <1>1, <1>6, <1>7, <1>8, ControlTurn
<1>10. Books'
  <2>1. MessagesOf(e) \cap Held = {}
    BY <1>3, BooksHas DEF Split
  <2>2. Held' = Held \cup MessagesOf(e) /\ DrawnApart'
    BY <1>2, <1>3, <1>4, <1>5, <2>1, BooksHas, HeldChange
  <2>3. Coming' = Coming
    BY <1>1 DEF Coming, At
  <2>4. Once(buffer') /\ MessagesOf(buffer') = {}
    BY <1>1, EmptyPlace
  <2>5. Split(MessagesOf(queue'), MessagesOf(loop'.hand), MessagesOf(buffer'), Held', Coming',
              done', unsent')
    BY <1>1, <1>3, <2>2, <2>3, <2>4, BooksHas DEF Split
  <2>6. X \cap PromptRows(loop.hand) = {} /\ X \cap Coming = {}
    BY <1>3, BooksHas DEF Split
  <2>7. open' = PromptRows(queue') \cup PromptRows(loop'.hand) \cup Coming'
    BY <1>1, <1>3, <2>3, <2>6, BooksHas
  <2> QED BY <1>1, <1>3, <2>2, <2>4, <2>5, <2>7, BooksHas, BooksFrom
<1>11. OneOutcome'
  <2>1. turn'[m] # "none" /\ turn[m] # "none" /\ \A n \in Messages : n # m => turn'[n] = turn[n]
    BY <1>1, Fields, TurnAfter DEF Life
  <2>2. done \subseteq Messages
    BY Fields DEF Life
  <2> QED BY <2>1, <2>2, <1>1, OutcomeKept
<1>12. SendsNow' /\ Swept' /\ StillOwned'
  <2>1. running = m /\ m # None
    BY <1>1, QueueAssumption DEF Life, Control, OneLiveTurn
  <2> QED BY <1>1, <1>3, <2>1, LoopStays
<1> QED BY <1>9, <1>10, <1>11, <1>12 DEF Rest, Endings

LEMMA TurnSubmitLife == ASSUME Life, NEW m \in Messages, TurnSubmit(m) PROVE Rest'
<1>1. /\ Alive(m) /\ turn[m] = "drain" /\ turn' = [turn EXCEPT ![m] = "loop"]
      /\ done' = done \cup MessagesOf(drawn[m]) /\ drawn' = [drawn EXCEPT ![m] = <<>>]
      /\ UNCHANGED <<queue, running, gate, committed, pin, buffer, aborting, completions, loop,
                     unsent, open, outcomes>>
  BY DEF TurnSubmit, state
<1>2. drawn \in [Messages -> Seq(Entry)]
  BY Fields DEF Life
<1>3. Tasks'
  BY <1>1, <1>2, TasksTurn
<1>4. "loop" \in Live \cup {"sent"}
  BY DEF Live
<1>5. Control'
  BY <1>1, <1>3, <1>4, ControlTurn
<1>6. Held' = Held \ MessagesOf(drawn[m]) /\ MessagesOf(drawn[m]) \subseteq Held /\ DrawnApart'
  BY <1>1, <1>2, EmptyPlace, BooksHas, HeldChange
<1>7. Books'
  <2>1. Coming' = Coming
    BY <1>1 DEF Coming, At
  <2>2. Split(MessagesOf(queue'), MessagesOf(loop'.hand), MessagesOf(buffer'), Held', Coming',
              done', unsent')
    BY <1>1, <1>6, <2>1, BooksHas DEF Split
  <2> QED BY <1>1, <1>6, <2>1, <2>2, BooksHas, BooksFrom
<1>8. OneOutcome'
  <2>1. turn'[m] # "none" /\ turn[m] # "none" /\ \A n \in Messages : n # m => turn'[n] = turn[n]
    BY <1>1, Fields, TurnAfter DEF Life
  <2>2. done \subseteq Messages
    BY Fields DEF Life
  <2>3. \A n \in MessagesOf(drawn[m]) : n \in Messages /\ turn[n] = "none"
    <3>1. Held \subseteq Messages
      BY BooksHas DEF Split
    <3> QED BY <3>1, <1>6, NotYetRun
  <2> QED BY <2>1, <2>2, <2>3, <1>1, OutcomeKept
<1>9. SendsNow' /\ Swept' /\ StillOwned'
  BY <1>1, LoopStays
<1> QED BY <1>5, <1>7, <1>8, <1>9 DEF Rest, Endings

(* The restore guard puts the turn's interjections back. *)
LEMMA BooksRestore ==
  ASSUME Life, NEW m \in Messages, buffer' = Restored(m), drawn' = [drawn EXCEPT ![m] = <<>>],
         UNCHANGED <<queue, loop, done, unsent, open>>
  PROVE  Books'
<1>1. drawn \in [Messages -> Seq(Entry)] /\ drawn[m] \in Seq(Entry) /\ buffer \in Seq(Entry)
  BY Fields DEF Life
<1>2. /\ Held' = Held \ MessagesOf(drawn[m]) /\ MessagesOf(drawn[m]) \subseteq Held
      /\ Once(drawn[m]) /\ DrawnApart'
  BY <1>1, EmptyPlace, BooksHas, HeldChange
<1>3. MessagesOf(drawn[m]) \cap MessagesOf(buffer) = {}
  BY <1>2, BooksHas DEF Split
<1>4. Once(buffer') /\ MessagesOf(buffer') = MessagesOf(drawn[m]) \cup MessagesOf(buffer)
  BY <1>1, <1>2, <1>3, BooksHas, ConcatPlaces DEF Restored
<1>5. Coming' = Coming
  BY DEF Coming, At
<1>6. Split(MessagesOf(queue'), MessagesOf(loop'.hand), MessagesOf(buffer'), Held', Coming',
            done', unsent')
  BY <1>2, <1>4, <1>5, BooksHas DEF Split
<1> QED BY <1>2, <1>4, <1>5, <1>6, BooksHas, BooksFrom

LEMMA TurnUnsubmittedLife == ASSUME Life, NEW m \in Messages, TurnUnsubmitted(m) PROVE Rest'
<1>1. /\ Alive(m) /\ turn[m] = "drain" /\ turn' = [turn EXCEPT ![m] = "loop"]
      /\ buffer' = Restored(m) /\ drawn' = [drawn EXCEPT ![m] = <<>>]
      /\ UNCHANGED <<queue, running, gate, committed, pin, aborting, completions, loop,
                     unsent, open, done, outcomes>>
  BY DEF TurnUnsubmitted, state, book
<1>2. drawn \in [Messages -> Seq(Entry)]
  BY Fields DEF Life
<1>3. Tasks'
  BY <1>1, <1>2, TasksTurn
<1>4. "loop" \in Live \cup {"sent"}
  BY DEF Live
<1>5. Control'
  BY <1>1, <1>3, <1>4, ControlTurn
<1>6. Books'
  BY <1>1, BooksRestore
<1>7. OneOutcome'
  <2>1. turn'[m] # "none" /\ turn[m] # "none" /\ \A n \in Messages : n # m => turn'[n] = turn[n]
    BY <1>1, Fields, TurnAfter DEF Life
  <2>2. done \subseteq Messages
    BY Fields DEF Life
  <2> QED BY <2>1, <2>2, <1>1, OutcomeKept
<1>8. SendsNow' /\ Swept' /\ StillOwned'
  BY <1>1, LoopStays
<1> QED BY <1>5, <1>6, <1>7, <1>8 DEF Rest, Endings

LEMMA TurnDropLife == ASSUME Life, NEW m \in Messages, TurnDrop(m) PROVE Rest'
<1>1. /\ m \in aborting /\ aborting' = aborting \ {m} /\ turn' = [turn EXCEPT ![m] = "gone"]
      /\ buffer' = Restored(m) /\ drawn' = [drawn EXCEPT ![m] = <<>>]
      /\ UNCHANGED <<queue, running, gate, committed, completions, loop, unsent, open, done,
                     outcomes>>
  BY DEF TurnDrop, state, book
<1>2. turn'[m] = "gone" /\ \A n \in Messages : n # m => turn'[n] = turn[n]
  BY <1>1, Fields, TurnAfter DEF Life
<1>3. turn[m] # "none" /\ turn[m] # "sent"
  BY <1>1 DEF Life, Control, Tasks, Live
<1>4. Tasks'
  <2>1. \A n \in aborting' : turn'[n] \in Live
    BY <1>1, <1>2, Fields DEF Life, Control, Tasks
  <2>2. \A i \in DOMAIN completions : turn'[completions[i]] = "sent"
    <3>1. \A i \in DOMAIN completions : completions[i] \in Messages
      BY Fields DEF Life
    <3> QED BY <3>1, <1>2, <1>3 DEF Life, Control, Tasks
  <2>3. \A n \in Messages : drawn'[n] # <<>> => turn'[n] = "drain"
    <3>1. drawn'[m] = <<>> /\ \A n \in Messages : n # m => drawn'[n] = drawn[n]
      BY <1>1, Fields DEF Life
    <3> QED BY <3>1, <1>2 DEF Life, Control, Tasks
  <2> QED BY <1>1, <2>1, <2>2, <2>3 DEF Tasks
<1>5. Control'
  BY <1>4, ControlDrop
<1>6. Books'
  BY <1>1, BooksRestore
<1>7. OneOutcome'
  <2>1. done \subseteq Messages
    BY Fields DEF Life
  <2> QED BY <2>1, <1>1, <1>2, <1>3, OutcomeKept
<1>8. SendsNow' /\ Swept' /\ StillOwned'
  BY <1>1, LoopStays
<1> QED BY <1>5, <1>6, <1>7, <1>8 DEF Rest, Endings

LEMMA TurnStepLife == ASSUME Life, NEW m \in Messages, TurnStep(m) \/ TurnDrop(m) PROVE Rest'
<1>1. CASE TurnOutput(m)
  BY <1>1, Quiet DEF TurnOutput, turns
<1>2. CASE \/ TurnCommit(m) \/ TurnReturnEarly(m) \/ TurnGuard(m) \/ TurnBlocked(m)
           \/ TurnWake(m) \/ TurnEnd(m) \/ TurnSend(m)
  BY <1>2, TurnGoesOn
<1>3. CASE TurnWait(m) \/ TurnDrain(m)
  BY <1>3, TurnWaitLife, TurnDrainLife
<1>4. CASE TurnSubmit(m) \/ TurnUnsubmitted(m) \/ TurnDrop(m)
  BY <1>4, TurnSubmitLife, TurnUnsubmittedLife, TurnDropLife
<1> QED BY <1>1, <1>2, <1>3, <1>4 DEF TurnStep

-----------------------------------------------------------------------------
(* Commands.  The loop is idle, and has neither a lease nor rows in hand.    *)

LEMMA IdleLoop ==
  ASSUME Life, At("idle") \/ At("queue") \/ At("flush") \/ At("claim") \/ At("rewind")
                 \/ At("settle") \/ At("start") \/ At("promote") \/ At("combine")
  PROVE  /\ loop.lease = None /\ loop.hand = <<>> /\ MessagesOf(loop.hand) = {}
         /\ (~At("queue") => Coming = {}) /\ (running # None => gate = None)
<1>1. loop.lease = None
  BY DEF At, Life, Control, Leased
<1>2. loop.at \notin {"tail", "rewound"}
  BY DEF At
<1> QED BY <1>1, <1>2, NoHand DEF Life, Control, Leased, Coming

(* A handler that leaves turns and gate alone is over, or begins, and what   *)
(* it moved is on the books.                                                 *)
LEMMA HandlerReturns ==
  ASSUME Life, loop.lease = None, loop.hand = <<>>,
         UNCHANGED <<running, gate, turn, aborting, pin, drawn, completions, outcomes>>,
         FreshLoop, loop'.at # "closed",
         loop'.kind = "sendnow" /\ loop'.at \in {"flush", "claim", "teardown", "sweep"}
           => running # None /\ committed',
         done \subseteq done', \A m \in done' \ done : turn[m] = "none",
         Books'
  PROVE  Rest'
<1>1. Tasks'
  BY DEF Life, Control, Tasks
<1>2. MessagesOf(loop.hand) = {}
  BY EmptyPlace
<1>3. Control'
  BY <1>1, <1>2, ControlFresh
<1>4. OneOutcome'
  BY OutcomeKept
<1>5. SendsNow'
  BY DEF SendsNow
<1>6. Swept' /\ StillOwned'
  BY DEF Life, Endings, Swept, StillOwned, At, FreshLoop
<1> QED BY <1>3, <1>4, <1>5, <1>6 DEF Rest, Endings

LEMMA PromptLife == ASSUME Life, NEW p \in Prompts, NEW now \in BOOLEAN, Prompt(p, now) PROVE Rest'
<1>1. /\ At("idle") /\ p \in unsent /\ unsent' = unsent \ {p} /\ open' = open \cup {p}
      /\ UNCHANGED <<queue, running, gate, committed, pin, buffer, turn, aborting, drawn,
                     completions, done, outcomes>>
  BY DEF Prompt, turns
<1>2. /\ loop'.at = "queue" /\ loop'.msg = p /\ loop'.lease = None /\ loop'.hand = <<>>
      /\ loop'.pinned = None
  BY DEF Prompt, Idle
<1>3. loop.lease = None /\ loop.hand = <<>> /\ MessagesOf(loop.hand) = {} /\ Coming = {}
  BY <1>1, IdleLoop DEF At
<1>4. Coming' = {p} /\ MessagesOf(loop'.hand) = {} /\ PromptRows(loop'.hand) = {} /\ Once(loop'.hand)
  BY <1>2, EmptyPlace DEF Coming, At
<1>5. PromptRows(loop.hand) = {}
  BY <1>3, EmptyPlace
<1>6. Books'
  <2>1. Held' = Held /\ DrawnApart'
    BY <1>1, BooksHas, HeldSame
  <2>2. Split(MessagesOf(queue'), MessagesOf(loop'.hand), MessagesOf(buffer'), Held', Coming',
              done', unsent')
    BY <1>1, <1>3, <1>4, <2>1, BooksHas DEF Split
  <2>3. open' = PromptRows(queue') \cup PromptRows(loop'.hand) \cup Coming'
    BY <1>1, <1>3, <1>4, <1>5, BooksHas
  <2> QED BY <1>1, <1>4, <2>1, <2>2, <2>3, BooksHas, BooksFrom
<1>7. FreshLoop /\ loop'.at # "closed"
  BY <1>2 DEF FreshLoop
<1> QED BY <1>1, <1>2, <1>3, <1>6, <1>7, HandlerReturns

LEMMA InterjectLife == ASSUME Life, NEW m \in Interjections, Interject(m) PROVE Rest'
<1>1. /\ At("idle") /\ m \in unsent /\ unsent' = unsent \ {m}
      /\ UNCHANGED <<running, gate, committed, pin, turn, aborting, drawn, completions, open,
                     done, outcomes>>
  BY DEF Interject, turns
<1>2. loop.lease = None /\ loop.hand = <<>> /\ Coming = {}
  BY <1>1, IdleLoop DEF At
<1>3. m \in Messages /\ m \notin MessagesOf(queue) /\ m \notin MessagesOf(buffer)
  BY <1>1, SchedulerAssumption, BooksHas DEF Split
<1>4. CASE pin # None
  <2>1. buffer' = Append(buffer, [msg |-> m, aim |-> pin]) /\ UNCHANGED <<queue, loop>>
    BY <1>4 DEF Interject
  <2>2. PICK e : e = [msg |-> m, aim |-> pin]
    OBVIOUS
  <2>3. e \in Entry /\ e.msg = m
    <3>1. pin \in Messages
      BY <1>4, Fields DEF Life
    <3> QED BY <3>1, <2>2, <1>3 DEF Entry
  <2>4. buffer \in Seq(Entry)
    BY Fields DEF Life
  <2>5. Once(buffer') /\ MessagesOf(buffer') = MessagesOf(buffer) \cup {m}
    BY <2>1, <2>2, <2>3, <2>4, <1>3, BooksHas, AppendPlaces
  <2>6. Books'
    <3>1. Held' = Held /\ DrawnApart' /\ Coming' = Coming
      BY <1>1, <2>1, BooksHas, HeldSame DEF Coming, At
    <3>2. Split(MessagesOf(queue'), MessagesOf(loop'.hand), MessagesOf(buffer'), Held', Coming',
                done', unsent')
      BY <1>1, <2>1, <2>5, <3>1, BooksHas DEF Split
    <3> QED BY <1>1, <2>1, <2>5, <3>1, <3>2, BooksHas, BooksFrom
  <2>7. Tasks'
    BY <1>1 DEF Life, Control, Tasks
  <2>8. Control'
    BY <1>1, <2>1, <2>7, ControlQuiet
  <2>9. OneOutcome'
    BY <1>1, OutcomeKept
  <2>10. SendsNow' /\ Swept' /\ StillOwned'
    BY <1>1, <2>1, LoopStays
  <2> QED BY <2>6, <2>8, <2>9, <2>10 DEF Rest, Endings
<1>5. CASE pin = None
  <2> DEFINE e == <<[msg |-> m]>>
  <2>1. queue' = WithFallbacks(queue, running, e) /\ Return("start") /\ buffer' = buffer
    BY <1>5 DEF Interject
  <2>2. Len(e) = 1 /\ DOMAIN e = 1..1 /\ \A i \in 1..1 : e[i].msg = m
    OBVIOUS
  <2>3. Once(e) /\ MessagesOf(e) = {m}
    BY <2>2 DEF Once, MessagesOf
  <2> HIDE DEF e
  <2>4. queue \in Seq(Row)
    BY Fields DEF Life
  <2>5. /\ Once(queue') /\ MessagesOf(queue') = MessagesOf(queue) \cup {m}
        /\ PromptRows(queue') = PromptRows(queue)
    <3>1. 1 \in Nat /\ MessagesOf(queue) \cap MessagesOf(e) = {} /\ \A i \in 1..1 : e[i].msg \in Messages
      BY <1>3, <2>2, <2>3
    <3> QED BY <2>1, <2>2, <2>3, <2>4, <3>1, BooksHas, FallbackPlaces
  <2>6. /\ loop'.at = "start" /\ loop'.kind = "none" /\ loop'.lease = None /\ loop'.hand = <<>>
        /\ loop'.pinned = None
    BY <2>1, Returns
  <2>7. FreshLoop /\ loop'.at # "closed" /\ Coming' = {}
    BY <2>6 DEF FreshLoop, Coming, At
  <2>8. Books'
    BY <1>1, <1>2, <2>1, <2>5, <2>6, <2>7, BooksArrive
  <2> QED BY <1>1, <1>2, <2>6, <2>7, <2>8, HandlerReturns
<1> QED BY <1>4, <1>5

LEMMA CancelLife ==
  ASSUME Life, NEW kind \in {"keep", "stop", "legacy", "named"}, NEW name, Cancel(kind, name)
  PROVE  Rest'
<1>1. /\ At("idle") /\ buffer' = <<>> /\ done' = done \cup MessagesOf(buffer)
      /\ UNCHANGED <<queue, running, gate, committed, pin, turn, aborting, drawn, completions,
                     unsent, open, outcomes>>
  BY DEF Cancel, state, turns
<1>2. /\ loop'.lease = None /\ loop'.hand = <<>> /\ loop'.pinned = None /\ loop'.kind = kind
      /\ loop'.at \in {"rewind", "teardown", "claim"}
      /\ loop'.at = "claim" => kind \notin {"named", "legacy"}
      /\ loop'.at = "rewind" => kind = "named"
  BY DEF Cancel, Idle
<1>3. loop.lease = None /\ loop.hand = <<>> /\ Coming = {}
  BY <1>1, IdleLoop DEF At
<1>4. FreshLoop /\ loop'.at # "closed" /\ loop'.kind # "sendnow" /\ Coming' = {}
  BY <1>2 DEF FreshLoop, Coming, At
<1>5. Books'
  <2>1. Held' = Held /\ DrawnApart'
    BY <1>1, BooksHas, HeldSame
  <2>2. Once(buffer') /\ MessagesOf(buffer') = {}
    BY <1>1, EmptyPlace
  <2>3. Split(MessagesOf(queue'), MessagesOf(loop'.hand), MessagesOf(buffer'), Held', Coming',
              done', unsent')
    BY <1>1, <1>2, <1>3, <1>4, <2>1, <2>2, BooksHas DEF Split
  <2> QED BY <1>1, <1>2, <1>3, <1>4, <2>1, <2>2, <2>3, BooksHas, BooksFrom
<1>6. \A m \in done' \ done : turn[m] = "none"
  <2>1. MessagesOf(buffer) \subseteq Messages
    BY Fields, EntryMessages DEF Life
  <2> QED BY <1>1, <2>1, NotYetRun
<1> QED BY <1>1, <1>2, <1>3, <1>4, <1>5, <1>6, HandlerReturns

(* A command or loop step that only returns, to a label without a lease. *)
LEMMA JustReturns ==
  ASSUME Life, loop.lease = None, loop.hand = <<>>, ~At("queue"), FreshLoop,
         loop'.at \notin {"closed", "queue"},
         loop'.kind = "sendnow" /\ loop'.at \in {"flush", "claim", "teardown", "sweep"}
           => running # None /\ committed',
         UNCHANGED <<running, gate, pin, buffer, turn, aborting, drawn, completions, book>>,
         Once(queue'), MessagesOf(queue') = MessagesOf(queue), PromptRows(queue') = PromptRows(queue)
  PROVE  Rest'
<1>1. UNCHANGED <<unsent, open, done, outcomes>>
  BY DEF book
<1>2. Coming = {} /\ Coming' = {} /\ loop'.hand = loop.hand
  BY DEF Coming, At, FreshLoop
<1>3. Books'
  BY <1>1, <1>2, BooksQuiet
<1> QED BY <1>1, <1>3, HandlerReturns

LEMMA ShutdownLife == ASSUME Life, Shutdown PROVE Rest'
<1>1. /\ At("idle") /\ loop' = [Idle EXCEPT !.at = "claim", !.kind = "shutdown"]
      /\ UNCHANGED <<queue, running, gate, committed, pin, buffer, turn, aborting, drawn,
                     completions, book>>
  BY DEF Shutdown, state, turns
<1>2. FreshLoop /\ loop'.at = "claim" /\ loop'.kind = "shutdown"
  BY <1>1 DEF FreshLoop, Idle
<1>3. loop.lease = None /\ loop.hand = <<>> /\ ~At("queue")
  BY <1>1, IdleLoop DEF At
<1> QED BY <1>1, <1>2, <1>3, BooksHas, JustReturns

(* Rows other than the running one are removed and the promoter is kicked. *)
LEMMA RowsGone ==
  ASSUME Life, loop.lease = None, loop.hand = <<>>, ~At("queue"),
         NEW S \in SUBSET {i \in DOMAIN queue : queue[i].msg # running}, RowRemoved(S),
         Return("start"),
         UNCHANGED <<running, gate, pin, buffer, turn, aborting, drawn, completions, unsent, outcomes>>
  PROVE  Rest'
<1>1. FreshLoop /\ loop'.at = "start" /\ loop'.kind = "none" /\ loop'.hand = loop.hand
  BY Returns DEF FreshLoop
<1>2. Coming' = Coming
  BY <1>1 DEF Coming, At
<1>3. S \in SUBSET (DOMAIN queue)
  OBVIOUS
<1>4. Books'
  BY <1>1, <1>2, <1>3, BooksRemove
<1>5. done' = done \cup {queue[i].msg : i \in S}
  BY DEF RowRemoved, Dispose
<1>6. \A i \in S : turn[queue[i].msg] = "none"
  <2>1. queue \in Seq(Row)
    BY Fields DEF Life
  <2>2. \A i \in S : queue[i].msg \in Messages /\ queue[i].msg \in MessagesOf(queue)
    BY <2>1, <1>3, RowMessage
  <2> QED BY <2>2, NotYetRun
<1>7. \A m \in done' \ done : turn[m] = "none"
  BY <1>5, <1>6
<1> QED BY <1>1, <1>4, <1>5, <1>7, HandlerReturns

LEMMA RemoveRowLife ==
  ASSUME Life, NEW p \in Prompts, NEW fresh \in BOOLEAN, RemoveRow(p, fresh)
  PROVE  Rest'
<1> DEFINE S == IF fresh THEN EditableRows(p) ELSE {}
<1>1. /\ At("idle") /\ RowRemoved(S) /\ Return("start")
      /\ UNCHANGED <<running, gate, pin, buffer, turn, aborting, drawn, completions, unsent, outcomes>>
  BY DEF RemoveRow, turns
<1>2. S \in SUBSET {i \in DOMAIN queue : queue[i].msg # running}
  BY DEF EditableRows, Positions
<1> HIDE DEF S
<1>3. loop.lease = None /\ loop.hand = <<>> /\ ~At("queue")
  BY <1>1, IdleLoop DEF At
<1> QED BY <1>1, <1>2, <1>3, RowsGone

LEMMA ClearRowsLife == ASSUME Life, NEW owner, ClearRows(owner) PROVE Rest'
<1> DEFINE S == { i \in DOMAIN queue : /\ IsEditable(queue[i]) /\ queue[i].msg # running
                                       /\ owner \in {None, OwnerOf(queue[i])} }
<1>1. /\ At("idle") /\ RowRemoved(S) /\ Return("start")
      /\ UNCHANGED <<running, gate, pin, buffer, turn, aborting, drawn, completions, unsent, outcomes>>
  BY DEF ClearRows, turns
<1>2. S \in SUBSET {i \in DOMAIN queue : queue[i].msg # running}
  OBVIOUS
<1> HIDE DEF S
<1>3. loop.lease = None /\ loop.hand = <<>> /\ ~At("queue")
  BY <1>1, IdleLoop DEF At
<1> QED BY <1>1, <1>2, <1>3, RowsGone

LEMMA RewindBehindLife == ASSUME Life, RewindBehind PROVE Rest'
<1> DEFINE S == IF running = loop.msg THEN {} ELSE Positions(queue, loop.msg)
<1>1. /\ At("rewind") /\ RowRemoved(S) /\ Return("start")
      /\ UNCHANGED <<running, gate, pin, buffer, turn, aborting, drawn, completions, unsent, outcomes>>
  BY DEF RewindBehind, turns
<1>2. S \in SUBSET {i \in DOMAIN queue : queue[i].msg # running}
  BY DEF Positions
<1> HIDE DEF S
<1>3. loop.lease = None /\ loop.hand = <<>> /\ ~At("queue")
  BY <1>1, IdleLoop DEF At
<1> QED BY <1>1, <1>2, <1>3, RowsGone

LEMMA ReorderRowsLife == ASSUME Life, ReorderRows PROVE Rest'
<1>1. /\ At("idle") /\ queue' \in Reorderings(queue, running) /\ Return("start")
      /\ UNCHANGED <<running, gate, pin, buffer, turn, aborting, drawn, completions, book>>
  BY DEF ReorderRows, turns
<1>2. queue \in Seq(Row)
  BY Fields DEF Life
<1>3. Once(queue') /\ MessagesOf(queue') = MessagesOf(queue) /\ PromptRows(queue') = PromptRows(queue)
  BY <1>1, <1>2, BooksHas, ReorderPlaces
<1>4. loop.lease = None /\ loop.hand = <<>> /\ ~At("queue")
  BY <1>1, IdleLoop DEF At
<1>5. FreshLoop /\ loop'.at = "start" /\ loop'.kind = "none"
  BY <1>1, Returns DEF FreshLoop
<1> QED BY <1>1, <1>3, <1>4, <1>5, JustReturns

(* Editing, and releasing a hold, leave the queue; holding leaves the loop.  *)
LEMMA HoldsLife ==
  ASSUME Life, NEW p \in Prompts,
         \/ \E blank \in BOOLEAN : EditRow(p, blank)
         \/ HoldRow(p) \/ ReleaseRow(p) \/ HoldAges(p)
  PROVE  Rest'
<1>1. CASE HoldRow(p) \/ HoldAges(p)
  BY <1>1, Quiet DEF HoldRow, HoldAges, turns
<1>2. CASE \/ \E blank \in BOOLEAN : EditRow(p, blank)
           \/ ReleaseRow(p)
  <2>1. /\ At("idle") /\ Return("start")
        /\ UNCHANGED <<queue, running, gate, pin, buffer, turn, aborting, drawn, completions, book>>
    BY <1>2 DEF EditRow, ReleaseRow, turns
  <2>2. loop.lease = None /\ loop.hand = <<>> /\ ~At("queue")
    BY <2>1, IdleLoop DEF At
  <2>3. FreshLoop /\ loop'.at = "start" /\ loop'.kind = "none"
    BY <2>1, Returns DEF FreshLoop
  <2> QED BY <2>1, <2>2, <2>3, BooksHas, JustReturns
<1> QED BY <1>1, <1>2

(* A send-now that cancels found a committed turn: the running row is the    *)
(* front of the queue when the loop serves a command.                        *)
LEMMA SendNowGoes ==
  ASSUME Life, loop.lease = None, AfterSendNow
  PROVE  /\ FreshLoop /\ loop'.at \in {"flush", "start"}
         /\ loop'.kind = "sendnow" => running # None /\ committed
<1>1. CASE SendNowCancels
  <2>1. loop' = [Idle EXCEPT !.at = "flush", !.kind = "sendnow"]
    BY <1>1 DEF AfterSendNow
  <2>2. running # None /\ ~FrontAwaitingCommit
    BY <1>1 DEF SendNowCancels
  <2>3. queue # <<>> /\ queue[1].msg = running
    BY <2>2, RunningRow
  <2>4. committed
    BY <2>2, <2>3 DEF FrontAwaitingCommit
  <2> QED BY <2>1, <2>2, <2>4 DEF FreshLoop, Idle
<1>2. CASE ~SendNowCancels
  BY <1>2, Returns DEF AfterSendNow, FreshLoop
<1> QED BY <1>1, <1>2

LEMMA SlotRange ==
  ASSUME NEW q \in Seq(Row), NEW m, NEW i \in SendNowSlots(q, m)
  PROVE  i \in 1..(Len(q) + 1)
<1>1. BehindFront(q, m) \in 1..(Len(q) + 1) /\ i \in BehindFront(q, m)..(Len(q) + 1)
  BY BehindFrontRange DEF SendNowSlots
<1> QED BY <1>1

LEMMA SendRowNowLife ==
  ASSUME Life, NEW p \in Prompts, NEW fresh \in BOOLEAN, SendRowNow(p, fresh)
  PROVE  Rest'
<1>1. /\ At("idle")
      /\ UNCHANGED <<running, gate, committed, pin, buffer, turn, aborting, drawn, completions, book>>
  BY DEF SendRowNow, turns
<1>2. loop.lease = None /\ loop.hand = <<>> /\ ~At("queue")
  BY <1>1, IdleLoop DEF At
<1>3. CASE fresh /\ EditableRows(p) # {}
  <2> DEFINE S == EditableRows(p)
             e == [msg |-> p, kind |-> "prompt", sendNow |-> TRUE]
  <2>0. PICK rest \in Without(queue, S) :
          \E i \in SendNowSlots(rest, running) : queue' = InsertAt(rest, i, e)
    BY <1>3 DEF SendRowNow
  <2>1. PICK i \in SendNowSlots(rest, running) : queue' = InsertAt(rest, i, e)
    BY <2>0
  <2>2. AfterSendNow
    BY <1>3 DEF SendRowNow
  <2>3. queue \in Seq(Row) /\ S \in SUBSET (DOMAIN queue)
    BY Fields DEF Life, EditableRows, Positions
  <2>4. {queue[j].msg : j \in S} = {p}
    <3>1. \A j \in S : queue[j].msg = p
      BY DEF EditableRows, Positions
    <3> QED BY <3>1, <1>3
  <2>5. p \in PromptRows(queue) /\ p \in MessagesOf(queue)
    <3>1. PICK j \in S : TRUE
      BY <1>3
    <3>2. j \in DOMAIN queue /\ queue[j].msg = p /\ queue[j].kind = "prompt"
      BY <3>1 DEF EditableRows, Positions, IsEditable
    <3> QED BY <3>2 DEF PromptRows, MessagesOf
  <2>6. e \in Row /\ e.msg = p /\ e.kind = "prompt"
    BY QueueAssumption DEF Row
  <2> HIDE DEF S, e
  <2>7. /\ Once(rest) /\ MessagesOf(rest) = MessagesOf(queue) \ {p}
        /\ PromptRows(rest) = PromptRows(queue) \ {p} /\ rest \in Seq(Row)
    BY <2>1, <2>3, <2>4, BooksHas, WithoutPlaces, WithoutRows
  <2>8. i \in 1..(Len(rest) + 1)
    BY <2>1, <2>7, SlotRange
  <2>9. /\ Once(queue') /\ MessagesOf(queue') = MessagesOf(rest) \cup {p}
        /\ PromptRows(queue') = PromptRows(rest) \cup {p}
    BY <2>1, <2>6, <2>7, <2>8, InsertPlaces
  <2>10. MessagesOf(queue') = MessagesOf(queue) /\ PromptRows(queue') = PromptRows(queue)
    BY <2>5, <2>7, <2>9
  <2>11. /\ FreshLoop /\ loop'.at \in {"flush", "start"}
         /\ loop'.kind = "sendnow" => running # None /\ committed
    BY <1>2, <2>2, SendNowGoes
  <2> QED BY <1>1, <1>2, <2>9, <2>10, <2>11, JustReturns
<1>4. CASE ~(fresh /\ EditableRows(p) # {})
  <2>1. Return("start") /\ queue' = queue
    BY <1>4 DEF SendRowNow
  <2>2. FreshLoop /\ loop'.at = "start" /\ loop'.kind = "none"
    BY <2>1, Returns DEF FreshLoop
  <2> QED BY <1>1, <1>2, <2>1, <2>2, BooksHas, JustReturns
<1> QED BY <1>3, <1>4

-----------------------------------------------------------------------------
(* The loop's steps without a lease.                                         *)

LEMMA PromptInHand ==
  ASSUME Life, At("queue")
  PROVE  /\ loop.msg \in Messages /\ loop.msg \notin MessagesOf(queue)
         /\ loop.lease = None /\ loop.hand = <<>> /\ MessagesOf(loop.hand) = {}
<1>1. loop.msg \in Messages
  BY QueueAssumption DEF Life, IInv, InHand
<1>2. loop.msg \in Coming
  BY DEF Coming
<1> QED BY <1>1, <1>2, IdleLoop, BooksHas DEF Split

LEMMA QueueSendNowLife == ASSUME Life, QueueSendNow PROVE Rest'
<1> DEFINE e == [msg |-> loop.msg, kind |-> "prompt", sendNow |-> TRUE]
<1>1. /\ At("queue") /\ AfterSendNow
      /\ UNCHANGED <<running, gate, committed, pin, buffer, turn, aborting, drawn, completions,
                     unsent, open, done, outcomes>>
  BY DEF QueueSendNow, turns, book
<1>2. PICK i \in SendNowSlots(queue, running) : queue' = InsertAt(queue, i, e)
  BY DEF QueueSendNow
<1>3. /\ loop.msg \in Messages /\ loop.msg \notin MessagesOf(queue)
      /\ loop.lease = None /\ loop.hand = <<>>
  BY <1>1, PromptInHand
<1>4. e \in Row /\ e.msg = loop.msg /\ e.kind = "prompt"
  BY <1>3 DEF Row
<1> HIDE DEF e
<1>5. queue \in Seq(Row) /\ i \in 1..(Len(queue) + 1)
  BY <1>2, Fields, SlotRange DEF Life
<1>6. /\ Once(queue') /\ MessagesOf(queue') = MessagesOf(queue) \cup {loop.msg}
      /\ PromptRows(queue') = PromptRows(queue) \cup {loop.msg}
  BY <1>2, <1>3, <1>4, <1>5, BooksHas, InsertPlaces
<1>7. /\ FreshLoop /\ loop'.at \in {"flush", "start"}
      /\ loop'.kind = "sendnow" => running # None /\ committed
  BY <1>1, <1>3, SendNowGoes
<1>8. Books'
  BY <1>1, <1>6, <1>7, BooksQueue DEF FreshLoop
<1> QED BY <1>1, <1>3, <1>7, <1>8, HandlerReturns

LEMMA QueueBehindLife == ASSUME Life, QueueBehind PROVE Rest'
<1> DEFINE e == [msg |-> loop.msg, kind |-> "prompt", sendNow |-> FALSE]
<1>1. /\ At("queue") /\ Return("start") /\ queue' = Append(queue, e)
      /\ UNCHANGED <<running, gate, committed, pin, buffer, turn, aborting, drawn, completions,
                     unsent, open, done, outcomes>>
  BY DEF QueueBehind, turns, book
<1>2. /\ loop.msg \in Messages /\ loop.msg \notin MessagesOf(queue)
      /\ loop.lease = None /\ loop.hand = <<>>
  BY <1>1, PromptInHand
<1>3. e \in Row /\ e.msg = loop.msg /\ e.kind = "prompt"
  BY <1>2 DEF Row
<1> HIDE DEF e
<1>4. queue \in Seq(Row)
  BY Fields DEF Life
<1>5. /\ Once(queue') /\ MessagesOf(queue') = MessagesOf(queue) \cup {loop.msg}
      /\ PromptRows(queue') = PromptRows(queue) \cup {loop.msg}
  BY <1>1, <1>2, <1>3, <1>4, BooksHas, AppendPlaces
<1>6. FreshLoop /\ loop'.at = "start" /\ loop'.kind = "none" /\ loop'.hand = <<>>
  BY <1>1, Returns DEF FreshLoop
<1>7. Books'
  BY <1>1, <1>5, <1>6, BooksQueue
<1> QED BY <1>1, <1>2, <1>6, <1>7, HandlerReturns

LEMMA SettleLife == ASSUME Life, Settle PROVE Rest'
<1>1. /\ At("settle") /\ FlushStranded /\ Return("start")
      /\ UNCHANGED <<running, gate, pin, turn, aborting, drawn, completions, unsent, open, done,
                     outcomes>>
  BY DEF Settle, turns, book
<1>2. loop.lease = None /\ loop.hand = <<>> /\ Coming = {}
  BY <1>1, IdleLoop DEF At
<1>3. FreshLoop /\ loop'.at = "start" /\ loop'.kind = "none" /\ loop'.hand = <<>>
  BY <1>1, Returns DEF FreshLoop
<1>4. Coming' = {}
  BY <1>3 DEF Coming, At
<1>5. Books'
  BY <1>1, <1>2, <1>3, <1>4, BooksFlush
<1> QED BY <1>1, <1>2, <1>3, <1>5, HandlerReturns

LEMMA StartLife == ASSUME Life, Start PROVE Rest'
<1> DEFINE l == IF FirstLook = "none" THEN "idle" ELSE FirstLook
<1>1. /\ At("start") /\ Return(l)
      /\ UNCHANGED <<queue, running, gate, pin, buffer, turn, aborting, drawn, completions, book>>
  BY DEF Start, state, turns
<1>2. l \in {"idle", "promote", "combine"}
  BY DEF FirstLook
<1> HIDE DEF l
<1>3. loop.lease = None /\ loop.hand = <<>> /\ ~At("queue")
  BY <1>1, IdleLoop DEF At
<1>4. FreshLoop /\ loop'.at = l /\ loop'.kind = "none"
  BY <1>1, <1>2, Returns DEF FreshLoop
<1> QED BY <1>1, <1>2, <1>3, <1>4, BooksHas, JustReturns

(* The loop moves on without a lease: a send-now's flush, a rewind whose     *)
(* window is closed.                                                         *)
LEMMA MovesOn ==
  ASSUME Life, loop.lease = None, loop.hand = <<>>, NEW l \in {"claim", "teardown"}, GoTo(l),
         l = "claim" => At("flush"), At("rewind") \/ At("flush"),
         l = "teardown" => loop.kind # "sendnow",
         UNCHANGED <<running, gate, committed, turn, aborting, pin, drawn, completions, done, outcomes>>,
         Books'
  PROVE  Rest'
<1>1. loop \in Loops
  BY DEF Life, IInv, TypeOK
<1>2. /\ loop'.at = l /\ loop'.kind = loop.kind /\ loop'.lease = None /\ loop'.hand = <<>>
      /\ loop'.pinned = loop.pinned
  BY <1>1 DEF GoTo, Loops
<1>3. Tasks'
  BY DEF Life, Control, Tasks
<1>4. Control'
  <2> USE DEF Life, Control
  <2>1. Leased'
    BY <1>2 DEF Leased, At
  <2>2. NoTask' /\ Task'
    BY <1>2 DEF NoTask, Task
  <2>3. Hands'
    BY <1>2 DEF Hands, At
  <2>4. RanOnce'
    BY <1>2, EmptyPlace DEF RanOnce
  <2>5. Named'
    BY <1>2 DEF Named, Begun
  <2>6. OneLiveTurn' /\ LiveTurnPinned'
    BY DEF OneLiveTurn, LiveTurnPinned, Alive
  <2> QED BY <1>3, <2>1, <2>2, <2>3, <2>4, <2>5, <2>6
<1>5. OneOutcome'
  BY OutcomeKept
<1>6. SendsNow'
  BY <1>2 DEF Life, Endings, SendsNow, At
<1>7. Swept' /\ StillOwned'
  BY <1>2 DEF Life, Endings, Swept, StillOwned, At
<1> QED BY <1>4, <1>5, <1>6, <1>7 DEF Rest, Endings

LEMMA FlushLife == ASSUME Life, Flush PROVE Rest'
<1>1. /\ At("flush") /\ FlushStranded /\ GoTo("claim")
      /\ UNCHANGED <<running, gate, committed, pin, turn, aborting, drawn, completions, unsent, open,
                     done, outcomes>>
  BY DEF Flush, turns, book
<1>2. loop.lease = None /\ loop.hand = <<>> /\ Coming = {}
  BY <1>1, IdleLoop DEF At
<1>3. loop'.hand = loop.hand /\ Coming' = {}
  <2>1. loop \in Loops
    BY DEF Life, IInv, TypeOK
  <2> QED BY <2>1, <1>1 DEF GoTo, Loops, Coming, At
<1>4. Books'
  BY <1>1, <1>2, <1>3, BooksFlush
<1> QED BY <1>1, <1>2, <1>4, MovesOn

LEMMA RewindClosedLife == ASSUME Life, RewindClosed PROVE Rest'
<1>1. /\ At("rewind") /\ GoTo("teardown")
      /\ UNCHANGED <<queue, running, gate, committed, pin, buffer, turn, aborting, drawn, completions,
                     unsent, open, done, outcomes>>
  BY DEF RewindClosed, state, turns, book
<1>2. loop.lease = None /\ loop.hand = <<>> /\ Coming = {} /\ loop.kind # "sendnow"
  BY <1>1, IdleLoop DEF At, Life, Control, Leased
<1>3. loop'.hand = loop.hand /\ Coming' = {}
  <2>1. loop \in Loops
    BY DEF Life, IInv, TypeOK
  <2> QED BY <2>1, <1>1 DEF GoTo, Loops, Coming, At
<1>4. Books'
  BY <1>1, <1>2, <1>3, BooksHas, BooksQuiet
<1>5. ~At("flush")
  BY <1>1 DEF At
<1> QED BY <1>1, <1>2, <1>4, MovesOn

-----------------------------------------------------------------------------
(* Promotion, by the loop and by the other tasks.                            *)

LEMMA PromotedBooks ==
  ASSUME Life, NEW combine \in BOOLEAN, Promote(combine), loop'.hand = loop.hand, Coming' = Coming
  PROVE  /\ Books' /\ OneOutcome' /\ done \subseteq done'
         /\ PromptRows(queue') \subseteq PromptRows(queue)
         /\ FrontMsg(queue') = FrontMsg(queue)
<1> DEFINE S == IF combine THEN MergedRows(queue, LiveHolds) ELSE {}
           m == queue[1].msg
<1>1. /\ RowRemoved(S) /\ turn' = [turn EXCEPT ![m] = "intake"]
      /\ UNCHANGED <<buffer, drawn, unsent, outcomes>>
  BY DEF Promote
<1>2. /\ m \in Messages /\ turn[m] = "none" /\ m \notin done /\ queue # <<>> /\ running = None
      /\ queue \in Seq(Row)
  BY PromotedRow, Fields DEF Life
<1>3. S \in SUBSET (DOMAIN queue) /\ 1 \notin S
  BY <1>2 DEF MergedRows
<1> HIDE DEF S
<1>4. Books'
  BY <1>1, <1>3, BooksRemove
<1>5. done' = done \cup {queue[i].msg : i \in S}
  BY <1>1 DEF RowRemoved, Dispose
<1>6. \A i \in S : queue[i].msg \in Messages /\ turn[queue[i].msg] = "none" /\ queue[i].msg # m
  <2> SUFFICES ASSUME NEW i \in S
               PROVE  queue[i].msg \in Messages /\ turn[queue[i].msg] = "none" /\ queue[i].msg # m
    OBVIOUS
  <2>1. i \in DOMAIN queue /\ 1 \in DOMAIN queue /\ i # 1
    BY <1>2, <1>3
  <2>2. queue[i].msg \in Messages /\ queue[i].msg \in MessagesOf(queue)
    BY <1>2, <2>1, RowMessage
  <2>3. turn[queue[i].msg] = "none"
    BY <1>2, <2>2, NotYetRun, QueueAssumption
  <2>4. queue[i].msg # m
    BY <2>1, BooksHas DEF Once
  <2> QED BY <2>2, <2>3, <2>4
<1> HIDE DEF m
<1>7. turn'[m] = "intake" /\ \A n \in Messages : n # m => turn'[n] = turn[n]
  BY <1>1, <1>2, Fields, TurnAfter DEF Life
<1>8. OneOutcome'
  <2>1. done \subseteq Messages
    BY Fields DEF Life
  <2> QED BY <2>1, <1>1, <1>2, <1>5, <1>6, <1>7, OutcomeKept
<1>9. PromptRows(queue') \subseteq PromptRows(queue)
  BY <1>1, <1>2, <1>3, BooksHas, WithoutPlaces DEF RowRemoved
<1>10. FrontMsg(queue') = FrontMsg(queue)
  <2>1. SameHead(queue, queue')
    BY <1>1, <1>2, <1>3, WithoutRows DEF RowRemoved
  <2> QED BY <2>1, <1>2, FrontOfSameHead
<1> QED BY <1>4, <1>5, <1>8, <1>9, <1>10

LEMMA LoopPromoteLife == ASSUME Life, LoopPromote PROVE Rest'
<1>1. (At("promote") \/ At("combine")) /\ Return("idle")
  BY DEF LoopPromote, At
<1>2. loop.lease = None /\ loop.hand = <<>> /\ MessagesOf(loop.hand) = {} /\ Coming = {} /\ ~At("queue")
  BY <1>1, IdleLoop DEF At
<1>3. FreshLoop /\ loop'.at = "idle" /\ loop'.kind = "none" /\ loop'.hand = <<>> /\ Coming' = {}
  BY <1>1, Returns DEF FreshLoop, Coming, At
<1>4. CASE Promote(At("combine"))
  <2>1. At("combine") \in BOOLEAN
    BY DEF At
  <2>2. Books' /\ OneOutcome' /\ done \subseteq done'
    BY <1>2, <1>3, <1>4, <2>1, PromotedBooks
  <2>3. Control'
    BY <1>2, <1>3, <1>4, <2>1, <2>2, ControlPromote
  <2>4. gate' = gate
    BY <1>4 DEF Promote
  <2>5. SendsNow' /\ Swept' /\ StillOwned'
    BY <1>2, <1>3, <2>4, LoopLeaves DEF FreshLoop
  <2> QED BY <2>2, <2>3, <2>5 DEF Rest, Endings
<1>5. CASE Park
  <2>1. UNCHANGED <<queue, running, gate, pin, buffer, turn, aborting, drawn, completions, book>>
    BY <1>5 DEF Park, turns
  <2> QED BY <1>2, <1>3, <2>1, BooksHas, JustReturns
<1> QED BY <1>4, <1>5 DEF LoopPromote

LEMMA HelperPromoteLife == ASSUME Life, NEW h \in Starters, HelperPromote(h) PROVE Rest'
<1>1. loop' = loop /\ Coming' = Coming
  BY DEF HelperPromote, Coming, At
<1>2. CASE Promote(helper[h] = "combine")
  <2>1. (helper[h] = "combine") \in BOOLEAN
    OBVIOUS
  <2>2. /\ Books' /\ OneOutcome' /\ done \subseteq done'
        /\ PromptRows(queue') \subseteq PromptRows(queue)
        /\ FrontMsg(queue') = FrontMsg(queue)
    BY <1>1, <1>2, <2>1, PromotedBooks
  <2>3. Control'
    BY <1>1, <1>2, <2>1, <2>2, ControlPromote
  <2>4. gate' = gate /\ running = None
    BY <1>2, <2>1, PromotedRow DEF Promote
  <2>5. SendsNow' /\ Swept' /\ StillOwned'
    BY <1>1, <2>2, <2>4, LoopStays
  <2> QED BY <2>2, <2>3, <2>5 DEF Rest, Endings
<1>3. CASE Park
  BY <1>1, <1>3, Quiet DEF Park, turns
<1> QED BY <1>2, <1>3 DEF HelperPromote

LEMMA HelperQueueLife == ASSUME Life, NEW h \in Resumes, HelperQueue(h) PROVE Rest'
<1> DEFINE e == [msg |-> h, kind |-> "resume", sendNow |-> FALSE]
<1>1. /\ helper[h] = "queue" /\ ~At("closed") /\ queue' = Append(queue, e) /\ unsent' = unsent \ {h}
      /\ UNCHANGED <<running, gate, committed, pin, buffer, turn, aborting, drawn, completions, loop,
                     open, done, outcomes>>
  BY DEF HelperQueue, turns
<1>2. h \in unsent /\ h \in Messages
  BY <1>1, SchedulerAssumption DEF Life, Awaited
<1>3. e \in Row /\ e.msg = h /\ e.kind # "prompt"
  BY <1>2 DEF Row
<1> HIDE DEF e
<1>4. queue \in Seq(Row) /\ h \notin MessagesOf(queue)
  BY <1>2, Fields, BooksHas DEF Life, Split
<1>5. /\ Once(queue') /\ MessagesOf(queue') = MessagesOf(queue) \cup {h}
      /\ PromptRows(queue') = PromptRows(queue)
  <2>1. /\ Once(queue') /\ MessagesOf(queue') = MessagesOf(queue) \cup {e.msg}
        /\ PromptRows(queue') = PromptRows(queue) \cup (IF e.kind = "prompt" THEN {e.msg} ELSE {})
    BY <1>1, <1>3, <1>4, BooksHas, AppendPlaces
  <2> QED BY <2>1, <1>3
<1>6. Coming' = Coming
  BY <1>1 DEF Coming, At
<1>7. Books'
  BY <1>1, <1>2, <1>5, <1>6, BooksArrive
<1>8. Tasks'
  BY <1>1 DEF Life, Control, Tasks
<1>9. running # None /\ FrontMsg(queue) = running => FrontMsg(queue') = running
  <2>1. queue # <<>> => Append(queue, e) # <<>> /\ Append(queue, e)[1] = queue[1]
    BY <1>4
  <2> QED BY <1>1, <2>1 DEF FrontMsg
<1>10. Control'
  BY <1>1, <1>8, <1>9, ControlQuiet
<1>11. OneOutcome'
  BY <1>1, OutcomeKept
<1>12. SendsNow' /\ Swept'
  BY <1>1, <1>5 DEF Life, Endings, SendsNow, Swept, At
<1>13. StillOwned'
  BY DEF StillOwned
<1> QED BY <1>7, <1>10, <1>11, <1>12, <1>13 DEF Rest, Endings

LEMMA HelperLife == ASSUME Life, NEW h \in Starters, HelperStep(h) PROVE Rest'
<1>1. CASE HelperStart(h)
  BY <1>1, Quiet DEF HelperStart, state, turns
<1>2. CASE HelperQueue(h)
  BY <1>2, HelperQueueLife DEF HelperQueue
<1> QED BY <1>1, <1>2, HelperPromoteLife DEF HelperStep

(* Only a resumed approval's own queueing ends its waiting. *)
LEMMA AwaitedKept == ASSUME IInv, Awaited, [Next]_vars PROVE Awaited'
<1>1. CASE UNCHANGED <<helper, unsent>>
  BY <1>1 DEF Awaited
<1>2. ASSUME NEW p \in Prompts \cup Interjections, unsent' = unsent \ {p}, UNCHANGED helper
      PROVE  Awaited'
  BY <1>2, SchedulerAssumption DEF Awaited
<1>3. ASSUME NEW h \in Starters, HelperStep(h) PROVE Awaited'
  <2>1. helper \in [Starters -> {"queue", "start", "promote", "combine", "off"}]
    BY DEF IInv, TypeOK, BookType
  <2>2. PICK x \in {"start", "promote", "combine", "off"} : helper' = [helper EXCEPT ![h] = x]
    BY <1>3 DEF HelperStep, HelperQueue, HelperStart, HelperPromote, FirstLook
  <2>3. \A g \in Resumes : g \in Starters
    BY DEF Starters
  <2>4. \A g \in Resumes : helper'[g] = "queue" => g # h /\ helper[g] = "queue"
    BY <2>1, <2>2, <2>3
  <2>5. unsent' = unsent \/ unsent' = unsent \ {h}
    BY <1>3 DEF HelperStep, HelperQueue, HelperStart, HelperPromote, book, Promote, Park
  <2> QED BY <2>4, <2>5 DEF Awaited
<1>4. CASE LoopStep \/ Complete
  <2>1. CASE LoopPromote
    BY <2>1, <1>1 DEF LoopPromote, Promote, Park, book
  <2>2. CASE ~LoopPromote
    BY <1>4, <2>2, <1>1 DEF LoopStep, QueueSendNow, QueueBehind, Flush, Claim, RewindBehind, RewindFront,
       RewindClosed, Rewound, Teardown, SweepLost, SweepRewind, SweepKeep, Tailed, Release, Finish,
       Pop, Settle, Start, Complete, book
  <2> QED BY <2>1, <2>2
<1>5. CASE Command
  <2>1. CASE \E p \in Prompts, now \in BOOLEAN : Prompt(p, now)
    BY <2>1, <1>2 DEF Prompt
  <2>2. CASE \E m \in Interjections : Interject(m)
    BY <2>2, <1>2 DEF Interject
  <2>3. CASE ~(\E p \in Prompts, now \in BOOLEAN : Prompt(p, now)) /\ ~(\E m \in Interjections : Interject(m))
    BY <1>5, <2>3, <1>1 DEF Command, Cancel, Shutdown, RemoveRow, SendRowNow, EditRow, HoldRow, ReleaseRow,
       ReorderRows, ClearRows, book
  <2> QED BY <2>1, <2>2, <2>3
<1>6. CASE \E m \in Messages : TurnStep(m) \/ TurnDrop(m)
  BY <1>6, <1>1 DEF TurnStep, TurnCommit, TurnReturnEarly, TurnGuard, TurnBlocked, TurnOutput, TurnWait,
     TurnWake, TurnDrain, TurnSubmit, TurnUnsubmitted, TurnEnd, TurnSend, TurnDrop, book
<1>7. CASE (\E p \in Prompts : HoldAges(p)) \/ UNCHANGED vars
  BY <1>7, <1>1 DEF HoldAges, vars, book
<1> QED BY <1>3, <1>4, <1>5, <1>6, <1>7 DEF Next

-----------------------------------------------------------------------------
(* The loop's steps with a lease, and the rewinds that hold none.            *)

LEMMA Aborts ==
  ASSUME Life, NEW r \in {running, None}, aborting' = Aborted(r), turn' = turn
  PROVE  /\ \A n \in aborting' : turn[n] \in Live
         /\ \A n \in Messages : Alive(n)' => Alive(n)
         /\ r = running => \A n \in Messages : ~Alive(n)'
<1>1. \A n \in aborting : turn[n] \in Live
  BY DEF Life, Control, Tasks
<1>2. \A n \in Messages : Alive(n) => running = n /\ n # None
  BY QueueAssumption DEF Life, Control, OneLiveTurn
<1> QED BY <1>1, <1>2 DEF Aborted, Alive

LEMMA QueuedTurns ==
  ASSUME Life, NEW m \in MessagesOf(queue)
  PROVE  m \in Messages /\ (turn[m] # "none" <=> m = running)
<1>1. m \in Messages
  BY Fields, RowMessages DEF Life
<1>2. m # running => turn[m] = "none"
  BY <1>1, NotYetRun
<1>3. m = running => turn[m] # "none"
  BY <1>1, QueueAssumption DEF Life, Control, Named, Begun
<1> QED BY <1>1, <1>2, <1>3

(* A cancel takes rows, the registered turn's among them, and aborts it. *)
LEMMA ControlTake ==
  ASSUME Life, loop.at \notin {"tail", "rewound"},
         UNCHANGED <<gate, turn, pin, drawn, completions, done>>, aborting' = Aborted(running),
         running' \in {running, None}, running # None => running \in MessagesOf(loop'.hand),
         loop'.pinned = loop.pinned, Leased', NoTask', Task', Hands'
  PROVE  Control'
<1> USE DEF Life, Control
<1>1. \A n \in aborting' : turn[n] \in Live
  BY Aborts
<1>2. \A n \in Messages : ~Alive(n)'
  BY Aborts
<1>3. Tasks'
  BY <1>1 DEF Tasks
<1>4. RanOnce'
  <2>1. MessagesOf(loop.hand) = {}
    BY NoHand
  <2> QED BY <2>1, QueueAssumption DEF RanOnce
<1>5. Named'
  BY DEF Named, Begun
<1>6. OneLiveTurn' /\ LiveTurnPinned'
  BY <1>2 DEF OneLiveTurn, LiveTurnPinned
<1> QED BY <1>3, <1>4, <1>5, <1>6

LEMMA RewindFrontLife == ASSUME Life, RewindFront PROVE Rest'
<1>1. /\ At("rewind") /\ FrontMsg(queue) = loop.msg /\ queue # <<>> /\ queue' = Tail(queue)
      /\ loop' = [loop EXCEPT !.at = "rewound", !.hand = <<Head(queue)>>]
      /\ UNCHANGED <<gate, turn, pin, buffer, drawn, completions, unsent, open, done, outcomes>>
  BY DEF RewindFront, RewindPoppable, book
<1>2. loop.lease = None /\ loop.kind = "named" /\ loop.at = "rewind"
  BY <1>1, IdleLoop DEF At, Life, Control, Leased
<1>3. running # None => running = loop.msg
  BY <1>1, <1>2, RunningRow
<1>4. running' = None /\ aborting' = Aborted(running)
  BY <1>3 DEF RewindFront, Aborted
<1>5. queue \in Seq(Row) /\ loop \in Loops
  BY Fields DEF Life, IInv, TypeOK
<1>6. queue[1].msg = loop.msg /\ loop.msg \in Messages
  BY <1>1, <1>5, FrontType DEF FrontMsg
<1> DEFINE a == <<Head(queue)>>
<1>7. a \in Seq(Row)
  BY <1>1, <1>5
<1>8. /\ Once(queue') /\ Once(a) /\ MessagesOf(a) = {loop.msg} /\ loop.msg \in MessagesOf(queue)
      /\ MessagesOf(queue') = MessagesOf(queue) \ {loop.msg}
      /\ PromptRows(queue') = PromptRows(queue) \ {loop.msg}
      /\ PromptRows(a) = PromptRows(queue) \cap {loop.msg}
  BY <1>1, <1>5, <1>6, HeadPlaces, BooksHas
<1>9. /\ loop'.at = "rewound" /\ loop'.hand = a /\ loop'.lease = None /\ loop'.kind = "named"
      /\ loop'.msg = loop.msg /\ loop'.pinned = loop.pinned
  BY <1>1, <1>2, <1>5 DEF Loops
<1> HIDE DEF a
<1>10. Books'
  BY <1>1, <1>2, <1>7, <1>8, <1>9, BooksTake
<1>11. Leased' /\ NoTask' /\ Task'
  BY <1>4, <1>9 DEF Leased, NoTask, Task, At
<1>12. Hands'
  BY <1>6, <1>8, <1>9 DEF Hands, At
<1>13. Control'
  BY <1>1, <1>2, <1>3, <1>4, <1>8, <1>9, <1>11, <1>12, ControlTake
<1>14. OneOutcome'
  BY <1>1, OutcomeKept
<1>15. SendsNow' /\ Swept' /\ StillOwned'
  BY <1>1, <1>2, <1>9, LoopLeaves
<1> QED BY <1>10, <1>13, <1>14, <1>15 DEF Rest, Endings

LEMMA SweepRewindLife == ASSUME Life, SweepRewind PROVE Rest'
<1>1. /\ At("sweep") /\ loop.kind = "legacy" /\ queue # <<>> /\ queue' = Tail(queue)
      /\ running' = None /\ aborting' = Aborted(running)
      /\ loop' = [loop EXCEPT !.at = "tail", !.kind = "rewound", !.victim = running,
                              !.hand = <<Head(queue)>>]
      /\ UNCHANGED <<gate, turn, pin, buffer, drawn, completions, unsent, open, done, outcomes>>
  BY DEF SweepRewind, LegacyRewinds, RewindPoppable, book
<1>2. loop.lease = None /\ loop.at = "sweep"
  BY <1>1 DEF At, Life, Control, Leased
<1>3. queue \in Seq(Row) /\ loop \in Loops
  BY Fields DEF Life, IInv, TypeOK
<1> DEFINE a == <<Head(queue)>>
           m == queue[1].msg
<1>4. running # None => running = m
  BY <1>2, RunningRow
<1>5. a \in Seq(Row)
  BY <1>1, <1>3
<1>6. /\ Once(queue') /\ Once(a) /\ MessagesOf(a) = {m} /\ m \in MessagesOf(queue)
      /\ MessagesOf(queue') = MessagesOf(queue) \ {m}
      /\ PromptRows(queue') = PromptRows(queue) \ {m}
      /\ PromptRows(a) = PromptRows(queue) \cap {m}
  BY <1>1, <1>3, HeadPlaces, BooksHas
<1>7. /\ loop'.at = "tail" /\ loop'.hand = a /\ loop'.lease = None /\ loop'.kind = "rewound"
      /\ loop'.victim = running /\ loop'.pinned = loop.pinned
  BY <1>1, <1>2, <1>3 DEF Loops
<1> HIDE DEF a, m
<1>8. Books'
  BY <1>1, <1>2, <1>5, <1>6, <1>7, BooksTake
<1>9. Leased' /\ NoTask' /\ Task'
  BY <1>1, <1>7 DEF Leased, NoTask, Task, At
<1>10. Hands'
  <2>1. turn[m] # "none" <=> m = running
    BY <1>6, QueuedTurns
  <2>2. \A n \in Messages : turn'[n] \notin Live \/ n \in aborting'
    BY <1>1, Aborts DEF Alive
  <2>3. running \in Messages \cup {None}
    BY Fields DEF Life
  <2> QED BY <1>1, <1>4, <1>6, <1>7, <2>1, <2>2, <2>3 DEF Hands, At, Alive
<1>11. Control'
  BY <1>1, <1>2, <1>4, <1>6, <1>7, <1>9, <1>10, ControlTake
<1>12. OneOutcome'
  BY <1>1, OutcomeKept
<1>13. SendsNow' /\ Swept' /\ StillOwned'
  BY <1>1, <1>2, <1>7, LoopLeaves
<1> QED BY <1>8, <1>11, <1>12, <1>13 DEF Rest, Endings

LEMMA SweepKeepLife == ASSUME Life, SweepKeep PROVE Rest'
<1> DEFINE k == SweepTakes
           a == SubSeq(queue, 1, k)
           b == SubSeq(queue, k + 1, Len(queue))
<1>1. /\ At("sweep") /\ StillCurrent /\ queue' = b /\ aborting' = Aborted(running)
      /\ running' = IF loop.lease # None THEN running ELSE None
      /\ loop' = [loop EXCEPT !.at = "tail", !.victim = running, !.hand = a]
      /\ UNCHANGED <<gate, turn, pin, buffer, drawn, completions, unsent, open, done, outcomes>>
  BY DEF SweepKeep, book
<1>2. loop.at = "sweep" /\ loop \in Loops /\ queue \in Seq(Row)
  BY <1>1, Fields DEF At, Life, IInv, TypeOK
<1>3. k \in 0..Len(queue) /\ (queue # <<>> => k # 0) /\ (loop.kind = "shutdown" => k = Len(queue))
  BY <1>2 DEF SweepTakes
<1>4. /\ loop'.at = "tail" /\ loop'.victim = running /\ loop'.hand = a /\ loop'.lease = loop.lease
      /\ loop'.kind = loop.kind /\ loop'.pinned = loop.pinned
  BY <1>1, <1>2 DEF Loops
<1> HIDE DEF k
<1>5. /\ a \in Seq(Row) /\ b \in Seq(Row) /\ Once(a) /\ Once(b) /\ Len(a) = k /\ (k # 0 => a[1] = queue[1])
      /\ MessagesOf(a) \cap MessagesOf(b) = {} /\ MessagesOf(queue) = MessagesOf(a) \cup MessagesOf(b)
      /\ PromptRows(queue) = PromptRows(a) \cup PromptRows(b)
  BY <1>2, <1>3, BooksHas, CutPlaces
<1>6. loop.kind = "shutdown" => b = <<>>
  BY <1>2, <1>3
<1> HIDE DEF a, b
<1>7. running # None => running \in MessagesOf(a)
  <2> SUFFICES ASSUME running # None PROVE running \in MessagesOf(a)
    OBVIOUS
  <2>1. queue # <<>> /\ queue[1].msg = running
    BY <1>2, RunningRow
  <2>2. 1 \in DOMAIN a /\ a[1].msg = running
    BY <1>3, <1>5, <2>1
  <2> QED BY <2>2 DEF MessagesOf
<1>8. Books'
  BY <1>1, <1>2, <1>4, <1>5, BooksTake
<1>9. \A n \in Messages : turn'[n] \notin Live \/ n \in aborting'
  BY <1>1, Aborts DEF Alive
<1>10. loop.lease # None =>
         /\ gate = loop.lease /\ running = IF loop.lease.task THEN loop.lease.front ELSE None
         /\ loop.lease.front \in Messages \cup {None} /\ loop.lease.task \in BOOLEAN
  BY <1>1, LoopFields DEF Life, StillCurrent, BindingIsCurrent
<1>11. Leased' /\ NoTask'
  BY <1>1, <1>2, <1>4, <1>10 DEF Life, Control, Leased, NoTask, At
<1>12. Task'
  <2>1. loop.lease # None /\ loop.lease.task => loop.lease.front \in Messages /\ running = loop.lease.front
    BY <1>10 DEF Life, Control, Task
  <2> QED BY <1>1, <1>4, <1>9, <2>1, QueueAssumption DEF Task, At, Alive
<1>13. Hands'
  <2>1. \A m \in MessagesOf(a) : turn[m] # "none" <=> m = running
    BY <1>5, QueuedTurns
  <2>2. running \in Messages \cup {None}
    BY Fields DEF Life
  <2> QED BY <1>1, <1>4, <1>7, <1>9, <1>10, <2>1, <2>2 DEF Hands, At, Alive
<1>14. Control'
  BY <1>1, <1>2, <1>4, <1>7, <1>11, <1>12, <1>13, ControlTake
<1>15. OneOutcome'
  BY <1>1, OutcomeKept
<1>16. SendsNow' /\ Swept' /\ StillOwned'
  <2>1. loop.kind = "shutdown" => PromptRows(queue') = {}
    BY <1>1, <1>6, EmptyPlace
  <2> QED BY <1>1, <1>4, <2>1 DEF Life, Endings, SendsNow, Swept, StillOwned, At
<1> QED BY <1>8, <1>14, <1>15, <1>16 DEF Rest, Endings

LEMMA ClaimLife == ASSUME Life, Claim PROVE Rest'
<1>1. /\ At("claim")
      /\ UNCHANGED <<queue, running, committed, pin, buffer, turn, aborting, drawn, completions, unsent,
                     open, done, outcomes>>
  BY DEF Claim, turns, book
<1>2. loop.lease = None /\ loop.hand = <<>> /\ MessagesOf(loop.hand) = {} /\ Coming = {}
  BY <1>1, IdleLoop DEF At
<1>3. loop \in Loops /\ loop.at = "claim" /\ loop.kind \notin {"named", "legacy", "rewound"}
  BY <1>1 DEF At, Life, IInv, TypeOK, Control, Leased
<1>4. Tasks'
  BY <1>1 DEF Life, Control, Tasks
<1>5. OneOutcome'
  BY <1>1, OutcomeKept
<1>6. CASE MayClaim
  <2> DEFINE l == Lease
  <2>1. gate' = l /\ loop' = [loop EXCEPT !.at = "teardown", !.lease = l]
    BY <1>6 DEF Claim
  <2>2. l # None
    BY LeaseType DEF Life, IInv, TypeOK
  <2>3. l.front = FrontMsg(queue) /\ (l.task <=> running # None) /\ l.task \in BOOLEAN
    BY DEF Lease
  <2> HIDE DEF l
  <2>4. /\ loop'.at = "teardown" /\ loop'.lease = l /\ loop'.hand = <<>> /\ loop'.kind = loop.kind
        /\ loop'.pinned = loop.pinned
    BY <2>1, <1>2, <1>3 DEF Loops
  <2>5. gate = None /\ (running # None => running = FrontMsg(queue))
    BY <1>6 DEF MayClaim
  <2>6. running = None /\ FrontMsg(queue) # None => turn[FrontMsg(queue)] = "none"
    <3> SUFFICES ASSUME running = None, FrontMsg(queue) # None PROVE turn[FrontMsg(queue)] = "none"
      OBVIOUS
    <3>1. queue \in Seq(Row) /\ queue # <<>> /\ FrontMsg(queue) = queue[1].msg
      BY Fields DEF Life, FrontMsg
    <3>2. 1 \in DOMAIN queue
      BY <3>1
    <3>3. queue[1].msg \in Messages /\ queue[1].msg \in MessagesOf(queue)
      BY <3>1, <3>2, RowMessage
    <3> QED BY <3>1, <3>3, QueuedTurns, QueueAssumption
  <2>7. Control'
    <3> USE DEF Life, Control
    <3>1. Leased'
      BY <1>3, <2>1, <2>2, <2>4 DEF Leased, At
    <3>2. NoTask'
      BY <1>1, <2>3, <2>4, <2>6 DEF NoTask
    <3>3. Task'
      BY <1>1, <2>3, <2>4, <2>5 DEF Task, At
    <3>4. Hands'
      BY <2>4 DEF Hands, At
    <3>5. RanOnce'
      BY <1>1, <1>2 DEF RanOnce
    <3>6. Named'
      BY <1>1, <2>4 DEF Named, Begun
    <3>7. OneLiveTurn' /\ LiveTurnPinned'
      BY <1>1 DEF OneLiveTurn, LiveTurnPinned, Alive
    <3> QED BY <1>4, <3>1, <3>2, <3>3, <3>4, <3>5, <3>6, <3>7
  <2>8. Books'
    <3>1. Coming' = {} /\ loop'.hand = loop.hand
      BY <1>2, <2>4 DEF Coming, At
    <3> QED BY <1>1, <1>2, <3>1, BooksHas, BooksQuiet
  <2>9. SendsNow' /\ Swept' /\ StillOwned'
    BY <1>1, <1>3, <2>1, <2>3, <2>4 DEF Life, Endings, SendsNow, Swept, StillOwned, At
  <2> QED BY <1>5, <2>7, <2>8, <2>9 DEF Rest, Endings
<1>7. CASE ~MayClaim
  <2>1. gate' = gate /\ Unsettled
    BY <1>7 DEF Claim
  <2>2. /\ loop'.at \in {"closed", "idle"} /\ loop'.kind = "none" /\ loop'.lease = None
        /\ loop'.hand = <<>> /\ loop'.pinned = None
    BY <2>1, Returns DEF Unsettled
  <2>3. gate # None
    BY <1>7 DEF MayClaim, Life, IInv, RunningIsFront
  <2>4. FreshLoop /\ Coming' = {}
    BY <2>2 DEF FreshLoop, Coming, At
  <2>5. Control'
    BY <1>1, <1>2, <1>4, <2>1, <2>4, ControlFresh
  <2>6. Books'
    BY <1>1, <1>2, <2>2, <2>4, BooksHas, BooksQuiet
  <2>7. SendsNow' /\ Swept' /\ StillOwned'
    BY <1>2, <2>1, <2>2, <2>3 DEF Life, Endings, SendsNow, Swept, StillOwned, At
  <2> QED BY <1>5, <2>5, <2>6, <2>7 DEF Rest, Endings
<1> QED BY <1>6, <1>7

LEMMA TeardownLife == ASSUME Life, Teardown PROVE Rest'
<1>1. /\ At("teardown") /\ loop' = [loop EXCEPT !.at = "sweep", !.pinned = pin]
      /\ UNCHANGED <<queue, running, gate, committed, pin, buffer, turn, drawn, completions, unsent,
                     open, done, outcomes>>
  BY DEF Teardown, state, book
<1>2. loop \in Loops /\ loop.at = "teardown"
  BY <1>1 DEF At, Life, IInv, TypeOK
<1>3. /\ loop'.at = "sweep" /\ loop'.pinned = pin /\ loop'.lease = loop.lease /\ loop'.hand = loop.hand
      /\ loop'.kind = loop.kind
  BY <1>1, <1>2 DEF Loops
<1>4. PICK r \in {running, None} : aborting' = Aborted(r)
  BY DEF Teardown, Aborted
<1>5. /\ \A n \in aborting' : turn[n] \in Live
      /\ \A n \in Messages : Alive(n)' => Alive(n)
  BY <1>1, <1>4, Aborts
<1>6. loop.hand = <<>> /\ MessagesOf(loop.hand) = {}
  BY <1>2, NoHand
<1>7. Control'
  <2> USE DEF Life, Control
  <2>1. Leased'
    BY <1>1, <1>2, <1>3 DEF Leased, At
  <2>2. NoTask'
    BY <1>1, <1>3 DEF NoTask
  <2>3. Task'
    BY <1>1, <1>2, <1>3 DEF Task, At
  <2>4. Hands'
    BY <1>3, <1>6 DEF Hands, At
  <2>5. RanOnce'
    BY <1>1, <1>3 DEF RanOnce
  <2>6. Named'
    BY <1>1, <1>3 DEF Named, Begun
  <2>7. Tasks'
    BY <1>1, <1>5 DEF Tasks
  <2>8. OneLiveTurn' /\ LiveTurnPinned'
    BY <1>1, <1>5 DEF OneLiveTurn, LiveTurnPinned
  <2> QED BY <2>1, <2>2, <2>3, <2>4, <2>5, <2>6, <2>7, <2>8
<1>8. Books'
  <2>1. Coming' = Coming
    BY <1>2, <1>3 DEF Coming, At
  <2> QED BY <1>1, <1>3, <2>1, BooksHas, BooksQuiet
<1>9. OneOutcome'
  BY <1>1, OutcomeKept
<1>10. SendsNow' /\ Swept' /\ StillOwned'
  BY <1>1, <1>2, <1>3 DEF Life, Endings, SendsNow, Swept, StillOwned, At
<1> QED BY <1>7, <1>8, <1>9, <1>10 DEF Rest, Endings

(* A lease is lost only to a resumed approval's row, and only when it was    *)
(* claimed without a task: no turn is registered then.                       *)
LEMMA SweepLostLife == ASSUME Life, SweepLost PROVE Rest'
<1>1. /\ At("sweep") /\ ~StillCurrent
      /\ UNCHANGED <<queue, running, gate, pin, buffer, turn, aborting, drawn, completions,
                     unsent, open, done, outcomes>>
  BY DEF SweepLost, state, turns, book
<1>2. loop.at = "sweep"
  BY <1>1 DEF At
<1>3. loop.hand = <<>> /\ MessagesOf(loop.hand) = {} /\ Coming = {}
  BY <1>2, NoHand DEF Coming, At
<1>4. PICK label \in {"closed", "idle", "start"} :
        /\ Return(label)
        /\ loop.lease = None => label = "start"
  BY DEF SweepLost, Unsettled
<1>5. /\ loop'.at = label /\ loop'.kind = "none" /\ loop'.lease = None /\ loop'.hand = <<>>
      /\ loop'.pinned = None
  BY <1>4, Returns
<1>6. FreshLoop /\ Coming' = {}
  BY <1>5 DEF FreshLoop, Coming, At
<1>7. ASSUME loop.lease # None
      PROVE  running = None /\ gate # None /\ Resumes # {}
  <2>1. gate = loop.lease /\ loop.kind # "named" /\ loop.lease.task \in BOOLEAN
    BY <1>7, LoopFields DEF Life, Control, Leased
  <2>2. ~(FrontMsg(queue) = loop.lease.front /\ running = IF loop.lease.task THEN loop.lease.front ELSE None)
    BY <1>1, <2>1 DEF StillCurrent, BindingIsCurrent
  <2>3. ~loop.lease.task
    BY <1>2, <1>7, <2>1, <2>2 DEF Life, Control, Task, At
  <2>4. running = None
    BY <1>7, <2>3 DEF Life, Control, NoTask
  <2>5. FrontMsg(queue) # loop.lease.front
    BY <2>2, <2>3, <2>4
  <2> QED BY <1>2, <1>7, <2>1, <2>3, <2>4, <2>5 DEF Life, Endings, StillOwned
<1>8. Tasks'
  BY <1>1 DEF Life, Control, Tasks
<1>9. Control'
  BY <1>1, <1>3, <1>6, <1>7, <1>8, ControlFresh
<1>10. Books'
  BY <1>1, <1>3, <1>5, <1>6, BooksHas, BooksQuiet
<1>11. OneOutcome'
  BY <1>1, OutcomeKept
<1>12. SendsNow' /\ Swept' /\ StillOwned'
  BY <1>1, <1>4, <1>5, <1>7 DEF Life, Endings, SendsNow, Swept, StillOwned, At
<1> QED BY <1>9, <1>10, <1>11, <1>12 DEF Rest, Endings

(* A turn's terminal is recorded as its message is disposed of. *)
LEMMA OutcomeRecorded ==
  ASSUME Life, NEW m \in Messages \cup {None}, NEW o \in {"completed", "cancelled", "rewound"},
         Record(m, o), NEW X \in SUBSET Messages, done' = done \cup X, turn' = turn,
         m # None => m \in X /\ m \notin done /\ turn[m] # "none",
         \A n \in X : n # m => turn[n] = "none"
  PROVE  OneOutcome'
<1>1. CASE m = None
  <2>1. outcomes' = outcomes
    BY <1>1 DEF Record
  <2>2. \A n \in X : turn[n] = "none"
    BY <1>1, QueueAssumption
  <2> QED BY <2>1, <2>2, OutcomeKept
<1>2. CASE m # None
  <2>1. outcomes' = [outcomes EXCEPT ![m] = Append(outcomes[m], o)]
    BY <1>2 DEF Record
  <2>2. outcomes \in [Messages -> Seq({"completed", "cancelled", "rewound"})]
    BY DEF Life, IInv, TypeOK, BookType
  <2>3. \A n \in Messages : Len(outcomes[n]) = IF turn[n] # "none" /\ n \in done THEN 1 ELSE 0
    BY DEF Life, Endings, OneOutcome
  <2>4. outcomes'[m] = Append(outcomes[m], o) /\ \A n \in Messages : n # m => outcomes'[n] = outcomes[n]
    BY <1>2, <2>1, <2>2
  <2>5. Len(outcomes[m]) = 0 /\ outcomes[m] \in Seq({"completed", "cancelled", "rewound"})
    BY <1>2, <2>2, <2>3
  <2>6. Len(outcomes'[m]) = 1
    BY <2>4, <2>5
  <2>7. \A n \in Messages : n # m => (turn'[n] # "none" /\ n \in done' <=> turn[n] # "none" /\ n \in done)
    OBVIOUS
  <2>8. turn'[m] # "none" /\ m \in done'
    BY <1>2
  <2> QED BY <2>3, <2>4, <2>6, <2>7, <2>8 DEF OneOutcome
<1> QED BY <1>1, <1>2

LEMMA RewoundLife == ASSUME Life, Rewound PROVE Rest'
<1> DEFINE m == IF turn[loop.msg] = "none" THEN None ELSE loop.msg
<1>1. /\ At("rewound") /\ Dispose(MessagesOf(loop.hand)) /\ Record(m, "rewound") /\ Return("start")
      /\ UNCHANGED <<queue, running, gate, pin, buffer, turn, aborting, drawn, completions, unsent>>
  BY DEF Rewound, state, turns
<1>2. loop.at = "rewound" /\ loop.msg \in Messages /\ MessagesOf(loop.hand) = {loop.msg} /\ loop.lease = None
  BY <1>1 DEF At, Life, Control, Hands, Leased
<1>3. loop.msg \notin done /\ done' = done \cup {loop.msg}
  BY <1>1, <1>2, BooksHas DEF Split, Dispose
<1>4. m \in Messages \cup {None} /\ (m # None => m = loop.msg /\ turn[m] # "none")
      /\ (loop.msg # m => turn[loop.msg] = "none")
  BY <1>2
<1> HIDE DEF m
<1>5. /\ loop'.at = "start" /\ loop'.kind = "none" /\ loop'.lease = None /\ loop'.hand = <<>>
      /\ loop'.pinned = None
  BY <1>1, Returns
<1>6. ~At("queue") /\ FreshLoop
  BY <1>1, <1>5 DEF At, FreshLoop
<1>7. Books'
  BY <1>1, <1>5, <1>6, BooksDispose
<1>8. Tasks'
  BY <1>1 DEF Life, Control, Tasks
<1>9. Control'
  BY <1>1, <1>2, <1>3, <1>6, <1>8, ControlFresh
<1>10. OneOutcome'
  <2>1. {loop.msg} \in SUBSET Messages
    BY <1>2
  <2> QED BY <1>1, <1>2, <1>3, <1>4, <2>1, OutcomeRecorded
<1>11. SendsNow' /\ Swept' /\ StillOwned'
  BY <1>1, <1>2, <1>5, LoopLeaves
<1> QED BY <1>7, <1>9, <1>10, <1>11 DEF Rest, Endings

LEMMA TailedLife == ASSUME Life, Tailed PROVE Rest'
<1> DEFINE X == MessagesOf(loop.hand)
           o == IF loop.kind = "rewound" THEN "rewound" ELSE "cancelled"
<1>1. /\ At("tail") /\ Dispose(X) /\ Record(Terminal, o)
      /\ pin' = IF loop.lease = None /\ loop.victim # None THEN Unpinned(loop.victim) ELSE pin
      /\ UNCHANGED <<queue, running, gate, committed, buffer, turn, aborting, drawn, completions, unsent>>
  BY DEF Tailed, state
<1>2. loop \in Loops /\ loop.at = "tail" /\ X \in SUBSET Messages /\ loop.victim \in Messages \cup {None}
  BY <1>1, LoopFields, RowMessages DEF At, Life, IInv, TypeOK
<1>3. o \in {"completed", "cancelled", "rewound"}
  OBVIOUS
<1> HIDE DEF X, o
<1>4. /\ \A m \in X : turn[m] # "none" <=> m = loop.victim
      /\ loop.victim # None => loop.victim \in X /\ ~Alive(loop.victim)
      /\ loop.lease # None => loop.victim = IF loop.lease.task THEN loop.lease.front ELSE None
  BY <1>1 DEF Life, Control, Hands, X
<1>5. Terminal = loop.victim
  <2>1. ASSUME NoTaskPinned PROVE loop.lease.front = None
    BY <2>1 DEF NoTaskPinned, Life, Control, NoTask, Named, Begun
  <2> QED BY <2>1 DEF Terminal
<1>6. done' = done \cup X /\ X \cap done = {}
  BY <1>1, BooksHas DEF Dispose, Split, X
<1>7. OneOutcome'
  <2>1. loop.victim # None => loop.victim \in X /\ loop.victim \notin done /\ turn[loop.victim] # "none"
    BY <1>4, <1>6
  <2>2. \A n \in X : n # loop.victim => turn[n] = "none"
    BY <1>4
  <2>3. Record(loop.victim, o)
    BY <1>1, <1>5
  <2>4. PICK v : v = loop.victim
    OBVIOUS
  <2> QED BY <1>1, <1>2, <1>3, <1>6, <2>1, <2>2, <2>3, <2>4, OutcomeRecorded
<1>8. Tasks'
  BY <1>1 DEF Life, Control, Tasks
<1>9. \A n \in Messages : Alive(n) /\ turn[n] # "returned" => pin' = n
  BY <1>1, <1>4 DEF Life, Control, LiveTurnPinned, Unpinned
<1>10. OneLiveTurn' /\ LiveTurnPinned'
  BY <1>1, <1>9 DEF Life, Control, OneLiveTurn, LiveTurnPinned, Alive
<1>11. Begun(running)' /\ Begun(pin)'
  BY <1>1 DEF Life, Control, Named, Begun, Unpinned
<1>12. CASE loop.lease # None
  <2>1. loop' = [loop EXCEPT !.at = "release", !.hand = <<>>]
    BY <1>12 DEF Tailed
  <2>2. /\ loop'.at = "release" /\ loop'.hand = <<>> /\ loop'.lease = loop.lease /\ loop'.kind = loop.kind
        /\ loop'.pinned = loop.pinned
    BY <1>2, <2>1 DEF Loops
  <2>3. ~At("queue")
    BY <1>1 DEF At
  <2>4. Books'
    BY <1>1, <2>2, <2>3, BooksDispose DEF X
  <2>5. Control'
    <3> USE DEF Life, Control
    <3>1. Leased'
      BY <1>1, <1>2, <1>12, <2>2 DEF Leased, At
    <3>2. NoTask'
      BY <1>1, <2>2 DEF NoTask
    <3>3. Task'
      <4>1. loop.lease.task => loop.lease.front \in done'
        BY <1>4, <1>6, <1>12 DEF Task
      <4>2. loop.lease.task => ~Alive(loop.lease.front)
        BY <1>2, <1>12 DEF Task
      <4> QED BY <1>1, <1>2, <2>2, <4>1, <4>2 DEF Task, At, Alive
    <3>4. Hands'
      BY <2>2 DEF Hands, At
    <3>5. RanOnce'
      BY <1>1, <1>6, <2>2 DEF RanOnce, X
    <3>6. Named'
      BY <1>1, <1>11, <2>2 DEF Named, Begun
    <3> QED BY <1>8, <1>10, <3>1, <3>2, <3>3, <3>4, <3>5, <3>6
  <2>6. SendsNow' /\ Swept' /\ StillOwned'
    BY <1>1, <1>2, <2>2 DEF Life, Endings, SendsNow, Swept, StillOwned, At
  <2> QED BY <1>7, <2>4, <2>5, <2>6 DEF Rest, Endings
<1>13. CASE loop.lease = None
  <2>1. Return("start")
    BY <1>13 DEF Tailed
  <2>2. /\ loop'.at = "start" /\ loop'.kind = "none" /\ loop'.lease = None /\ loop'.hand = <<>>
        /\ loop'.pinned = None
    BY <2>1, Returns
  <2>3. ~At("queue")
    BY <1>1 DEF At
  <2>4. Books'
    BY <1>1, <2>2, <2>3, BooksDispose DEF X
  <2>5. Control'
    <3> USE DEF Life, Control
    <3>1. Leased'
      BY <1>1, <1>13, <2>2 DEF Leased, At
    <3>2. NoTask' /\ Task'
      BY <2>2 DEF NoTask, Task
    <3>3. Hands'
      BY <2>2 DEF Hands, At
    <3>4. RanOnce'
      BY <1>1, <1>6 DEF RanOnce, X
    <3>5. Named'
      BY <1>11, <2>2 DEF Named, Begun
    <3> QED BY <1>8, <1>10, <3>1, <3>2, <3>3, <3>4, <3>5
  <2>6. SendsNow' /\ Swept' /\ StillOwned'
    BY <1>1, <1>13, <2>2, LoopLeaves
  <2> QED BY <1>7, <2>4, <2>5, <2>6 DEF Rest, Endings
<1> QED BY <1>12, <1>13

LEMMA ReleaseLife == ASSUME Life, Release PROVE Rest'
<1>1. /\ At("release")
      /\ UNCHANGED <<queue, gate, committed, buffer, turn, aborting, drawn, completions, unsent, open,
                     done, outcomes>>
  BY DEF Release, turns, book
<1>2. /\ loop \in Loops /\ loop.at = "release" /\ loop.lease # None /\ gate = loop.lease
      /\ loop.lease.task \in BOOLEAN /\ loop.lease.front \in Messages \cup {None}
      /\ loop.kind \notin {"named", "legacy", "rewound"}
  BY <1>1, LoopFields DEF At, Life, IInv, TypeOK, Control, Leased
<1>3. loop.lease.task => /\ running = loop.lease.front /\ ~Alive(loop.lease.front)
                         /\ loop.lease.front \in done /\ loop.lease.front # None
  BY <1>2 DEF Life, Control, Task, At
<1>4. ~loop.lease.task => running = None
  BY <1>2 DEF Life, Control, NoTask
<1>5. /\ running' = None /\ GoTo("finish")
      /\ pin' = IF loop.lease.front # None THEN Unpinned(loop.lease.front) ELSE pin
  BY <1>2, <1>3, <1>4 DEF Release
<1>6. /\ loop'.at = "finish" /\ loop'.lease = loop.lease /\ loop'.kind = loop.kind
      /\ loop'.hand = loop.hand /\ loop'.pinned = loop.pinned
  BY <1>2, <1>5 DEF GoTo, Loops
<1>7. loop.hand = <<>> /\ MessagesOf(loop.hand) = {}
  BY <1>2, NoHand
<1>8. \A n \in Messages : ~Alive(n)
  BY <1>3, <1>4, QueueAssumption DEF Life, Control, OneLiveTurn
<1>9. Control'
  <2> USE DEF Life, Control
  <2>1. Leased'
    BY <1>1, <1>2, <1>6 DEF Leased, At
  <2>2. NoTask'
    BY <1>1, <1>5, <1>6 DEF NoTask
  <2>3. Task'
    BY <1>3, <1>5, <1>6 DEF Task, At
  <2>4. Hands'
    BY <1>6, <1>7 DEF Hands, At
  <2>5. RanOnce'
    BY <1>1, <1>3, <1>4, <1>7, QueueAssumption DEF RanOnce
  <2>6. Named'
    BY <1>1, <1>5, <1>6 DEF Named, Begun, Unpinned
  <2>7. Tasks'
    BY <1>1 DEF Tasks
  <2>8. OneLiveTurn' /\ LiveTurnPinned'
    BY <1>1, <1>8 DEF OneLiveTurn, LiveTurnPinned, Alive
  <2> QED BY <2>1, <2>2, <2>3, <2>4, <2>5, <2>6, <2>7, <2>8
<1>10. Books'
  <2>1. Coming' = Coming
    BY <1>2, <1>6 DEF Coming, At
  <2> QED BY <1>1, <1>6, <2>1, BooksHas, BooksQuiet
<1>11. OneOutcome'
  BY <1>1, OutcomeKept
<1>12. SendsNow' /\ Swept' /\ StillOwned'
  BY <1>1, <1>2, <1>6 DEF Life, Endings, SendsNow, Swept, StillOwned, At
<1> QED BY <1>9, <1>10, <1>11, <1>12 DEF Rest, Endings

LEMMA FinishLife == ASSUME Life, Finish PROVE Rest'
<1>1. /\ At("finish")
      /\ UNCHANGED <<queue, running, committed, pin, buffer, turn, aborting, drawn, completions, unsent,
                     open, done, outcomes>>
  BY DEF Finish, turns, book
<1>2. loop.at = "finish" /\ loop.lease # None /\ gate = loop.lease /\ loop.lease.task \in BOOLEAN
  BY <1>1, LoopFields DEF At, Life, Control, Leased
<1>3. running = None
  BY <1>2 DEF Life, Control, NoTask, Task, At
<1>4. gate' = None
  BY <1>2, <1>3 DEF Finish
<1>5. /\ loop'.at \in {"closed", "settle", "start"} /\ loop'.kind = "none" /\ loop'.lease = None
      /\ loop'.hand = <<>> /\ loop'.pinned = None
      /\ loop'.at = "closed" => loop.kind = "shutdown"
  BY <1>2, <1>3 DEF Finish, Return, Idle
<1>6. loop.hand = <<>> /\ MessagesOf(loop.hand) = {} /\ Coming = {}
  BY <1>2, NoHand DEF Coming, At
<1>7. FreshLoop /\ Coming' = {}
  BY <1>5 DEF FreshLoop, Coming, At
<1>8. Tasks'
  BY <1>1 DEF Life, Control, Tasks
<1>9. Control'
  BY <1>1, <1>3, <1>4, <1>6, <1>7, <1>8, ControlFresh
<1>10. Books'
  BY <1>1, <1>5, <1>6, <1>7, BooksHas, BooksQuiet
<1>11. OneOutcome'
  BY <1>1, OutcomeKept
<1>12. SendsNow' /\ Swept' /\ StillOwned'
  BY <1>1, <1>2, <1>4, <1>5 DEF Life, Endings, SendsNow, Swept, StillOwned, At
<1> QED BY <1>9, <1>10, <1>11, <1>12 DEF Rest, Endings

LEMMA CompleteLife == ASSUME Life, Complete PROVE Rest'
<1> DEFINE m == Head(completions)
<1>1. /\ At("idle") /\ completions # <<>> /\ completions' = Tail(completions)
      /\ UNCHANGED <<queue, running, committed, pin, buffer, turn, aborting, drawn, unsent, open, done,
                     outcomes>>
  BY DEF Complete, turns, book
<1>2. loop.lease = None /\ loop.hand = <<>> /\ MessagesOf(loop.hand) = {} /\ Coming = {}
  BY <1>1, IdleLoop DEF At
<1>3. completions \in Seq(Messages)
  BY Fields DEF Life
<1>4. m \in Messages /\ turn[m] = "sent"
  <2>1. 1 \in DOMAIN completions /\ m = completions[1]
    BY <1>1, <1>3
  <2> QED BY <2>1, <1>3 DEF Life, Control, Tasks
<1>5. Tasks'
  <2>1. \A i \in DOMAIN Tail(completions) : i + 1 \in DOMAIN completions
                                            /\ Tail(completions)[i] = completions[i + 1]
    BY <1>1, <1>3
  <2> QED BY <2>1, <1>1 DEF Life, Control, Tasks
<1>6. OneOutcome'
  BY <1>1, OutcomeKept
<1>7. CASE gate = None /\ FrontMsg(queue) = m /\ running = m
  <2> DEFINE l == Lease
  <2>1. /\ gate' = l
        /\ loop' = [Idle EXCEPT !.at = "pop", !.kind = "complete", !.msg = m, !.lease = l]
    BY <1>7 DEF Complete
  <2>2. l # None
    BY LeaseType DEF Life, IInv, TypeOK
  <2>3. l.front = m /\ l.task
    BY <1>4, <1>7, QueueAssumption DEF Lease
  <2> HIDE DEF l, m
  <2>4. /\ loop'.at = "pop" /\ loop'.kind = "complete" /\ loop'.msg = m /\ loop'.lease = l
        /\ loop'.hand = <<>> /\ loop'.pinned = None
    BY <2>1 DEF Idle
  <2>5. Control'
    <3> USE DEF Life, Control
    <3>1. Leased'
      BY <2>1, <2>2, <2>3, <2>4 DEF Leased, At
    <3>2. NoTask'
      BY <2>3, <2>4 DEF NoTask
    <3>3. Task'
      BY <1>1, <1>4, <1>7, <2>3, <2>4, QueueAssumption DEF Task, At, Alive, Live
    <3>4. Hands'
      BY <2>4 DEF Hands, At
    <3>5. RanOnce'
      BY <1>1, <1>2 DEF RanOnce
    <3>6. Named'
      BY <1>1, <2>4 DEF Named, Begun
    <3>7. OneLiveTurn' /\ LiveTurnPinned'
      BY <1>1 DEF OneLiveTurn, LiveTurnPinned, Alive
    <3> QED BY <1>5, <3>1, <3>2, <3>3, <3>4, <3>5, <3>6, <3>7
  <2>6. Books'
    <3>1. Coming' = {} /\ loop'.hand = loop.hand
      BY <1>2, <2>4 DEF Coming, At
    <3> QED BY <1>1, <1>2, <3>1, BooksHas, BooksQuiet
  <2>7. SendsNow' /\ Swept' /\ StillOwned'
    BY <2>1, <2>3, <2>4 DEF SendsNow, Swept, StillOwned, At
  <2> QED BY <1>6, <2>5, <2>6, <2>7 DEF Rest, Endings
<1>8. CASE ~(gate = None /\ FrontMsg(queue) = m /\ running = m)
  <2>1. UNCHANGED <<gate, loop>>
    BY <1>8 DEF Complete
  <2>2. Control'
    BY <1>1, <1>5, <2>1, ControlQuiet
  <2>3. Books'
    <3>1. Coming' = Coming
      BY <2>1 DEF Coming, At
    <3> QED BY <1>1, <2>1, <3>1, BooksHas, BooksQuiet
  <2>4. SendsNow' /\ Swept' /\ StillOwned'
    BY <1>1, <2>1, LoopStays
  <2> QED BY <1>6, <2>2, <2>3, <2>4 DEF Rest, Endings
<1> QED BY <1>7, <1>8

LEMMA PopLife == ASSUME Life, Pop PROVE Rest'
<1>1. /\ At("pop") /\ GoTo("release")
      /\ UNCHANGED <<running, gate, committed, pin, buffer, turn, aborting, drawn, completions, unsent>>
  BY DEF Pop, turns
<1>2. /\ loop \in Loops /\ loop.at = "pop" /\ loop.lease # None /\ gate = loop.lease
      /\ loop.lease.task /\ loop.lease.front = loop.msg
      /\ loop.kind = "complete"
  BY <1>1 DEF At, Life, IInv, TypeOK, Control, Leased
<1> DEFINE m == loop.msg
<1>3. m \in Messages /\ running = m /\ FrontMsg(queue) = m /\ ~Alive(m)
  BY <1>2 DEF At, Life, IInv, InHand, Control, Task
<1>4. queue' = Tail(queue) /\ Dispose({m}) /\ Record(m, "completed")
  BY <1>3 DEF Pop
<1>5. queue \in Seq(Row) /\ queue # <<>> /\ queue[1].msg = m
  BY <1>3, Fields, QueueAssumption DEF Life, FrontMsg
<1>6. /\ Once(queue') /\ m \in MessagesOf(queue)
      /\ MessagesOf(queue') = MessagesOf(queue) \ {m} /\ PromptRows(queue') = PromptRows(queue) \ {m}
  BY <1>4, <1>5, HeadPlaces, BooksHas
<1> HIDE DEF m
<1>7. /\ loop'.at = "release" /\ loop'.lease = loop.lease /\ loop'.kind = loop.kind
      /\ loop'.hand = loop.hand /\ loop'.pinned = loop.pinned
  BY <1>1, <1>2 DEF GoTo, Loops
<1>8. loop.hand = <<>> /\ MessagesOf(loop.hand) = {} /\ PromptRows(loop.hand) = {}
  BY <1>2, NoHand
<1>9. Coming = {} /\ Coming' = {}
  BY <1>2, <1>7 DEF Coming, At
<1>10. open' = open \ {m} /\ done' = done \cup {m}
  BY <1>4 DEF Dispose
<1>11. Books'
  <2>1. Held' = Held /\ DrawnApart'
    BY <1>1, BooksHas, HeldSame
  <2>2. Split(MessagesOf(queue'), MessagesOf(loop'.hand), MessagesOf(buffer'), Held', Coming',
              done', unsent')
    BY <1>1, <1>6, <1>7, <1>9, <1>10, <2>1, BooksHas DEF Split
  <2>3. open' = PromptRows(queue') \cup PromptRows(loop'.hand) \cup Coming'
    BY <1>6, <1>7, <1>8, <1>9, <1>10, BooksHas
  <2> QED BY <1>1, <1>6, <1>7, <2>1, <2>2, <2>3, BooksHas, BooksFrom
<1>12. m \notin done /\ turn[m] # "none"
  BY <1>3, <1>6, QueuedTurns, BooksHas DEF Split
<1>13. OneOutcome'
  <2>1. {m} \in SUBSET Messages
    BY <1>3
  <2> QED BY <1>1, <1>3, <1>4, <1>10, <1>12, <2>1, OutcomeRecorded
<1>14. Control'
  <2> USE DEF Life, Control
  <2>1. Leased'
    BY <1>1, <1>2, <1>7 DEF Leased, At
  <2>2. NoTask'
    BY <1>2, <1>7 DEF NoTask
  <2>3. Task'
    BY <1>1, <1>2, <1>3, <1>7, <1>10, QueueAssumption DEF Task, At, Alive, m
  <2>4. Hands'
    BY <1>7, <1>8 DEF Hands, At
  <2>5. RanOnce'
    BY <1>1, <1>8, <1>10 DEF RanOnce
  <2>6. Named'
    BY <1>1, <1>7 DEF Named, Begun
  <2>7. Tasks'
    BY <1>1 DEF Tasks
  <2>8. OneLiveTurn' /\ LiveTurnPinned'
    BY <1>1 DEF OneLiveTurn, LiveTurnPinned, Alive
  <2> QED BY <2>1, <2>2, <2>3, <2>4, <2>5, <2>6, <2>7, <2>8
<1>15. SendsNow' /\ Swept' /\ StillOwned'
  <2>1. Swept'
    BY <1>2, <1>6, <1>7 DEF Life, Endings, Swept, At
  <2> QED BY <1>1, <1>2, <1>7, <2>1 DEF Life, Endings, SendsNow, StillOwned, At
<1> QED BY <1>11, <1>13, <1>14, <1>15 DEF Rest, Endings

-----------------------------------------------------------------------------
(* The invariant holds.                                                      *)

LEMMA InitLife == Init => Life
<1> SUFFICES ASSUME Init PROVE Life
  OBVIOUS
<1>1. IInv
  BY InitEstablishes
<1>2. /\ queue = <<>> /\ buffer = <<>> /\ loop.hand = <<>> /\ loop.at = "idle" /\ loop.lease = None
      /\ loop.kind = "none" /\ loop.pinned = None /\ loop.victim = None
  BY DEF Init, Idle
<1>3. \A t \in Messages : drawn[t] = <<>> /\ turn[t] = "none"
  BY DEF Init
<1>4. Held = {} /\ Coming = {}
  BY <1>2, <1>3, EmptyPlace DEF Held, Coming, At
<1>5. Books
  <2>1. Unrepeated
    BY <1>2, <1>3, EmptyPlace DEF Unrepeated
  <2>2. Placed
    BY <1>2, <1>4, EmptyPlace DEF Placed, Split, Init
  <2>3. AnsweredWhenGone
    BY <1>2, EmptyPlace DEF AnsweredWhenGone, At, Init
  <2> QED BY <2>1, <2>2, <2>3 DEF Books
<1>6. Control
  <2>1. Leased /\ NoTask /\ Task /\ Hands
    BY <1>2 DEF Leased, NoTask, Task, Hands, At, Init
  <2>2. RanOnce /\ Named /\ OneLiveTurn /\ LiveTurnPinned
    BY <1>2, <1>3 DEF RanOnce, Named, Begun, OneLiveTurn, LiveTurnPinned, Alive, Live, Init
  <2>3. Tasks
    BY <1>3 DEF Tasks, Init
  <2> QED BY <2>1, <2>2, <2>3 DEF Control
<1>7. Endings
  <2>1. OneOutcome
    BY <1>3 DEF OneOutcome, Init
  <2>2. SendsNow /\ Swept /\ StillOwned
    BY <1>2 DEF SendsNow, Swept, StillOwned, At, Init
  <2> QED BY <2>1, <2>2 DEF Endings
<1>8. Awaited
  BY SchedulerAssumption DEF Awaited, Init
<1> QED BY <1>1, <1>5, <1>6, <1>7, <1>8 DEF Life

LEMMA NextLife == ASSUME Life, [Next]_vars PROVE Life'
<1>1. IInv' /\ Awaited'
  BY NextKeeps, AwaitedKept DEF Life
<1>2. CASE Command
  <2> SUFFICES Rest'
    BY <1>1 DEF Life, Rest
  <2>1. CASE \E p \in Prompts, now \in BOOLEAN : Prompt(p, now)
    BY <2>1, PromptLife
  <2>2. CASE \E m \in Interjections : Interject(m)
    BY <2>2, InterjectLife
  <2>3. CASE \/ \E kind \in {"keep", "stop", "legacy"} : Cancel(kind, None)
             \/ \E p \in Prompts \ unsent : Cancel("named", p)
    BY <2>3, CancelLife
  <2>4. CASE \E p \in Prompts, fresh \in BOOLEAN : RemoveRow(p, fresh) \/ SendRowNow(p, fresh)
    BY <2>4, RemoveRowLife, SendRowNowLife
  <2>5. CASE \/ \E p \in Prompts, blank \in BOOLEAN : EditRow(p, blank)
             \/ \E p \in Prompts : HoldRow(p) \/ ReleaseRow(p)
    BY <2>5, HoldsLife
  <2>6. CASE ReorderRows \/ Shutdown
    BY <2>6, ReorderRowsLife, ShutdownLife
  <2>7. CASE \E o \in {Owners[p] : p \in Prompts} \cup {None} : ClearRows(o)
    BY <2>7, ClearRowsLife
  <2> QED BY <1>2, <2>1, <2>2, <2>3, <2>4, <2>5, <2>6, <2>7 DEF Command
<1>3. CASE LoopStep \/ Complete
  <2>1. Rest'
    BY <1>3, QueueSendNowLife, QueueBehindLife, FlushLife, ClaimLife, RewindBehindLife,
       RewindFrontLife, RewindClosedLife, RewoundLife, TeardownLife, SweepLostLife,
       SweepRewindLife, SweepKeepLife, TailedLife, ReleaseLife, FinishLife, PopLife,
       SettleLife, StartLife, LoopPromoteLife, CompleteLife DEF LoopStep
  <2> QED BY <1>1, <2>1 DEF Life, Rest
<1>4. CASE \E h \in Starters : HelperStep(h)
  BY <1>1, <1>4, HelperLife DEF Life, Rest
<1>5. CASE \E m \in Messages : TurnStep(m) \/ TurnDrop(m)
  BY <1>1, <1>5, TurnStepLife DEF Life, Rest
<1>6. CASE \E p \in Prompts : HoldAges(p)
  BY <1>1, <1>6, HoldsLife DEF Life, Rest
<1>7. CASE UNCHANGED vars
  <2>1. Rest'
    BY <1>7, Quiet DEF vars, state, turns
  <2> QED BY <1>1, <2>1 DEF Life, Rest
<1> QED BY <1>2, <1>3, <1>4, <1>5, <1>6, <1>7 DEF Next

LEMMA Lives == Spec => []Life
<1>1. Init => Life
  BY InitLife
<1>2. Life /\ [Next]_vars => Life'
  BY NextLife
<1> QED BY <1>1, <1>2, PTL DEF Spec

-----------------------------------------------------------------------------
(* What follows for the messages.                                            *)

LEMMA CopiesOf ==
  ASSUME NEW s, Once(s), NEW m
  PROVE  Copies(s, m) = IF m \in MessagesOf(s) THEN 1 ELSE 0
<1> DEFINE C == {i \in DOMAIN s : s[i].msg = m}
<1>1. CASE m \in MessagesOf(s)
  <2>1. PICK i \in DOMAIN s : s[i].msg = m
    BY <1>1 DEF MessagesOf
  <2>2. C = {i}
    BY <2>1 DEF Once
  <2> QED BY <1>1, <2>2, FS_Singleton DEF Copies
<1>2. CASE m \notin MessagesOf(s)
  <2>1. C = {}
    BY <1>2 DEF MessagesOf
  <2> QED BY <1>2, <2>1, FS_EmptySet DEF Copies
<1> QED BY <1>1, <1>2

LEMMA HeldOnce ==
  ASSUME DrawnApart, NEW m
  PROVE  Cardinality({t \in Messages : Copies(drawn[t], m) > 0}) = IF m \in Held THEN 1 ELSE 0
<1> DEFINE C == {t \in Messages : Copies(drawn[t], m) > 0}
<1>1. \A t \in Messages : Copies(drawn[t], m) > 0 <=> m \in MessagesOf(drawn[t])
  BY CopiesOf DEF DrawnApart
<1>2. C = {t \in Messages : m \in MessagesOf(drawn[t])}
  BY <1>1
<1>3. CASE m \in Held
  <2>1. PICK t \in Messages : m \in MessagesOf(drawn[t])
    BY <1>3 DEF Held
  <2>2. C = {t}
    BY <1>2, <2>1 DEF DrawnApart
  <2> QED BY <1>3, <2>2, FS_Singleton
<1>4. CASE m \notin Held
  <2>1. C = {}
    BY <1>2, <1>4 DEF Held
  <2> QED BY <1>4, <2>1, FS_EmptySet
<1> QED BY <1>3, <1>4

LEMMA PlacesAddUp == ASSUME Life PROVE OnePlace
<1> SUFFICES ASSUME NEW m \in Messages PROVE Places(m) = 1
  BY DEF OnePlace
<1> DEFINE q == MessagesOf(queue)
           h == MessagesOf(loop.hand)
           b == MessagesOf(buffer)
<1>1. /\ Copies(queue, m) = IF m \in q THEN 1 ELSE 0
      /\ Copies(loop.hand, m) = IF m \in h THEN 1 ELSE 0
      /\ Copies(buffer, m) = IF m \in b THEN 1 ELSE 0
  BY CopiesOf, BooksHas
<1>2. Cardinality({t \in Messages : Copies(drawn[t], m) > 0}) = IF m \in Held THEN 1 ELSE 0
  BY HeldOnce, BooksHas
<1>3. At("queue") /\ loop.msg = m <=> m \in Coming
  BY DEF Coming
<1>4. Split(q, h, b, Held, Coming, done, unsent)
  BY BooksHas
<1> HIDE DEF q, h, b
<1>5. /\ m \in q \/ m \in h \/ m \in b \/ m \in Held \/ m \in Coming \/ m \in done \/ m \in unsent
      /\ m \in q => m \notin h /\ m \notin b /\ m \notin Held /\ m \notin Coming /\ m \notin done /\ m \notin unsent
      /\ m \in h => m \notin b /\ m \notin Held /\ m \notin Coming /\ m \notin done /\ m \notin unsent
      /\ m \in b => m \notin Held /\ m \notin Coming /\ m \notin done /\ m \notin unsent
      /\ m \in Held => m \notin Coming /\ m \notin done /\ m \notin unsent
      /\ m \in Coming => m \notin done /\ m \notin unsent
      /\ m \in done => m \notin unsent
  <2>1. m \in q \/ m \in h \/ m \in b \/ m \in Held \/ m \in Coming \/ m \in done \/ m \in unsent
    BY <1>4 DEF Split
  <2> QED BY <2>1, <1>4, Disjoint
<1> QED BY <1>1, <1>2, <1>3, <1>5 DEF Places

(* From submission on a message is in exactly one place - the queue, a        *)
(* cancel's hand, the interjections, a turn's restore guard, the loop's hand, *)
(* or done with - whatever clients, turns, cancels and promoters interleave:  *)
(* nothing is lost or doubled.                                                *)
THEOREM MessagesConserved == Spec => []OnePlace
<1>1. Life => OnePlace
  BY PlacesAddUp
<1> QED BY <1>1, Lives, PTL

(* Whichever of completion, cancel, rewind and shutdown settles a turn, it    *)
(* records one terminal, and messages that never ran get none.                *)
THEOREM OneTerminal == Spec => []OneOutcome
<1>1. Life => OneOutcome
  BY DEF Life, Endings
<1> QED BY <1>1, Lives, PTL

(* Two turns never run at the same time: a task nobody aborted is the         *)
(* registered one, across promotion by three tasks and every cancel path.     *)
THEOREM TurnsDoNotOverlap == Spec => []OneLiveTurn
<1>1. Life => OneLiveTurn
  BY DEF Life, Control
<1> QED BY <1>1, Lives, PTL

(* Interjections are routed to the live turn: no aborted turn's late guard    *)
(* and no cancel takes the pin away from it.                                  *)
THEOREM PinFollowsTurn == Spec => []LiveTurnPinned
<1>1. Life => LiveTurnPinned
  BY DEF Life, Control
<1> QED BY <1>1, Lives, PTL

(* A prompt's RPC stays open exactly as long as its row is queued or in hand. *)
THEOREM RpcFollowsRow == Spec => []AnsweredWhenGone
<1>1. Life => AnsweredWhenGone
  BY DEF Life, Books
<1> QED BY <1>1, Lives, PTL

(* Where no plan approval resumes, the gate always has its owner: the comment *)
(* the code relies on when it does not kick the queue after a lost claim is   *)
(* right except for resumed approvals.                                        *)
THEOREM GateHasOwner == ASSUME Resumes = {} PROVE Spec => []GateOwned
<1>1. Life => GateOwned
  BY DEF Life, Endings, StillOwned, GateOwned
<1> QED BY <1>1, Lives, PTL

(* Where no plan approval resumes, a shutdown that cancels leaves no prompt   *)
(* unanswered, in whatever state it found the queue and the running turn.     *)
THEOREM ShutdownAnswers == ASSUME Resumes = {} PROVE Spec => []ShutdownAnswersAll
<1>1. ASSUME Life, At("closed") PROVE open = {}
  <2>1. gate = None
    BY <1>1 DEF Life, Endings, StillOwned, Control, Leased, At
  <2>2. PromptRows(queue) = {}
    BY <1>1, <2>1 DEF Life, Endings, Swept
  <2>3. PromptRows(loop.hand) = {} /\ Coming = {}
    BY <1>1, NoHand DEF At, Coming
  <2> QED BY <1>1, <2>2, <2>3, BooksHas
<1>2. Life => ShutdownAnswersAll
  BY <1>1 DEF ShutdownAnswersAll
<1> QED BY <1>2, Lives, PTL

-----------------------------------------------------------------------------
(* What a send-now may cancel.                                               *)

LEMMA AbortsCommitted ==
  ASSUME Life, [Next]_vars, aborting' \ aborting # {}, loop.kind = "sendnow"
  PROVE  committed
<1>1. CASE SweepKeep
  <2>1. loop.at = "sweep"
    BY <1>1 DEF SweepKeep, At
  <2> QED BY <2>1 DEF Life, Endings, SendsNow
<1>2. CASE RewindFront
  BY <1>2 DEF RewindFront, Life, Control, Leased
<1>3. CASE SweepRewind
  BY <1>3 DEF SweepRewind, LegacyRewinds
<1>4. CASE Teardown
  BY <1>4 DEF Teardown
<1>5. CASE Complete \/ (LoopStep /\ ~SweepKeep /\ ~RewindFront /\ ~SweepRewind /\ ~Teardown)
  <2>1. aborting' = aborting
    BY <1>5 DEF Complete, LoopStep, QueueSendNow, QueueBehind, Flush, Claim, RewindBehind, RewindClosed,
       Rewound, SweepLost, Tailed, Release, Finish, Pop, Settle, Start, LoopPromote, Promote, Park, turns
  <2> QED BY <2>1
<1>6. CASE Command
  <2>1. aborting' = aborting
    BY <1>6 DEF Command, Prompt, Interject, Cancel, Shutdown, RemoveRow, SendRowNow, EditRow, HoldRow,
       ReleaseRow, ReorderRows, ClearRows, turns
  <2> QED BY <2>1
<1>7. CASE \E h \in Starters : HelperStep(h)
  <2>1. aborting' = aborting
    BY <1>7 DEF HelperStep, HelperQueue, HelperStart, HelperPromote, Promote, Park, turns
  <2> QED BY <2>1
<1>8. CASE \E m \in Messages : TurnStep(m) \/ TurnDrop(m)
  <2>1. aborting' \subseteq aborting
    BY <1>8 DEF TurnStep, TurnCommit, TurnReturnEarly, TurnGuard, TurnBlocked, TurnOutput, TurnWait,
       TurnWake, TurnDrain, TurnSubmit, TurnUnsubmitted, TurnEnd, TurnSend, TurnDrop, turns
  <2> QED BY <2>1
<1>9. CASE (\E p \in Prompts : HoldAges(p)) \/ UNCHANGED vars
  <2>1. aborting' = aborting
    BY <1>9 DEF HoldAges, vars, turns
  <2> QED BY <2>1
<1> QED BY <1>1, <1>2, <1>3, <1>4, <1>5, <1>6, <1>7, <1>8, <1>9 DEF Next

(* A send-now never aborts a turn whose own message is not yet part of the    *)
(* conversation, although it decides several awaits before it aborts.         *)
THEOREM SendNowSpares == Spec => SendNowSparesUncommitted
<1>1. Life /\ [Next]_vars => [aborting' \ aborting # {} /\ loop.kind = "sendnow" => committed]_vars
  BY AbortsCommitted
<1> QED BY <1>1, Lives, PTL DEF Spec, SendNowSparesUncommitted

-----------------------------------------------------------------------------
(* The order of the queue.  Nothing that has its slot computed from the       *)
(* running row, and nothing that removes rows, puts a message that was not    *)
(* sent now ahead of one that was.                                            *)
Ahead(q, r) ==
    \A i, j \in DOMAIN q :
        i < j /\ q[j].sendNow => q[i].sendNow \/ (i = 1 /\ q[1].msg = r)

LEMMA AheadKeeping ==
  ASSUME NEW q \in Seq(Row), NEW S \in SUBSET (DOMAIN q), NEW s \in Keeping(q, S), NEW r, Ahead(q, r)
  PROVE  Ahead(s, r)
<1> DEFINE n == Cardinality(S)
<1>1. PICK at \in [1..n -> S] :
        /\ \A i, j \in 1..n : i < j => at[i] < at[j]
        /\ s = [i \in 1..n |-> q[at[i]]]
  BY DEF Keeping
<1>2. DOMAIN q = 1..Len(q) /\ Len(q) \in Nat
  OBVIOUS
<1> HIDE DEF n
<1>3. DOMAIN s = 1..n /\ \A i \in 1..n : s[i] = q[at[i]] /\ at[i] \in 1..Len(q) /\ at[i] \in DOMAIN q
  BY <1>1, <1>2
<1>4. ASSUME NEW i \in 1..n, at[i] = 1 PROVE i = 1
  <2> SUFFICES ASSUME i # 1 PROVE FALSE
    OBVIOUS
  <2>1. 1 \in 1..n /\ 1 < i
    <3>1. i \in Int /\ 1 <= i /\ i <= n
      OBVIOUS
    <3>2. n \in Int
      <4>1. IsFiniteSet(DOMAIN q)
        BY <1>2, FS_Interval
      <4>2. IsFiniteSet(S)
        BY <4>1, FS_Subset
      <4> QED BY <4>2, FS_CardinalityType DEF n
    <3> QED BY <3>1, <3>2
  <2>2. at[1] < 1 /\ at[1] \in 1..Len(q)
    BY <1>1, <1>3, <1>4, <2>1
  <2> QED BY <2>2, <1>2
<1> SUFFICES ASSUME NEW i \in 1..n, NEW j \in 1..n, i < j, s[j].sendNow
             PROVE  s[i].sendNow \/ (i = 1 /\ s[1].msg = r)
  BY <1>3 DEF Ahead
<1>5. at[i] < at[j] /\ q[at[j]].sendNow /\ at[i] \in DOMAIN q /\ at[j] \in DOMAIN q
  BY <1>1, <1>3
<1>6. q[at[i]].sendNow \/ (at[i] = 1 /\ q[1].msg = r)
  BY <1>5 DEF Ahead
<1> QED BY <1>3, <1>4, <1>6

LEMMA AheadWithout ==
  ASSUME NEW q \in Seq(Row), NEW S, NEW s \in Without(q, S), NEW r, Ahead(q, r)
  PROVE  Ahead(s, r)
<1>1. DOMAIN q \ S \in SUBSET (DOMAIN q) /\ s \in Keeping(q, DOMAIN q \ S)
  BY DEF Without
<1> QED BY <1>1, AheadKeeping

(* Once the front is taken the rest is in order, whatever runs. *)
LEMMA AheadCut ==
  ASSUME NEW q \in Seq(Row), NEW k \in 0..Len(q), q # <<>> => k # 0, NEW r, Ahead(q, r), NEW x
  PROVE  Ahead(SubSeq(q, k + 1, Len(q)), x)
<1> DEFINE b == SubSeq(q, k + 1, Len(q))
<1>1. b \in Seq(Row) /\ Len(b) = Len(q) - k /\ \A i \in 1..(Len(q) - k) : b[i] = q[i + k]
  OBVIOUS
<1>2. DOMAIN b = 1..(Len(q) - k) /\ DOMAIN q = 1..Len(q) /\ Len(q) \in Nat
  BY <1>1
<1> HIDE DEF b
<1> SUFFICES ASSUME NEW i \in DOMAIN b, NEW j \in DOMAIN b, i < j, b[j].sendNow
             PROVE  b[i].sendNow
  BY DEF Ahead, b
<1>3. i + k \in DOMAIN q /\ j + k \in DOMAIN q /\ i + k < j + k /\ i \in Nat /\ i >= 1
  BY <1>2
<1>4. b[i] = q[i + k] /\ b[j] = q[j + k]
  BY <1>1, <1>2
<1>5. q # <<>>
  BY <1>3, <1>2
<1>6. k \in Nat /\ k # 0
  BY <1>5, <1>2
<1>7. i + k # 1
  BY <1>3, <1>6
<1>8. q[i + k].sendNow \/ (i + k = 1 /\ q[1].msg = r)
  BY <1>3, <1>4 DEF Ahead
<1> QED BY <1>4, <1>7, <1>8

LEMMA AheadTail ==
  ASSUME NEW q \in Seq(Row), q # <<>>, NEW r, Ahead(q, r), NEW x
  PROVE  Ahead(Tail(q), x)
<1>1. 1 \in 0..Len(q) /\ 1 # 0
  OBVIOUS
<1>2. SubSeq(q, 1 + 1, Len(q)) = Tail(q)
  OBVIOUS
<1>3. Ahead(SubSeq(q, 1 + 1, Len(q)), x)
  BY <1>1, AheadCut
<1> QED BY <1>2, <1>3

LEMMA AheadAppend ==
  ASSUME NEW q \in Seq(Row), NEW r, Ahead(q, r), NEW e \in Row, ~e.sendNow
  PROVE  Ahead(Append(q, e), r)
<1> DEFINE s == Append(q, e)
<1>1. s \in Seq(Row) /\ Len(s) = Len(q) + 1 /\ s[Len(q) + 1] = e /\ \A i \in 1..Len(q) : s[i] = q[i]
  OBVIOUS
<1>2. DOMAIN s = 1..(Len(q) + 1) /\ DOMAIN q = 1..Len(q) /\ Len(q) \in Nat
  BY <1>1
<1> HIDE DEF s
<1> SUFFICES ASSUME NEW i \in DOMAIN s, NEW j \in DOMAIN s, i < j, s[j].sendNow
             PROVE  s[i].sendNow \/ (i = 1 /\ s[1].msg = r)
  BY DEF Ahead, s
<1>3. j # Len(q) + 1
  BY <1>1
<1>4. i \in DOMAIN q /\ j \in DOMAIN q /\ 1 \in DOMAIN q
  BY <1>2, <1>3
<1>5. s[i] = q[i] /\ s[j] = q[j] /\ s[1] = q[1]
  BY <1>1, <1>2, <1>4
<1> QED BY <1>4, <1>5 DEF Ahead

(* What an insertion leaves where. *)
Spliced(q, k, f) == (SubSeq(q, 1, k) \o f) \o SubSeq(q, k + 1, Len(q))

Joined(a, b) == a \o b

LEMMA JoinedAt ==
  ASSUME NEW a \in Seq(Row), NEW b \in Seq(Row)
  PROVE  /\ Joined(a, b) \in Seq(Row) /\ Len(Joined(a, b)) = Len(a) + Len(b)
         /\ \A i \in 1..Len(a) : Joined(a, b)[i] = a[i]
         /\ \A i \in 1..Len(b) : Joined(a, b)[Len(a) + i] = b[i]
<1>1. a \o b \in Seq(Row) /\ Len(a \o b) = Len(a) + Len(b)
  OBVIOUS
<1>2. \A i \in 1..Len(a) : (a \o b)[i] = a[i]
  OBVIOUS
<1>3. \A i \in 1..Len(b) : (a \o b)[Len(a) + i] = b[i]
  OBVIOUS
<1> QED BY <1>1, <1>2, <1>3 DEF Joined

LEMMA SplicedAt ==
  ASSUME NEW q \in Seq(Row), NEW k \in 0..Len(q), NEW f \in Seq(Row), NEW n \in Nat, Len(f) = n
  PROVE  /\ DOMAIN Spliced(q, k, f) = 1..(Len(q) + n)
         /\ \A i \in 1..k : Spliced(q, k, f)[i] = q[i]
         /\ \A i \in 1..n : Spliced(q, k, f)[k + i] = f[i]
         /\ \A i \in 1..(Len(q) - k) : Spliced(q, k, f)[k + n + i] = q[k + i]
<1>1. PICK m \in Nat : Len(q) = k + m /\ m = Len(q) - k /\ k \in Nat
  <2>1. Len(q) - k \in Nat /\ Len(q) = k + (Len(q) - k) /\ k \in Nat
    OBVIOUS
  <2> QED BY ONLY <2>1, Zenon
<1>2. PICK a \in Seq(Row) : a = SubSeq(q, 1, k) /\ Len(a) = k /\ \A i \in 1..k : a[i] = q[i]
  <2> DEFINE c == SubSeq(q, 1, k)
  <2>1. c \in Seq(Row) /\ Len(c) = k /\ \A i \in 1..k : c[i] = q[i]
    OBVIOUS
  <2> QED BY <2>1
<1>3. PICK b \in Seq(Row) :
        b = SubSeq(q, k + 1, Len(q)) /\ Len(b) = m /\ \A i \in 1..m : b[i] = q[k + i]
  <2> DEFINE c == SubSeq(q, k + 1, Len(q))
  <2>1. c \in Seq(Row) /\ Len(c) = Len(q) - k /\ \A i \in 1..(Len(q) - k) : c[i] = q[k + i]
    OBVIOUS
  <2> QED BY <1>1, <2>1
<1>4. PICK d \in Seq(Row) : /\ d = Joined(a, f) /\ Len(d) = k + n
                            /\ \A i \in 1..k : d[i] = a[i]
                            /\ \A i \in 1..n : d[k + i] = f[i]
  <2>1. Len(a) = k /\ k \in Nat
    BY <1>1, <1>2
  <2>2. /\ Joined(a, f) \in Seq(Row) /\ Len(Joined(a, f)) = Len(a) + Len(f)
        /\ \A i \in 1..Len(a) : Joined(a, f)[i] = a[i]
        /\ \A i \in 1..Len(f) : Joined(a, f)[Len(a) + i] = f[i]
    BY ONLY a \in Seq(Row), f \in Seq(Row), JoinedAt
  <2> QED BY <2>1, <2>2
<1>5. PICK l \in Nat : l = k + n
  BY <1>1
<1>6. PICK s \in Seq(Row) : /\ s = Joined(d, b) /\ Len(s) = l + m
                            /\ \A i \in 1..l : s[i] = d[i]
                            /\ \A i \in 1..m : s[l + i] = b[i]
  <2>1. Len(d) = l /\ Len(b) = m
    BY <1>3, <1>4, <1>5
  <2>2. /\ Joined(d, b) \in Seq(Row) /\ Len(Joined(d, b)) = Len(d) + Len(b)
        /\ \A i \in 1..Len(d) : Joined(d, b)[i] = d[i]
        /\ \A i \in 1..Len(b) : Joined(d, b)[Len(d) + i] = b[i]
    BY ONLY d \in Seq(Row), b \in Seq(Row), JoinedAt
  <2> QED BY <2>1, <2>2
<1>7. Spliced(q, k, f) = s
  BY <1>2, <1>3, <1>4, <1>6 DEF Spliced, Joined
<1>8. \A i \in 1..k : s[i] = q[i]
  <2>1. \A i \in 1..k : i \in 1..l
    BY <1>1, <1>5
  <2> QED BY <1>2, <1>4, <1>6, <2>1
<1>9. \A i \in 1..n : s[k + i] = f[i]
  <2>1. \A i \in 1..n : k + i \in 1..l
    BY <1>1, <1>5
  <2> QED BY <1>4, <1>6, <2>1
<1>10. \A i \in 1..(Len(q) - k) : s[k + n + i] = q[k + i]
  BY <1>1, <1>3, <1>5, <1>6
<1>11. DOMAIN s = 1..(Len(q) + n)
  <2>1. l + m = Len(q) + n
    BY <1>1, <1>5
  <2>2. DOMAIN s = 1..Len(s)
    OBVIOUS
  <2> QED BY <1>6, <2>1, <2>2
<1> QED BY ONLY <1>7, <1>8, <1>9, <1>10, <1>11, ZenonT(30)

(* Rows sent now inserted where only rows sent now, and the running row, are  *)
(* before them.                                                              *)
LEMMA AheadInserted ==
  ASSUME NEW q \in Seq(Row), NEW r, Ahead(q, r),
         NEW k \in 0..Len(q), NEW f \in Seq(Row), NEW n \in Nat, Len(f) = n,
         \A i \in 1..n : f[i].sendNow,
         \A i \in 1..k : q[i].sendNow \/ (i = 1 /\ q[1].msg = r),
         q # <<>> /\ q[1].msg = r => k # 0
  PROVE  Ahead(Spliced(q, k, f), r)
<1> DEFINE s == Spliced(q, k, f)
<1>1. /\ DOMAIN s = 1..(Len(q) + n)
      /\ \A i \in 1..k : s[i] = q[i]
      /\ \A i \in 1..n : s[k + i] = f[i]
      /\ \A i \in 1..(Len(q) - k) : s[k + n + i] = q[k + i]
  BY SplicedAt, ZenonT(30)
<1> HIDE DEF s
<1>2. Len(q) \in Nat /\ k \in Nat /\ k <= Len(q) /\ DOMAIN q = 1..Len(q)
  OBVIOUS
<1> SUFFICES ASSUME NEW i \in 1..(Len(q) + n), NEW j \in 1..(Len(q) + n), i < j, s[j].sendNow
             PROVE  s[i].sendNow \/ (i = 1 /\ s[1].msg = r)
  BY <1>1 DEF Ahead, s
<1>3. CASE i <= k
  <2>1. i \in 1..k
    BY <1>2, <1>3
  <2>2. s[i] = q[i] /\ (i = 1 => s[1] = q[1])
    BY <1>1, <2>1
  <2> QED BY <2>1, <2>2
<1>4. CASE i > k /\ i <= k + n
  <2>1. PICK l \in 1..n : i = k + l
    <3>1. i - k \in 1..n /\ i = k + (i - k)
      BY <1>2, <1>4
    <3> QED BY <3>1
  <2> QED BY <1>1, <2>1
<1>5. CASE i > k + n
  <2> DEFINE x == i - (k + n)
             y == j - (k + n)
  <2>1. /\ x \in 1..(Len(q) - k) /\ y \in 1..(Len(q) - k) /\ x < y
        /\ i = k + n + x /\ j = k + n + y
    BY <1>2, <1>5
  <2> HIDE DEF x, y
  <2>2. s[i] = q[k + x] /\ s[j] = q[k + y]
    BY <1>1, <2>1
  <2>3. k + x \in DOMAIN q /\ k + y \in DOMAIN q /\ k + x < k + y
    BY <1>2, <2>1
  <2>4. q[k + x].sendNow \/ (k + x = 1 /\ q[1].msg = r)
    BY <2>2, <2>3 DEF Ahead
  <2>5. k + x = 1 => k = 0
    BY <1>2, <2>1
  <2>6. q # <<>>
    BY <2>3
  <2> QED BY <2>2, <2>4, <2>5, <2>6
<1> QED BY <1>2, <1>3, <1>4, <1>5

LEMMA AheadSlot ==
  ASSUME NEW q \in Seq(Row), NEW r, Ahead(q, r), NEW i \in SendNowSlots(q, r), NEW e \in Row, e.sendNow
  PROVE  Ahead(InsertAt(q, i, e), r)
<1> DEFINE k == i - 1
           f == <<e>>
<1>1. i \in 1..(Len(q) + 1) /\ Len(q) \in Nat
  BY SlotRange
<1>2. k \in 0..Len(q) /\ k + 1 = i
  BY <1>1
<1>3. InsertAt(q, i, e) = Spliced(q, k, f)
  BY <1>2 DEF InsertAt, Spliced
<1>4. f \in Seq(Row) /\ Len(f) = 1 /\ \A j \in 1..1 : f[j].sendNow
  OBVIOUS
<1>5. /\ i \in BehindFront(q, r)..(Len(q) + 1)
      /\ \A j \in BehindFront(q, r)..(i - 1) : q[j].sendNow
  BY DEF SendNowSlots
<1>6. /\ BehindFront(q, r) \in {1, 2} /\ (BehindFront(q, r) = 2 => q[1].msg = r)
      /\ (q # <<>> /\ q[1].msg = r => BehindFront(q, r) = 2)
  BY DEF BehindFront
<1>7. \A j \in 1..k : q[j].sendNow \/ (j = 1 /\ q[1].msg = r)
  <2> SUFFICES ASSUME NEW j \in 1..k PROVE q[j].sendNow \/ (j = 1 /\ q[1].msg = r)
    OBVIOUS
  <2>1. CASE j = 1 /\ BehindFront(q, r) = 2
    BY <1>6, <2>1
  <2>2. CASE ~(j = 1 /\ BehindFront(q, r) = 2)
    <3>1. j \in BehindFront(q, r)..(i - 1)
      BY <1>1, <1>6, <2>2
    <3> QED BY <1>5, <3>1
  <2> QED BY <2>1, <2>2
<1>8. q # <<>> /\ q[1].msg = r => k # 0
  BY <1>1, <1>5, <1>6
<1> HIDE DEF k, f
<1> QED BY <1>2, <1>3, <1>4, <1>7, <1>8, AheadInserted

LEMMA AheadFallbacks ==
  ASSUME NEW q \in Seq(Row), NEW r, Ahead(q, r), NEW entries,
         NEW n \in Nat, Len(entries) = n, \A i \in 1..n : entries[i].msg \in Messages
  PROVE  Ahead(WithFallbacks(q, r, entries), r)
<1> DEFINE k == BehindFront(q, r) - 1
           f == [i \in 1..n |-> FallbackRow(entries[i].msg)]
<1>1. k \in 0..Len(q) /\ k \in {0, 1} /\ k + 1 = BehindFront(q, r)
  <2>1. BehindFront(q, r) \in 1..(Len(q) + 1) /\ BehindFront(q, r) \in {1, 2} /\ Len(q) \in Nat
    BY BehindFrontRange
  <2> QED BY <2>1
<1>2. WithFallbacks(q, r, entries) = Spliced(q, k, f)
  BY <1>1 DEF WithFallbacks, Spliced
<1>3. f \in Seq(Row) /\ Len(f) = n
  BY DEF FallbackRow, Row
<1>4. \A i \in 1..n : f[i].sendNow
  BY DEF FallbackRow
<1>5. (k = 1 => q[1].msg = r) /\ (q # <<>> /\ q[1].msg = r => k # 0)
  BY DEF BehindFront
<1> HIDE DEF k, f
<1>6. \A i \in 1..k : q[i].sendNow \/ (i = 1 /\ q[1].msg = r)
  BY <1>1, <1>5
<1> QED BY <1>1, <1>2, <1>3, <1>4, <1>5, <1>6, AheadInserted

(* Where the front row is not the running one, who runs does not matter. *)
LEMMA AheadWhoever ==
  ASSUME NEW q \in Seq(Row), NEW r, Ahead(q, r), q # <<>> => q[1].msg # r, NEW x
  PROVE  Ahead(q, x)
<1>1. \A i \in DOMAIN q : q # <<>>
  OBVIOUS
<1> QED BY <1>1 DEF Ahead

-----------------------------------------------------------------------------
(* The actions that touch the queue or the running turn.                     *)

LEMMA AheadNow ==
  /\ SendNowAhead <=> Ahead(queue, running)
  /\ SendNowAhead' <=> Ahead(queue', running')
BY DEF SendNowAhead, Ahead

LEMMA TurnsAhead ==
  ASSUME Life, SendNowAhead, NEW m \in Messages, TurnStep(m) \/ TurnDrop(m)
  PROVE  SendNowAhead'
<1>1. queue \in Seq(Row)
  BY Fields DEF Life
<1>2. CASE TurnWait(m) \/ TurnDrain(m)
  <2>1. queue' \in Without(queue, Steered) /\ running' = running
    BY <1>2 DEF TurnWait, TurnDrain, Steer
  <2> QED BY <1>1, <2>1, AheadNow, AheadWithout
<1>3. CASE ~TurnWait(m) /\ ~TurnDrain(m)
  <2>1. UNCHANGED <<queue, running>>
    BY <1>3 DEF TurnStep, TurnCommit, TurnReturnEarly, TurnGuard, TurnBlocked, TurnOutput,
       TurnWake, TurnSubmit, TurnUnsubmitted, TurnEnd, TurnSend, TurnDrop, state
  <2> QED BY <2>1, AheadNow
<1> QED BY <1>2, <1>3

LEMMA CommandsAhead ==
  ASSUME Life, SendNowAhead, Command, "reorder" \notin Commands
  PROVE  SendNowAhead'
<1>1. queue \in Seq(Row) /\ Ahead(queue, running)
  BY Fields, AheadNow DEF Life
<1>2. CASE \E p \in Prompts, fresh \in BOOLEAN : RemoveRow(p, fresh)
  <2>1. PICK p \in Prompts, fresh \in BOOLEAN : RemoveRow(p, fresh)
    BY <1>2
  <2>2. PICK S : S = IF fresh THEN EditableRows(p) ELSE {}
    OBVIOUS
  <2>3. queue' \in Without(queue, S) /\ running' = running
    BY <2>1, <2>2 DEF RemoveRow, RowRemoved
  <2> QED BY <1>1, <2>3, AheadNow, AheadWithout
<1>3. CASE \E o : ClearRows(o)
  <2>1. PICK S : queue' \in Without(queue, S) /\ running' = running
    BY <1>3 DEF ClearRows, RowRemoved
  <2> QED BY <1>1, <2>1, AheadNow, AheadWithout
<1>4. CASE \E p \in Prompts, fresh \in BOOLEAN : SendRowNow(p, fresh)
  <2>1. PICK p \in Prompts, fresh \in BOOLEAN : SendRowNow(p, fresh)
    BY <1>4
  <2>2. running' = running
    BY <2>1 DEF SendRowNow
  <2>3. CASE fresh /\ EditableRows(p) # {}
    <3>1. PICK e : e = [msg |-> p, kind |-> "prompt", sendNow |-> TRUE]
      OBVIOUS
    <3>2. e \in Row /\ e.sendNow
      BY <3>1, QueueAssumption DEF Row
    <3>3. PICK rest \in Without(queue, EditableRows(p)) :
            \E i \in SendNowSlots(rest, running) : queue' = InsertAt(rest, i, e)
      BY <2>1, <2>3, <3>1 DEF SendRowNow
    <3>4. PICK i \in SendNowSlots(rest, running) : queue' = InsertAt(rest, i, e)
      BY <3>3
    <3>5. rest \in Seq(Row) /\ Ahead(rest, running)
      BY <1>1, <3>3, WithoutRows, AheadWithout
    <3>6. Ahead(queue', running)
      BY <3>2, <3>4, <3>5, AheadSlot
    <3> QED BY <2>2, <3>6, AheadNow
  <2>4. CASE ~(fresh /\ EditableRows(p) # {})
    <3>1. queue' = queue
      BY <2>1, <2>4 DEF SendRowNow
    <3> QED BY <1>1, <2>2, <3>1, AheadNow
  <2> QED BY <2>3, <2>4
<1>5. CASE \E m \in Interjections : Interject(m)
  <2>1. PICK m \in Interjections : Interject(m)
    BY <1>5
  <2>2. running' = running
    BY <2>1 DEF Interject
  <2>3. CASE pin # None
    <3>1. queue' = queue
      BY <2>1, <2>3 DEF Interject
    <3> QED BY <1>1, <2>2, <3>1, AheadNow
  <2>4. CASE pin = None
    <3> DEFINE e == <<[msg |-> m]>>
    <3>1. queue' = WithFallbacks(queue, running, e)
      BY <2>1, <2>4 DEF Interject
    <3>2. 1 \in Nat /\ Len(e) = 1 /\ \A i \in 1..1 : e[i].msg \in Messages
      BY SchedulerAssumption
    <3> HIDE DEF e
    <3> QED BY <1>1, <2>2, <3>1, <3>2, AheadNow, AheadFallbacks
  <2> QED BY <2>3, <2>4
<1>6. CASE ReorderRows
  BY <1>6 DEF ReorderRows
<1>7. CASE \/ \E p \in Prompts, now \in BOOLEAN : Prompt(p, now)
           \/ \E kind \in {"keep", "stop", "legacy"} : Cancel(kind, None)
           \/ \E p \in Prompts \ unsent : Cancel("named", p)
           \/ Shutdown
           \/ \E p \in Prompts, blank \in BOOLEAN : EditRow(p, blank)
           \/ \E p \in Prompts : HoldRow(p) \/ ReleaseRow(p)
  <2>1. UNCHANGED <<queue, running>>
    BY <1>7 DEF Prompt, Cancel, Shutdown, EditRow, HoldRow, ReleaseRow, state
  <2> QED BY <1>1, <2>1, AheadNow
<1> QED BY <1>2, <1>3, <1>4, <1>5, <1>6, <1>7 DEF Command

(* A promotion: nothing ran, so the queue was in order without exception.  *)
LEMMA PromoteAhead ==
  ASSUME Life, SendNowAhead, NEW combine \in BOOLEAN, Promote(combine)
  PROVE  SendNowAhead'
<1>1. queue \in Seq(Row) /\ Ahead(queue, running)
  BY Fields, AheadNow DEF Life
<1>2. running = None /\ queue # <<>> /\ queue[1].msg \in Messages
  BY PromotedRow
<1>3. PICK x : x = queue[1].msg
  OBVIOUS
<1>4. Ahead(queue, x)
  BY <1>1, <1>2, QueueAssumption, AheadWhoever
<1>5. PICK S : queue' \in Without(queue, S)
  BY DEF Promote, RowRemoved
<1>6. Ahead(queue', x)
  BY <1>1, <1>4, <1>5, AheadWithout
<1>7. running' = x
  BY <1>3 DEF Promote
<1> QED BY <1>6, <1>7, AheadNow

LEMMA ReleaseAhead == ASSUME Life, SendNowAhead, Release PROVE SendNowAhead'
<1>1. queue \in Seq(Row) /\ Ahead(queue, running)
  BY Fields, AheadNow DEF Life
<1>2. At("release") /\ queue' = queue /\ running' \in {running, None}
  BY DEF Release
<1>3. loop.at = "release" /\ loop.lease # None /\ loop.lease.task \in BOOLEAN
  BY <1>2, LoopFields DEF At, Life, Control, Leased
<1>4. running # None => running \in done
  BY <1>3 DEF Life, Control, Task, NoTask, At
<1>5. queue # <<>> => queue[1].msg # running
  <2> SUFFICES ASSUME queue # <<>> PROVE queue[1].msg # running
    OBVIOUS
  <2>1. queue[1].msg \in Messages /\ queue[1].msg \in MessagesOf(queue)
    <3>1. 1 \in DOMAIN queue
      BY <1>1
    <3> QED BY <1>1, <3>1, RowMessage
  <2>2. queue[1].msg \notin done
    BY <2>1, BooksHas DEF Split
  <2> QED BY <1>4, <2>1, <2>2, QueueAssumption
<1>6. Ahead(queue, None)
  BY <1>1, <1>5, AheadWhoever
<1> QED BY <1>1, <1>2, <1>6, AheadNow

LEMMA FlushAhead ==
  ASSUME Life, SendNowAhead, FlushStranded, running' = running
  PROVE  SendNowAhead'
<1>1. queue \in Seq(Row) /\ Ahead(queue, running) /\ buffer \in Seq(Entry)
  BY Fields, AheadNow DEF Life
<1>2. Len(buffer) \in Nat /\ \A i \in 1..Len(buffer) : buffer[i].msg \in Messages
  <2>1. \A i \in 1..Len(buffer) : buffer[i] \in Entry
    BY <1>1
  <2>2. Len(buffer) \in Nat
    BY <1>1
  <2> QED BY <2>1, <2>2 DEF Entry
<1>3. queue' = WithFallbacks(queue, running, buffer)
  BY DEF FlushStranded
<1> QED BY <1>1, <1>2, <1>3, AheadNow, AheadFallbacks

(* The front is taken. *)
LEMMA FrontTakenAhead ==
  ASSUME Life, SendNowAhead, RewindFront \/ SweepRewind \/ SweepKeep \/ Pop
  PROVE  SendNowAhead'
<1>1. queue \in Seq(Row) /\ Ahead(queue, running)
  BY Fields, AheadNow DEF Life
<1>2. CASE RewindFront \/ SweepRewind
  <2>1. queue # <<>> /\ queue' = Tail(queue)
    BY <1>2 DEF RewindFront, SweepRewind, LegacyRewinds, RewindPoppable
  <2> QED BY <1>1, <2>1, AheadTail, AheadNow
<1>3. CASE SweepKeep
  <2>1. PICK k : k = SweepTakes
    OBVIOUS
  <2>2. k \in 0..Len(queue) /\ (queue # <<>> => k # 0)
    BY <1>1, <2>1 DEF SweepTakes
  <2>3. queue' = SubSeq(queue, k + 1, Len(queue))
    BY <1>3, <2>1 DEF SweepKeep
  <2> QED BY <1>1, <2>2, <2>3, AheadCut, AheadNow
<1>4. CASE Pop
  <2>1. running' = running
    BY <1>4 DEF Pop
  <2>2. CASE FrontMsg(queue) = loop.msg
    <3>1. At("pop") /\ queue' = Tail(queue)
      BY <1>4, <2>2 DEF Pop
    <3>2. queue # <<>>
      BY <2>2, <3>1, QueueAssumption DEF FrontMsg, At, Life, IInv, InHand
    <3> QED BY <1>1, <3>1, <3>2, AheadTail, AheadNow
  <2>3. CASE FrontMsg(queue) # loop.msg
    <3>1. queue' = queue
      BY <1>4, <2>3 DEF Pop
    <3> QED BY <1>1, <2>1, <3>1, AheadNow
  <2> QED BY <2>2, <2>3
<1> QED BY <1>2, <1>3, <1>4

LEMMA LoopAhead ==
  ASSUME Life, SendNowAhead, LoopStep \/ Complete
  PROVE  SendNowAhead'
<1>1. queue \in Seq(Row) /\ Ahead(queue, running)
  BY Fields, AheadNow DEF Life
<1>2. CASE QueueSendNow
  <2>1. PICK e : e = [msg |-> loop.msg, kind |-> "prompt", sendNow |-> TRUE]
    OBVIOUS
  <2>2. At("queue") /\ running' = running
    BY <1>2 DEF QueueSendNow
  <2>3. e \in Row /\ e.sendNow
    BY <2>1, <2>2, PromptInHand DEF Row
  <2>4. PICK i \in SendNowSlots(queue, running) : queue' = InsertAt(queue, i, e)
    BY <1>2, <2>1 DEF QueueSendNow
  <2>5. Ahead(queue', running)
    BY <1>1, <2>3, <2>4, AheadSlot
  <2> QED BY <2>2, <2>5, AheadNow
<1>3. CASE QueueBehind
  <2>1. PICK e : e = [msg |-> loop.msg, kind |-> "prompt", sendNow |-> FALSE]
    OBVIOUS
  <2>2. At("queue") /\ running' = running /\ queue' = Append(queue, e)
    BY <1>3, <2>1 DEF QueueBehind
  <2>3. e \in Row /\ ~e.sendNow
    BY <2>1, <2>2, PromptInHand DEF Row
  <2>4. Ahead(queue', running)
    BY <1>1, <2>2, <2>3, AheadAppend
  <2> QED BY <2>2, <2>4, AheadNow
<1>4. CASE Flush \/ Settle
  BY <1>4, FlushAhead DEF Flush, Settle
<1>5. CASE RewindBehind
  <2>1. PICK S : queue' \in Without(queue, S)
    BY <1>5 DEF RewindBehind, RowRemoved
  <2>2. running' = running
    BY <1>5 DEF RewindBehind
  <2> QED BY <1>1, <2>1, <2>2, AheadNow, AheadWithout
<1>6. CASE RewindFront \/ SweepRewind \/ SweepKeep \/ Pop
  BY <1>6, FrontTakenAhead
<1>7. CASE Release
  BY <1>7, ReleaseAhead
<1>8. CASE LoopPromote
  <2>1. CASE Park
    BY <1>1, <2>1, AheadNow DEF Park
  <2>2. CASE Promote(At("combine"))
    BY <2>2, PromoteAhead DEF At
  <2> QED BY <1>8, <2>1, <2>2 DEF LoopPromote
<1>9. CASE \/ Complete \/ Claim \/ RewindClosed \/ Rewound \/ Teardown \/ SweepLost \/ Tailed
           \/ Finish \/ Start
  <2>1. UNCHANGED <<queue, running>>
    BY <1>9 DEF Complete, Claim, RewindClosed, Rewound, Teardown, SweepLost, Tailed, Finish, Start, state
  <2> QED BY <1>1, <2>1, AheadNow
<1> QED BY <1>2, <1>3, <1>4, <1>5, <1>6, <1>7, <1>8, <1>9 DEF LoopStep

LEMMA HelpersAhead ==
  ASSUME Life, SendNowAhead, NEW h \in Starters, HelperStep(h)
  PROVE  SendNowAhead'
<1>1. queue \in Seq(Row) /\ Ahead(queue, running)
  BY Fields, AheadNow DEF Life
<1>2. CASE HelperQueue(h)
  <2>1. PICK e : e = [msg |-> h, kind |-> "resume", sendNow |-> FALSE]
    OBVIOUS
  <2>2. running' = running /\ queue' = Append(queue, e) /\ h \in Resumes
    BY <1>2, <2>1 DEF HelperQueue
  <2>3. e \in Row /\ ~e.sendNow
    BY <2>1, <2>2, SchedulerAssumption DEF Row
  <2>4. Ahead(queue', running)
    BY <1>1, <2>2, <2>3, AheadAppend
  <2> QED BY <2>2, <2>4, AheadNow
<1>3. CASE HelperStart(h)
  BY <1>1, <1>3, AheadNow DEF HelperStart, state
<1>4. CASE HelperPromote(h)
  <2>1. CASE Park
    BY <1>1, <2>1, AheadNow DEF Park
  <2>2. CASE Promote(helper[h] = "combine")
    BY <2>2, PromoteAhead
  <2> QED BY <1>4, <2>1, <2>2 DEF HelperPromote
<1> QED BY <1>2, <1>3, <1>4 DEF HelperStep

(* Where clients do not reorder the queue by hand, a message sent now, or one *)
(* that missed its turn, is never queued behind one that was not, except the  *)
(* running turn's own row: through inserts computed from the running row,     *)
(* flushes, removals, steering, merges, cancels, rewinds and promotions by    *)
(* three tasks, with nothing re-sorting the queue.                            *)
THEOREM SendNowStaysAhead == ASSUME "reorder" \notin Commands PROVE Spec => []SendNowAhead
<1>1. Init => SendNowAhead
  BY DEF Init, SendNowAhead
<1>2. ASSUME Life, SendNowAhead, [Next]_vars PROVE SendNowAhead'
  <2>1. CASE (\E p \in Prompts : HoldAges(p)) \/ UNCHANGED vars
    <3>1. UNCHANGED <<queue, running>>
      BY <2>1 DEF HoldAges, vars, state
    <3> QED BY <1>2, <3>1, AheadNow
  <2> QED BY <1>2, <2>1, CommandsAhead, LoopAhead, HelpersAhead, TurnsAhead DEF Next
<1>3. Life /\ SendNowAhead /\ [Next]_vars => SendNowAhead'
  BY <1>2
<1> QED BY <1>1, <1>3, Lives, PTL DEF Spec

-----------------------------------------------------------------------------
(* The refinement: every step is one of four kinds to the service.           *)

(* Some messages may be done with, and nothing else happens to messages. *)
Disposes ==
    /\ UNCHANGED <<unsent, running>> /\ done \subseteq done'
    /\ \A m \in Messages : turn'[m] = "none" <=> turn[m] = "none"

Submits == \E m \in unsent : unsent' = unsent \ {m} /\ UNCHANGED <<running, turn, done>>

Ends == running' = None /\ UNCHANGED <<unsent, turn, done>>

Promotes == \E combine \in BOOLEAN : Promote(combine)

LEMMA TurnStepDisposes == ASSUME Life, NEW m \in Messages, TurnStep(m) \/ TurnDrop(m) PROVE Disposes
<1>1. UNCHANGED <<unsent, running>> /\ done \subseteq done'
  BY DEF TurnStep, TurnCommit, TurnReturnEarly, TurnGuard, TurnBlocked, TurnOutput, TurnWait,
     TurnWake, TurnDrain, TurnSubmit, TurnUnsubmitted, TurnEnd, TurnSend, TurnDrop, state, book
<1>2. turn[m] # "none"
  <2>1. CASE TurnStep(m)
    BY <2>1 DEF TurnStep, TurnCommit, TurnReturnEarly, TurnGuard, TurnBlocked, TurnOutput, TurnWait,
       TurnWake, TurnDrain, TurnSubmit, TurnUnsubmitted, TurnEnd, TurnSend, Alive, Live
  <2>2. CASE TurnDrop(m)
    BY <2>2 DEF TurnDrop, Life, Control, Tasks, Live
  <2> QED BY <2>1, <2>2
<1>3. CASE turn' = turn
  BY <1>1, <1>3 DEF Disposes
<1>4. CASE turn' # turn
  <2>1. PICK x \in (Live \cup {"sent", "gone"}) : turn' = [turn EXCEPT ![m] = x]
    BY <1>4 DEF TurnStep, TurnCommit, TurnReturnEarly, TurnGuard, TurnBlocked, TurnOutput, TurnWait,
       TurnWake, TurnDrain, TurnSubmit, TurnUnsubmitted, TurnEnd, TurnSend, TurnDrop, turns, Live
  <2>2. x # "none"
    BY DEF Live
  <2>3. turn'[m] = x /\ \A n \in Messages : n # m => turn'[n] = turn[n]
    BY <2>1, Fields, TurnAfter DEF Life
  <2> QED BY <1>1, <1>2, <2>2, <2>3 DEF Disposes
<1> QED BY <1>3, <1>4

LEMMA Kinds == ASSUME Life, [Next]_vars PROVE Disposes \/ Submits \/ Ends \/ Promotes
<1>1. CASE Command
  <2>1. CASE \E p \in Prompts, now \in BOOLEAN : Prompt(p, now)
    BY <2>1 DEF Prompt, turns, Submits
  <2>2. CASE \E m \in Interjections : Interject(m)
    BY <2>2 DEF Interject, turns, Submits
  <2>3. CASE ~(\E p \in Prompts, now \in BOOLEAN : Prompt(p, now)) /\ ~(\E m \in Interjections : Interject(m))
    <3>1. UNCHANGED <<unsent, running, turn>> /\ done \subseteq done'
      BY <1>1, <2>3 DEF Command, Cancel, Shutdown, RemoveRow, SendRowNow, EditRow, HoldRow, ReleaseRow,
         ReorderRows, ClearRows, RowRemoved, Dispose, state, turns, book
    <3> QED BY <3>1 DEF Disposes
  <2> QED BY <2>1, <2>2, <2>3
<1>2. CASE Complete \/ LoopStep
  <2>1. CASE Release
    <3>1. UNCHANGED <<unsent, turn, done>> /\ running' \in {running, None}
      BY <2>1 DEF Release, turns, book
    <3> QED BY <3>1 DEF Disposes, Ends
  <2>2. CASE RewindFront \/ SweepRewind \/ SweepKeep
    <3>1. UNCHANGED <<unsent, turn, done>> /\ running' \in {running, None}
      BY <2>2 DEF RewindFront, SweepRewind, SweepKeep, book
    <3> QED BY <3>1 DEF Disposes, Ends
  <2>3. CASE LoopPromote
    <3>1. CASE Park
      BY <3>1 DEF Park, turns, book, Disposes
    <3>2. CASE Promote(At("combine"))
      BY <3>2 DEF Promotes, At
    <3> QED BY <2>3, <3>1, <3>2 DEF LoopPromote
  <2>4. CASE ~Release /\ ~RewindFront /\ ~SweepRewind /\ ~SweepKeep /\ ~LoopPromote
    <3>1. UNCHANGED <<unsent, running, turn>> /\ done \subseteq done'
      BY <1>2, <2>4 DEF Complete, LoopStep, QueueSendNow, QueueBehind, Flush, Claim, RewindBehind,
         RewindClosed, Rewound, Teardown, SweepLost, Tailed, Finish, Pop, Settle, Start,
         RowRemoved, Dispose, state, turns, book
    <3> QED BY <3>1 DEF Disposes
  <2> QED BY <2>1, <2>2, <2>3, <2>4
<1>3. CASE \E h \in Starters : HelperStep(h)
  <2>1. PICK h \in Starters : HelperStep(h)
    BY <1>3
  <2>2. CASE HelperQueue(h)
    <3>1. h \in unsent
      BY <2>2 DEF HelperQueue, Life, Awaited
    <3> QED BY <2>2, <3>1 DEF HelperQueue, turns, Submits
  <2>3. CASE HelperStart(h)
    BY <2>3 DEF HelperStart, state, turns, book, Disposes
  <2>4. CASE HelperPromote(h)
    <3>1. CASE Park
      BY <3>1 DEF Park, turns, book, Disposes
    <3>2. CASE Promote(helper[h] = "combine")
      BY <3>2 DEF Promotes
    <3> QED BY <2>4, <3>1, <3>2 DEF HelperPromote
  <2> QED BY <2>1, <2>2, <2>3, <2>4 DEF HelperStep
<1>4. CASE \E m \in Messages : TurnStep(m) \/ TurnDrop(m)
  BY <1>4, TurnStepDisposes
<1>5. CASE (\E p \in Prompts : HoldAges(p)) \/ UNCHANGED vars
  <2>1. UNCHANGED <<unsent, running, turn, done>>
    BY <1>5 DEF HoldAges, vars, state, turns, book
  <2> QED BY <2>1 DEF Disposes
<1> QED BY <1>1, <1>2, <1>3, <1>4, <1>5 DEF Next

(* The service's view of the messages. *)
View == [m \in Messages |-> Status(m)]

LEMMA Views ==
  /\ View' = [m \in Messages |-> Status(m)']
  /\ \A m \in Messages : View[m] = Status(m) /\ View'[m] = Status(m)'
BY DEF View

LEMMA ServiceDisposes == ASSUME Life, Disposes PROVE Service!Next \/ View' = View
<1> DEFINE S == {m \in Messages : Status(m) = "waiting" /\ m \in done'}
<1>1. \A m \in Messages : Status(m)' = IF m \in S THEN "over" ELSE Status(m)
  BY DEF Disposes, Status
<1>2. View' = [m \in Messages |-> IF m \in S THEN "over" ELSE View[m]]
  BY <1>1, Views
<1>3. CASE S = {}
  BY <1>1, <1>3 DEF View
<1>4. CASE S # {}
  <2>1. S \in SUBSET Messages /\ \A m \in S : View[m] = "waiting"
    BY Views
  <2>2. Service!Withdraw(S)
    BY <1>2, <1>4, <2>1 DEF Service!Withdraw, View
  <2> QED BY <2>1, <2>2 DEF Service!Next
<1> QED BY <1>3, <1>4

LEMMA ServiceSubmits == ASSUME Life, Submits PROVE Service!Next
<1>1. PICK m \in unsent : unsent' = unsent \ {m} /\ UNCHANGED <<running, turn, done>>
  BY DEF Submits
<1>2. m \in Messages
  BY Fields DEF Life
<1>3. turn[m] = "none" /\ m # running /\ m \notin done
  BY <1>1, <1>2, NotYetRun
<1>4. \A n \in Messages : Status(n)' = IF n = m THEN "waiting" ELSE Status(n)
  BY <1>1, <1>3 DEF Status
<1>5. View[m] = "unsent"
  BY <1>1, <1>2 DEF View, Status
<1>6. View' = [View EXCEPT ![m] = "waiting"]
  BY <1>4 DEF View
<1>7. Service!Submit(m)
  BY <1>5, <1>6 DEF Service!Submit, View
<1> QED BY <1>2, <1>7 DEF Service!Next

LEMMA ServiceEnds == ASSUME Life, Ends PROVE Service!Next \/ View' = View
<1>1. running \in Messages \cup {None}
  BY Fields DEF Life
<1>2. CASE running = None
  BY <1>2 DEF Ends, View, Status
<1>3. CASE running \in Messages
  <2>1. PICK m \in Messages : m = running
    BY <1>3
  <2>2. m \notin unsent /\ turn[m] # "none"
    <3>1. turn[m] # "none"
      BY <2>1, QueueAssumption DEF Life, Control, Named, Begun
    <3> QED BY <3>1, NotYetRun
  <2>3. \A n \in Messages : Status(n)' = IF n = m THEN "over" ELSE Status(n)
    BY <2>1, <2>2, QueueAssumption DEF Ends, Status
  <2>4. View[m] = "running"
    BY <2>1, <2>2 DEF View, Status
  <2>5. View' = [View EXCEPT ![m] = "over"]
    BY <2>3 DEF View
  <2>6. Service!Finish(m)
    BY <2>4, <2>5 DEF Service!Finish, View
  <2> QED BY <2>6 DEF Service!Next
<1> QED BY <1>1, <1>2, <1>3

LEMMA ServicePromotes == ASSUME Life, NEW combine \in BOOLEAN, Promote(combine) PROVE Service!Next
<1> DEFINE S == IF combine THEN MergedRows(queue, LiveHolds) ELSE {}
           X == {queue[i].msg : i \in S}
           m == queue[1].msg
<1>1. /\ RowRemoved(S) /\ turn' = [turn EXCEPT ![m] = "intake"] /\ running' = m
      /\ unsent' = unsent
  BY DEF Promote
<1>2. /\ running = None /\ queue # <<>> /\ m \in Messages /\ m \in MessagesOf(queue)
      /\ turn[m] = "none" /\ m \notin done /\ queue \in Seq(Row)
  BY PromotedRow, Fields DEF Life
<1>3. S \in SUBSET (DOMAIN queue) /\ 1 \notin S
  BY <1>2 DEF MergedRows
<1>4. \A n \in X : n \in MessagesOf(queue) /\ n # m
  <2> SUFFICES ASSUME NEW i \in S PROVE queue[i].msg \in MessagesOf(queue) /\ queue[i].msg # m
    OBVIOUS
  <2>1. i \in DOMAIN queue /\ 1 \in DOMAIN queue /\ i # 1
    BY <1>2, <1>3
  <2> QED BY <1>2, <2>1, RowMessage, BooksHas DEF Once
<1>5. done' = done \cup X
  BY <1>1 DEF RowRemoved, Dispose
<1> HIDE DEF S, X, m
<1>6. \A n \in MessagesOf(queue) : n \in Messages /\ n \notin unsent /\ n \notin done /\ turn[n] = "none"
  BY <1>2, QueuedTurns, BooksHas, QueueAssumption DEF Split
<1>7. turn'[m] = "intake" /\ \A n \in Messages : n # m => turn'[n] = turn[n]
  BY <1>1, <1>2, Fields, TurnAfter DEF Life
<1>8. \A n \in Messages : Status(n)' = IF n = m THEN "running" ELSE IF n \in X THEN "over" ELSE Status(n)
  BY <1>1, <1>2, <1>4, <1>5, <1>6, <1>7, QueueAssumption DEF Status
<1>9. \A n \in Messages : View[n] # "running"
  BY <1>2, QueueAssumption DEF View, Status
<1>10. m \notin X /\ X \in SUBSET Messages /\ \A n \in X \cup {m} : View[n] = "waiting"
  BY <1>2, <1>4, <1>6, QueueAssumption DEF View, Status
<1>11. View' = [n \in Messages |-> IF n = m THEN "running" ELSE IF n \in X THEN "over" ELSE View[n]]
  BY <1>8 DEF View
<1>12. Service!Start(m, X)
  BY <1>9, <1>10, <1>11 DEF Service!Start, View
<1> QED BY <1>2, <1>10, <1>12 DEF Service!Next

(* The scheduler implements PromptService: a message is submitted once, then  *)
(* waits, and has one turn or is withdrawn, never both; one turn runs at a    *)
(* time.  Every step of the loop, a turn, a helper or a client is a step of   *)
(* that machine or leaves it alone.                                           *)
THEOREM SchedulerImplementsService == Spec => ImplementsService
<1>1. Init => Service!Init
  <2> SUFFICES ASSUME Init PROVE View = [m \in Messages |-> "unsent"]
    BY DEF Service!Init, View
  <2> QED BY DEF Init, View, Status
<1>2. Life /\ [Next]_vars => [Service!Next]_View
  BY Kinds, ServiceDisposes, ServiceSubmits, ServiceEnds, ServicePromotes DEF Promotes
<1>3. Life /\ [Next]_vars => [Service!Next]_([m \in Messages |-> Status(m)])
  BY <1>2 DEF View
<1> QED BY <1>1, <1>3, Lives, PTL DEF Spec, ImplementsService, Service!Spec
=============================================================================

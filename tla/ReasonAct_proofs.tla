-------------------------- MODULE ReasonAct_proofs --------------------------
(***************************************************************************)
(* Proofs about ReasonAct: for any max_iterations, any window and any      *)
(* number of calls in a turn.                                              *)
(***************************************************************************)
EXTENDS ReasonAct, FiniteSetTheorems, WellFoundedInduction, TLAPS

-----------------------------------------------------------------------------
(* The shape of a conversation.                                            *)

Roles == {"system", "user", "assistant", "tool"}
Calls == [id : Nat \X Nat, kind : Kinds]
Turns == [role : Roles, calls : Seq(Calls)]

Asks(ms, i) == ms[i].role = "assistant"
Issues(ms, i, c) == Asks(ms, i) /\ c \in ToSet(ms[i].calls)
Answers(ms, j, c) == ms[j].role = "tool" /\ ms[j].calls = <<c>>
NoneAsks(ms, from, to) == \A k \in from..to : ~Asks(ms, k)

\* The system and the user turn, then turns of the model and of tools.
Opens(ms) ==
  /\ Len(ms) >= 2
  /\ ms[1].role = "system" /\ ms[2].role = "user"
  /\ \A i \in 3..Len(ms) : ms[i].role \in {"assistant", "tool"}

\* A call is issued in one turn only.
IssuedOnce(ms) ==
  \A c \in Calls : \A i, j \in 1..Len(ms) : Issues(ms, i, c) /\ Issues(ms, j, c) => i = j

\* A tool turn answers a call of the latest turn of the model before it.
Belongs(ms) ==
  \A j \in 1..Len(ms) : ms[j].role = "tool" =>
    \E c \in Calls : /\ Answers(ms, j, c)
                     /\ \E i \in 1..(j - 1) : Issues(ms, i, c) /\ NoneAsks(ms, i + 1, j - 1)

AnsweredOnce(ms) ==
  \A c \in Calls : \A i, j \in 1..Len(ms) : Answers(ms, i, c) /\ Answers(ms, j, c) => i = j

\* Calls that are not answered are open, and those are of the last turn of the model.
Answered(ms, open) ==
  \A c \in Calls : \A i \in 1..Len(ms) :
    Issues(ms, i, c) => c \in open \/ \E j \in 1..Len(ms) : Answers(ms, j, c)

Open(ms, open) ==
  \A c \in open :
    /\ \A j \in 1..Len(ms) : ~Answers(ms, j, c)
    /\ \E i \in 1..Len(ms) : Issues(ms, i, c) /\ NoneAsks(ms, i + 1, Len(ms))

Conversation(ms, open) ==
  /\ ms \in Seq(Turns) /\ open \subseteq Calls
  /\ Opens(ms) /\ IssuedOnce(ms) /\ Belongs(ms) /\ AnsweredOnce(ms)
  /\ Answered(ms, open) /\ Open(ms, open)

\* RequestWellFormed, of any request.
WellFormed(rq) ==
  \A i \in 1..Len(rq) :
    LET m == rq[i]
        Closes(j) == j = Len(rq) + 1 \/ rq[j].role = "assistant"
        next == CHOOSE j \in (i + 1)..(Len(rq) + 1) :
                  Closes(j) /\ \A k \in (i + 1)..(j - 1) : ~Closes(k)
    IN /\ m.role = "assistant" =>
            \A c \in ToSet(m.calls) :
              Cardinality({j \in (i + 1)..(next - 1) : c \in ToSet(rq[j].calls)}) = 1
       /\ m.role = "tool" =>
            \E j \in 1..(i - 1) : /\ rq[j].role = "assistant"
                                  /\ m.calls[1] \in ToSet(rq[j].calls)

-----------------------------------------------------------------------------
(* Sets of numbers.                                                        *)

LEMMA Least ==
  ASSUME NEW S, S \subseteq Nat, S # {}
  PROVE  \E n \in S : \A m \in S : n <= m
<1> DEFINE R == OpToRel(<, Nat)
<1>1. IsWellFoundedOn(R, Nat)
  BY NatLessThanWellFounded
<1> HIDE DEF R
<1>2. PICK n \in S : \A m \in S : <<m, n>> \notin R
  BY <1>1, WFMin
<1>3. ASSUME NEW m \in S PROVE n <= m
  <2>1. m \in Nat /\ n \in Nat /\ <<m, n>> \notin R
    BY <1>2
  <2>2. ~(m < n)
    BY <2>1 DEF R, OpToRel
  <2> QED
    BY <2>1, <2>2
<1> QED
  BY <1>3

\* How many elements of S are not beyond i.
Upto(S, i) == {j \in S : j <= i}

LEMMA UptoCounts ==
  ASSUME NEW S, NEW n \in Nat, S \subseteq 1..n, NEW i \in Nat
  PROVE  /\ IsFiniteSet(S) /\ IsFiniteSet(Upto(S, i))
         /\ Cardinality(S) \in Nat /\ Cardinality(Upto(S, i)) \in Nat
         /\ Cardinality(Upto(S, i)) <= Cardinality(S)
<1>1. IsFiniteSet(1..n)
  BY FS_Interval
<1>2. IsFiniteSet(S)
  BY <1>1, FS_Subset
<1>3. Upto(S, i) \in SUBSET S
  BY DEF Upto
<1> QED
  BY <1>2, <1>3, FS_Subset, FS_CardinalityType

\* An element counts itself and what is before it.
LEMMA UptoElement ==
  ASSUME NEW S, NEW n \in Nat, S \subseteq 1..n, NEW i \in S
  PROVE  Cardinality(Upto(S, i)) = Cardinality(Upto(S, i - 1)) + 1
<1>1. i \in Nat /\ i - 1 \in Nat
  OBVIOUS
<1>2. IsFiniteSet(Upto(S, i - 1))
  BY <1>1, UptoCounts
<1>3. Upto(S, i) = Upto(S, i - 1) \cup {i} /\ i \notin Upto(S, i - 1)
  <2>1. \A j \in S : j \in Int /\ (j <= i <=> j <= i - 1 \/ j = i) /\ ~(i <= i - 1)
    OBVIOUS
  <2> QED
    BY <2>1 DEF Upto
<1> QED
  BY <1>2, <1>3, FS_AddElement

\* The k-th element of S.
LEMMA Nth ==
  ASSUME NEW S, NEW n \in Nat, S \subseteq 1..n, NEW k \in 1..Cardinality(S)
  PROVE  \E i \in S : Cardinality(Upto(S, i)) = k
<1> DEFINE U(i) == Cardinality(Upto(S, i))
           T == {i \in 0..n : U(i) >= k}
<1>0. \A i \in Nat : U(i) \in Nat /\ Cardinality(S) \in Nat
  BY UptoCounts
<1>1. n \in T
  <2>1. \A j \in S : j <= n
    OBVIOUS
  <2>2. Upto(S, n) = S
    BY <2>1 DEF Upto
  <2> QED
    BY <1>0, <2>2
<1>2. T \subseteq Nat /\ T # {}
  <2>1. 0..n \subseteq Nat
    OBVIOUS
  <2> QED
    BY <1>1, <2>1
<1>3. PICK i \in T : \A m \in T : i <= m
  BY <1>2, Least
<1>4. i \in 0..n /\ U(i) >= k /\ U(i) \in Nat
  BY <1>0
<1>5. i # 0
  <2>1. Upto(S, 0) = {}
    <3>1. \A j \in S : j >= 1 /\ j \in Nat
      OBVIOUS
    <3>2. \A j \in S : ~(j <= 0)
      BY <3>1
    <3> QED
      BY <3>2 DEF Upto
  <2>2. U(0) = 0
    BY <2>1, FS_EmptySet
  <2> QED
    BY <1>4, <2>2
<1>6. i - 1 \in 0..n /\ U(i - 1) \in Nat
  BY <1>0, <1>4, <1>5
<1>7. U(i - 1) < k
  <2>1. i - 1 \notin T
    BY <1>3, <1>4
  <2>2. ~(U(i - 1) >= k)
    BY <1>6, <2>1
  <2> QED
    BY <1>6, <2>2
<1>8. i \in S
  <2>1. CASE i \notin S
    <3>1. \A j \in S : j \in Nat /\ j # i
      BY <2>1
    <3>2. \A j \in S : j <= i <=> j <= i - 1
      BY <1>4, <3>1
    <3>3. Upto(S, i) = Upto(S, i - 1)
      BY <3>2 DEF Upto
    <3> QED
      BY <1>4, <1>6, <1>7, <3>3
  <2> QED
    BY <2>1
<1>9. U(i) = U(i - 1) + 1
  BY <1>8, UptoElement
<1> QED
  BY <1>4, <1>6, <1>7, <1>8, <1>9

\* Different elements have different places.
LEMMA NthUnique ==
  ASSUME NEW S, NEW n \in Nat, S \subseteq 1..n, NEW i \in S, NEW j \in S,
         Cardinality(Upto(S, i)) = Cardinality(Upto(S, j))
  PROVE  i = j
<1> DEFINE U(a) == Cardinality(Upto(S, a))
<1>0. \A a \in Nat : U(a) \in Nat /\ IsFiniteSet(Upto(S, a))
  BY UptoCounts
<1>1. \A a \in S : a \in Nat /\ a >= 1
  OBVIOUS
<1>2. ASSUME NEW a \in S, NEW b \in S, a < b
      PROVE  U(a) < U(b)
  <2>1. b - 1 \in Nat /\ a \in Nat /\ b \in Nat
    BY <1>1
  <2>2. U(b) = U(b - 1) + 1
    BY UptoElement
  <2>3. Upto(S, a) \in SUBSET Upto(S, b - 1)
    <3>1. \A c \in S : c <= a => c <= b - 1
      BY <1>1, <1>2, <2>1
    <3> QED
      BY <3>1 DEF Upto
  <2>4. U(a) <= U(b - 1)
    BY <1>0, <2>1, <2>3, FS_Subset
  <2> QED
    BY <1>0, <2>1, <2>2, <2>4
<1>3. ~(i < j) /\ ~(j < i)
  <2>1. U(i) \in Nat /\ U(i) = U(j)
    BY <1>0, <1>1
  <2> QED
    BY <1>2, <2>1
<1> QED
  BY <1>1, <1>3

-----------------------------------------------------------------------------
(* The calls of a turn.                                                    *)

(* OfKind keeps the calls of one kind, each once and none else.            *)
LEMMA OfKindSelects ==
  ASSUME NEW calls \in Seq(Calls), NEW kind
  PROVE  /\ OfKind(calls, kind) \in Seq(Calls)
         /\ \A k \in 1..Len(OfKind(calls, kind)) : \E i \in 1..Len(calls) :
               OfKind(calls, kind)[k] = calls[i] /\ calls[i].kind = kind
         /\ \A i \in 1..Len(calls) : calls[i].kind = kind =>
               \E k \in 1..Len(OfKind(calls, kind)) : OfKind(calls, kind)[k] = calls[i]
         /\ (\A i, j \in 1..Len(calls) : calls[i] = calls[j] => i = j) =>
               \A k, l \in 1..Len(OfKind(calls, kind)) :
                 OfKind(calls, kind)[k] = OfKind(calls, kind)[l] => k = l
<1> DEFINE at == {i \in 1..Len(calls) : calls[i].kind = kind}
           nth(k) == CHOOSE i \in at : Cardinality({j \in at : j <= i}) = k
           s == [k \in 1..Cardinality(at) |-> calls[nth(k)]]
<1>1. OfKind(calls, kind) = s
  BY DEF OfKind
<1>2. Len(calls) \in Nat /\ at \subseteq 1..Len(calls)
  OBVIOUS
<1>3. Cardinality(at) \in Nat
  BY <1>2, UptoCounts
<1>4. ASSUME NEW k \in 1..Cardinality(at)
      PROVE  nth(k) \in at /\ Cardinality(Upto(at, nth(k))) = k
  <2> HIDE DEF at
  <2>1. \E i \in at : Cardinality(Upto(at, i)) = k
    BY <1>2, Nth
  <2> QED
    BY <2>1 DEF Upto
<1>5. \A i \in at : i \in 1..Len(calls) /\ calls[i].kind = kind /\ calls[i] \in Calls
  OBVIOUS
<1>6. \A i \in 1..Len(calls) : calls[i].kind = kind => i \in at
  OBVIOUS
<1> HIDE DEF nth
<1>7. s \in Seq(Calls) /\ Len(s) = Cardinality(at) /\ \A k \in 1..Cardinality(at) : s[k] = calls[nth(k)]
  <2> HIDE DEF at
  <2>1. \A k \in 1..Cardinality(at) : calls[nth(k)] \in Calls
    BY <1>4, <1>5
  <2> QED
    BY <1>3, <2>1
<1>8. ASSUME NEW i \in at PROVE \E k \in 1..Cardinality(at) : nth(k) = i
  <2> DEFINE k == Cardinality(Upto(at, i))
  <2> HIDE DEF at
  <2>1. i \in Nat /\ i - 1 \in Nat
    BY <1>2
  <2>2. k \in Nat /\ k <= Cardinality(at)
    BY <1>2, <2>1, UptoCounts
  <2>3. k = Cardinality(Upto(at, i - 1)) + 1 /\ Cardinality(Upto(at, i - 1)) \in Nat
    BY <1>2, <2>1, UptoElement, UptoCounts
  <2>4. k \in 1..Cardinality(at)
    BY <1>3, <2>2, <2>3
  <2>5. nth(k) \in at /\ Cardinality(Upto(at, nth(k))) = Cardinality(Upto(at, i))
    BY <1>4, <2>4
  <2>6. nth(k) = i
    BY <1>2, <2>5, NthUnique
  <2> QED
    BY <2>4, <2>6
<1>9. ASSUME NEW k \in 1..Cardinality(at), NEW l \in 1..Cardinality(at), nth(k) = nth(l)
      PROVE  k = l
  BY <1>4, <1>9
<1> HIDE DEF s, at
<1>10. ASSUME NEW k \in 1..Len(s)
       PROVE  \E i \in 1..Len(calls) : s[k] = calls[i] /\ calls[i].kind = kind
  BY <1>4, <1>5, <1>7
<1>11. ASSUME NEW i \in 1..Len(calls), calls[i].kind = kind
       PROVE  \E k \in 1..Len(s) : s[k] = calls[i]
  BY <1>6, <1>7, <1>8, <1>11
<1>12. ASSUME \A i, j \in 1..Len(calls) : calls[i] = calls[j] => i = j,
              NEW k \in 1..Len(s), NEW l \in 1..Len(s), s[k] = s[l]
       PROVE  k = l
  <2>1. nth(k) \in 1..Len(calls) /\ nth(l) \in 1..Len(calls) /\ calls[nth(k)] = calls[nth(l)]
    BY <1>4, <1>5, <1>7, <1>12
  <2> QED
    BY <1>7, <1>9, <1>12, <2>1
<1> QED
  BY <1>1, <1>7, <1>10, <1>11, <1>12

LEMMA ToolTurnsTyped ==
  ASSUME NEW calls \in Seq(Calls)
  PROVE  /\ ToolTurns(calls) \in Seq(Turns) /\ Len(ToolTurns(calls)) = Len(calls)
         /\ \A i \in 1..Len(calls) : /\ ToolTurns(calls)[i].role = "tool"
                                     /\ ToolTurns(calls)[i].calls = <<calls[i]>>
<1>1. \A c \in Calls : Turn("tool", <<c>>) \in Turns
  BY DEF Turn, Turns, Roles
<1> QED
  BY <1>1 DEF ToolTurns, Turn

LEMMA Issued ==
  ASSUME step_count \in Nat, NEW n \in Nat, NEW kinds \in [1..n -> Kinds]
  PROVE  /\ IssuedCalls(kinds) \in Seq(Calls) /\ Len(IssuedCalls(kinds)) = n
         /\ \A i \in 1..n : /\ IssuedCalls(kinds)[i].kind = kinds[i]
                            /\ IssuedCalls(kinds)[i].id = <<step_count + 1, i>>
         /\ \A i, j \in 1..n : IssuedCalls(kinds)[i] = IssuedCalls(kinds)[j] => i = j
<1> DEFINE c(i) == [id |-> <<step_count + 1, i>>, kind |-> kinds[i]]
<1>1. Len(kinds) = n
  OBVIOUS
<1>2. IssuedCalls(kinds) = [i \in 1..n |-> c(i)]
  BY <1>1 DEF IssuedCalls
<1>3. \A i \in 1..n : c(i) \in Calls
  BY DEF Calls
<1> HIDE DEF c
<1>4. /\ IssuedCalls(kinds) \in Seq(Calls) /\ Len(IssuedCalls(kinds)) = n
      /\ \A i \in 1..n : IssuedCalls(kinds)[i] = c(i)
  BY <1>2, <1>3
<1>5. \A i \in 1..n : c(i).kind = kinds[i] /\ c(i).id = <<step_count + 1, i>>
  BY DEF c
<1>6. ASSUME NEW i \in 1..n, NEW j \in 1..n, IssuedCalls(kinds)[i] = IssuedCalls(kinds)[j]
      PROVE  i = j
  <2>1. <<step_count + 1, i>> = <<step_count + 1, j>>
    BY <1>4, <1>5, <1>6
  <2> QED
    BY <2>1
<1> QED
  BY <1>4, <1>5, <1>6

-----------------------------------------------------------------------------
(* What is added to a conversation.                                        *)

USE DEF Asks

LEMMA Beginning ==
  /\ build_initial_messages \in Seq(Turns)
  /\ Conversation(build_initial_messages, {})
<1> DEFINE ms == build_initial_messages
<1>1. Turn("system", <<>>) \in Turns /\ Turn("user", <<>>) \in Turns
  <2>1. <<>> \in Seq(Calls)
    OBVIOUS
  <2> QED
    BY <2>1 DEF Turn, Turns, Roles
<1>2. ms \in Seq(Turns) /\ Len(ms) = 2
  BY <1>1 DEF build_initial_messages
<1>3. ms[1].role = "system" /\ ms[2].role = "user"
  BY DEF build_initial_messages, Turn
<1>4. \A i \in 1..2 : ms[i].role \notin {"assistant", "tool"}
  <2>1. \A i \in 1..2 : i = 1 \/ i = 2
    OBVIOUS
  <2> QED
    BY <1>3, <2>1
<1> HIDE DEF ms
<1>5. Opens(ms)
  BY <1>2, <1>3 DEF Opens
<1>6. IssuedOnce(ms) /\ Belongs(ms) /\ AnsweredOnce(ms) /\ Answered(ms, {}) /\ Open(ms, {})
  BY <1>2, <1>4 DEF IssuedOnce, Belongs, AnsweredOnce, Answered, Open, Issues, Answers
<1> QED
  BY <1>2, <1>5, <1>6 DEF Conversation, ms

\* The last turn of a conversation without open calls may be one of the model with
\* calls that were not issued before: they are open now.
LEMMA Asked ==
  ASSUME NEW ms, Conversation(ms, {}), NEW calls \in Seq(Calls),
         \A c \in ToSet(calls) : \A i \in 1..Len(ms) : ~Issues(ms, i, c)
  PROVE  Conversation(Append(ms, Turn("assistant", calls)), ToSet(calls))
<1> DEFINE t == Turn("assistant", calls)
           n == Len(ms)
           us == Append(ms, t)
<1>1. t \in Turns /\ t.role = "assistant" /\ t.calls = calls
  BY DEF Turn, Turns, Roles
<1>2. ms \in Seq(Turns) /\ n \in Nat /\ n >= 2
  BY DEF Conversation, Opens
<1> HIDE DEF t
<1>3. us \in Seq(Turns) /\ Len(us) = n + 1 /\ us[n + 1] = t /\ \A i \in 1..n : us[i] = ms[i]
  BY <1>1, <1>2
<1>4. ToSet(calls) \subseteq Calls
  BY DEF ToSet
<1> HIDE DEF us, n
<1>5. \A i \in 1..Len(us) : i \in 1..n \/ i = n + 1
  BY <1>2, <1>3
<1>6. \A i \in 1..n : i \in 1..Len(us)
  BY <1>2, <1>3
<1>7. ASSUME NEW c, NEW i \in 1..n
      PROVE  (Issues(us, i, c) <=> Issues(ms, i, c)) /\ (Answers(us, i, c) <=> Answers(ms, i, c))
  BY <1>3 DEF Issues, Answers
<1>8. ASSUME NEW c
      PROVE  (Issues(us, n + 1, c) <=> c \in ToSet(calls)) /\ ~Answers(us, n + 1, c)
  BY <1>1, <1>3 DEF Issues, Answers
<1>9. \A i \in 1..n : \A c \in Calls : Issues(ms, i, c) => c \notin ToSet(calls)
  BY DEF n
<1>10. Opens(us)
  <2>1. ms[1].role = "system" /\ ms[2].role = "user"
        /\ \A i \in 3..n : ms[i].role \in {"assistant", "tool"}
    BY DEF Conversation, Opens, n
  <2>2. \A i \in 3..Len(us) : i \in 3..n \/ i = n + 1
    BY <1>2, <1>3
  <2>3. 1 \in 1..n /\ 2 \in 1..n /\ \A i \in 3..n : i \in 1..n
    BY <1>2
  <2>4. \A i \in 3..Len(us) : us[i].role \in {"assistant", "tool"}
    BY <1>1, <1>3, <2>1, <2>2, <2>3
  <2> QED
    BY <1>2, <1>3, <2>1, <2>3, <2>4 DEF Opens
<1>11. IssuedOnce(us)
  <2> SUFFICES ASSUME NEW c \in Calls, NEW i \in 1..Len(us), NEW j \in 1..Len(us),
                      Issues(us, i, c), Issues(us, j, c)
               PROVE  i = j
    BY DEF IssuedOnce
  <2>1. CASE i \in 1..n /\ j \in 1..n
    BY <1>7, <2>1 DEF Conversation, IssuedOnce, n
  <2>2. CASE i = n + 1 /\ j = n + 1
    BY <2>2
  <2>3. ASSUME i \in 1..n, j = n + 1 PROVE FALSE
    BY <1>7, <1>8, <1>9, <2>3
  <2>4. ASSUME j \in 1..n, i = n + 1 PROVE FALSE
    BY <1>7, <1>8, <1>9, <2>4
  <2> QED
    BY <1>5, <2>1, <2>2, <2>3, <2>4
<1>12. Belongs(us)
  <2> SUFFICES ASSUME NEW j \in 1..Len(us), us[j].role = "tool"
               PROVE  \E c \in Calls :
                        /\ Answers(us, j, c)
                        /\ \E i \in 1..(j - 1) : Issues(us, i, c) /\ NoneAsks(us, i + 1, j - 1)
    BY DEF Belongs
  <2>1. j \in 1..n /\ ms[j].role = "tool"
    BY <1>1, <1>3, <1>5
  <2>2. PICK c \in Calls, i \in 1..(j - 1) :
          Answers(ms, j, c) /\ Issues(ms, i, c) /\ NoneAsks(ms, i + 1, j - 1)
    BY <2>1 DEF Conversation, Belongs, n
  <2>3. i \in 1..n /\ \A k \in (i + 1)..(j - 1) : k \in 1..n
    BY <1>2, <2>1
  <2>4. Answers(us, j, c) /\ Issues(us, i, c)
    BY <1>7, <2>1, <2>2, <2>3
  <2>5. NoneAsks(us, i + 1, j - 1)
    BY <1>3, <2>2, <2>3 DEF NoneAsks
  <2> QED
    BY <2>2, <2>4, <2>5
<1>13. AnsweredOnce(us)
  BY <1>5, <1>7, <1>8 DEF AnsweredOnce, Conversation, n
<1>14. Answered(us, ToSet(calls))
  <2> SUFFICES ASSUME NEW c \in Calls, NEW i \in 1..Len(us), Issues(us, i, c)
               PROVE  c \in ToSet(calls) \/ \E j \in 1..Len(us) : Answers(us, j, c)
    BY DEF Answered
  <2>1. CASE i \in 1..n
    <3>1. Issues(ms, i, c)
      BY <1>7, <2>1
    <3>2. \E j \in 1..n : Answers(ms, j, c)
      BY <2>1, <3>1 DEF Conversation, Answered, n
    <3> QED
      BY <1>6, <1>7, <3>2
  <2> QED
    BY <1>5, <1>8, <2>1
<1>15. Open(us, ToSet(calls))
  <2> SUFFICES ASSUME NEW c \in ToSet(calls)
               PROVE  /\ \A j \in 1..Len(us) : ~Answers(us, j, c)
                      /\ \E i \in 1..Len(us) : Issues(us, i, c) /\ NoneAsks(us, i + 1, Len(us))
    BY DEF Open
  <2>1. Issues(us, n + 1, c) /\ n + 1 \in 1..Len(us) /\ NoneAsks(us, n + 2, Len(us))
    BY <1>2, <1>3, <1>8 DEF NoneAsks
  <2>2. ASSUME NEW j \in 1..n PROVE ~Answers(ms, j, c)
    <3>1. ASSUME Answers(ms, j, c) PROVE FALSE
      <4>1. ms[j].role = "tool" /\ ms[j].calls = <<c>>
        BY <3>1 DEF Answers
      <4>2. PICK d \in Calls, i \in 1..(j - 1) : Answers(ms, j, d) /\ Issues(ms, i, d)
        BY <4>1 DEF Conversation, Belongs, n
      <4>3. d = c
        BY <4>1, <4>2 DEF Answers
      <4>4. i \in 1..n
        BY <1>2
      <4> QED
        BY <1>4, <1>9, <4>2, <4>3, <4>4
    <3> QED
      BY <3>1
  <2> QED
    BY <1>2, <1>5, <1>7, <1>8, <2>1, <2>2
<1> QED
  BY <1>3, <1>4, <1>10, <1>11, <1>12, <1>13, <1>14, <1>15 DEF Conversation, us, t

LEMMA ToolTurnsJoined ==
  ASSUME NEW ms \in Seq(Turns), NEW calls \in Seq(Calls)
  PROVE  LET us == ms \o ToolTurns(calls)
         IN  /\ us \in Seq(Turns) /\ Len(us) = Len(ms) + Len(calls)
             /\ \A i \in 1..Len(ms) : us[i] = ms[i]
             /\ \A i \in 1..Len(calls) : /\ us[Len(ms) + i].role = "tool"
                                         /\ us[Len(ms) + i].calls = <<calls[i]>>
<1> DEFINE ts == ToolTurns(calls)
           us == ms \o ts
<1>1. ts \in Seq(Turns) /\ Len(ts) = Len(calls)
  BY ToolTurnsTyped
<1>5. \A i \in 1..Len(calls) : ts[i].role = "tool" /\ ts[i].calls = <<calls[i]>>
  BY ToolTurnsTyped
<1> HIDE DEF ts
<1>2. us \in Seq(Turns) /\ Len(us) = Len(ms) + Len(ts)
  BY <1>1
<1>3. \A i \in 1..Len(ms) : us[i] = ms[i]
  BY <1>1
<1>4. ASSUME NEW i \in 1..Len(ts) PROVE us[Len(ms) + i] = ts[i]
  <2>1. Len(ms) \in Nat /\ Len(ts) \in Nat
    BY <1>1
  <2>2. /\ Len(ms) + i \in 1..(Len(ms) + Len(ts)) /\ ~(Len(ms) + i <= Len(ms))
        /\ Len(ms) + i - Len(ms) = i
    BY <2>1
  <2> QED
    BY <1>1, <1>2, <2>2
<1> QED
  BY <1>1, <1>2, <1>3, <1>4, <1>5 DEF ts

\* Open calls are answered, each by a turn of its own.
LEMMA Answering ==
  ASSUME NEW ms, NEW open, Conversation(ms, open), NEW calls \in Seq(Calls), ToSet(calls) \subseteq open,
         \A k, l \in 1..Len(calls) : calls[k] = calls[l] => k = l
  PROVE  Conversation(ms \o ToolTurns(calls), open \ ToSet(calls))
<1> DEFINE n == Len(ms)
           m == Len(calls)
           us == ms \o ToolTurns(calls)
           rest == open \ ToSet(calls)
<1>1. ms \in Seq(Turns) /\ n \in Nat /\ n >= 2 /\ m \in Nat /\ open \subseteq Calls
  BY DEF Conversation, Opens
<1>3. /\ us \in Seq(Turns) /\ Len(us) = n + m
      /\ \A i \in 1..n : us[i] = ms[i]
      /\ \A i \in 1..m : us[n + i].role = "tool" /\ us[n + i].calls = <<calls[i]>>
  BY <1>1, ToolTurnsJoined
<1>4. /\ \A c : c \in ToSet(calls) <=> \E k \in 1..m : calls[k] = c
      /\ rest \subseteq Calls
  BY <1>1 DEF ToSet
<1> HIDE DEF us, n, m, rest
<1>5. \A i \in 1..Len(us) : i \in 1..n \/ \E k \in 1..m : i = n + k
  <2>1. ASSUME NEW i \in 1..Len(us), i \notin 1..n PROVE i - n \in 1..m /\ i = n + (i - n)
    BY <1>1, <1>3, <2>1
  <2> QED
    BY <2>1
<1>6. (\A i \in 1..n : i \in 1..Len(us)) /\ (\A k \in 1..m : n + k \in 1..Len(us) /\ n + k \notin 1..n)
  BY <1>1, <1>3
<1>7. ASSUME NEW c, NEW i \in 1..n
      PROVE  (Issues(us, i, c) <=> Issues(ms, i, c)) /\ (Answers(us, i, c) <=> Answers(ms, i, c))
  BY <1>3 DEF Issues, Answers
<1>8. ASSUME NEW c, NEW k \in 1..m
      PROVE  ~Asks(us, n + k) /\ ~Issues(us, n + k, c) /\ (Answers(us, n + k, c) <=> calls[k] = c)
  <2>1. us[n + k].role = "tool" /\ us[n + k].calls = <<calls[k]>>
    BY <1>3
  <2>2. <<calls[k]>> = <<c>> <=> calls[k] = c
    OBVIOUS
  <2> QED
    BY <2>1, <2>2 DEF Issues, Answers
<1>9. \A k \in 1..m : calls[k] \in open /\ calls[k] \in Calls
  BY <1>1, <1>4
\* The turn of the model that issued an open call is the last one.
<1>10. ASSUME NEW i \in 1..n, NoneAsks(ms, i + 1, n), NEW to \in n..(n + m)
       PROVE  NoneAsks(us, i + 1, to)
  <2> SUFFICES ASSUME NEW k \in (i + 1)..to PROVE ~Asks(us, k)
    BY DEF NoneAsks
  <2>1. k \in 1..Len(us)
    BY <1>1, <1>3
  <2>2. CASE k \in 1..n
    <3>1. k \in (i + 1)..n
      BY <1>1, <2>2
    <3> QED
      BY <1>3, <1>10, <2>2, <3>1 DEF NoneAsks
  <2>3. CASE k \notin 1..n
    <3>1. PICK l \in 1..m : k = n + l
      BY <1>5, <2>1, <2>3
    <3> QED
      BY <1>8, <3>1
  <2> QED
    BY <2>2, <2>3
<1>11. Opens(us)
  <2>1. ms[1].role = "system" /\ ms[2].role = "user"
        /\ \A i \in 3..n : ms[i].role \in {"assistant", "tool"}
    BY DEF Conversation, Opens, n
  <2>2. 1 \in 1..n /\ 2 \in 1..n /\ \A i \in 3..n : i \in 1..n
    BY <1>1
  <2>3. ASSUME NEW i \in 3..Len(us) PROVE us[i].role \in {"assistant", "tool"}
    <3>1. i \in 1..Len(us)
      BY <1>1, <1>3
    <3>2. CASE i \in 1..n
      <4>1. i \in 3..n
        BY <1>1, <3>2
      <4> QED
        BY <1>3, <2>1, <2>2, <4>1
    <3>3. ASSUME NEW k \in 1..m, i = n + k PROVE us[i].role \in {"assistant", "tool"}
      BY <1>3, <3>3
    <3> QED
      BY <1>5, <3>1, <3>2, <3>3
  <2> QED
    BY <1>1, <1>3, <2>1, <2>2, <2>3 DEF Opens
<1>12. IssuedOnce(us)
  <2> SUFFICES ASSUME NEW c \in Calls, NEW i \in 1..Len(us), NEW j \in 1..Len(us),
                      Issues(us, i, c), Issues(us, j, c)
               PROVE  i = j
    BY DEF IssuedOnce
  <2>1. i \in 1..n /\ j \in 1..n
    BY <1>5, <1>8
  <2> QED
    BY <1>7, <2>1 DEF Conversation, IssuedOnce, n
<1>13. Belongs(us)
  <2> SUFFICES ASSUME NEW j \in 1..Len(us), us[j].role = "tool"
               PROVE  \E c \in Calls :
                        /\ Answers(us, j, c)
                        /\ \E i \in 1..(j - 1) : Issues(us, i, c) /\ NoneAsks(us, i + 1, j - 1)
    BY DEF Belongs
  <2>1. CASE j \in 1..n
    <3>1. PICK c \in Calls, i \in 1..(j - 1) :
            Answers(ms, j, c) /\ Issues(ms, i, c) /\ NoneAsks(ms, i + 1, j - 1)
      BY <1>3, <2>1 DEF Conversation, Belongs, n
    <3>2. i \in 1..n /\ \A k \in (i + 1)..(j - 1) : k \in 1..n
      BY <1>1, <2>1
    <3>3. Answers(us, j, c) /\ Issues(us, i, c)
      BY <1>7, <2>1, <3>1, <3>2
    <3>4. NoneAsks(us, i + 1, j - 1)
      BY <1>3, <3>1, <3>2 DEF NoneAsks
    <3> QED
      BY <3>1, <3>3, <3>4
  <2>2. ASSUME NEW k \in 1..m, j = n + k
        PROVE  \E c \in Calls :
                 /\ Answers(us, j, c)
                 /\ \E i \in 1..(j - 1) : Issues(us, i, c) /\ NoneAsks(us, i + 1, j - 1)
    <3>1. PICK i \in 1..n : Issues(ms, i, calls[k]) /\ NoneAsks(ms, i + 1, n)
      BY <1>9 DEF Conversation, Open, n
    <3>2. i \in 1..(j - 1) /\ j - 1 \in n..(n + m)
      BY <1>1, <2>2
    <3>3. Issues(us, i, calls[k]) /\ NoneAsks(us, i + 1, j - 1) /\ Answers(us, j, calls[k])
      BY <1>7, <1>8, <1>10, <2>2, <3>1, <3>2
    <3> QED
      BY <1>9, <3>2, <3>3
  <2> QED
    BY <1>5, <2>1, <2>2
<1>14. AnsweredOnce(us)
  <2> SUFFICES ASSUME NEW c \in Calls, NEW i \in 1..Len(us), NEW j \in 1..Len(us),
                      Answers(us, i, c), Answers(us, j, c)
               PROVE  i = j
    BY DEF AnsweredOnce
  <2>1. CASE i \in 1..n /\ j \in 1..n
    BY <1>7, <2>1 DEF Conversation, AnsweredOnce, n
  <2>2. ASSUME NEW k \in 1..m, c = calls[k], NEW l \in 1..n, Answers(us, l, c) PROVE FALSE
    BY <1>7, <1>9, <2>2 DEF Conversation, Open, n
  <2>3. ASSUME NEW k \in 1..m, NEW l \in 1..m, i = n + k, j = n + l PROVE i = j
    BY <1>8, <2>3 DEF m
  <2> QED
    BY <1>5, <1>8, <2>1, <2>2, <2>3
<1>15. Answered(us, rest)
  <2> SUFFICES ASSUME NEW c \in Calls, NEW i \in 1..Len(us), Issues(us, i, c), c \notin rest
               PROVE  \E j \in 1..Len(us) : Answers(us, j, c)
    BY DEF Answered
  <2>1. i \in 1..n /\ Issues(ms, i, c)
    BY <1>5, <1>7, <1>8
  <2>2. CASE c \in open
    <3>1. PICK k \in 1..m : calls[k] = c
      BY <1>4, <2>2 DEF rest
    <3> QED
      BY <1>6, <1>8, <3>1
  <2>3. CASE c \notin open
    <3>1. \E j \in 1..n : Answers(ms, j, c)
      BY <2>1, <2>3 DEF Conversation, Answered, n
    <3> QED
      BY <1>6, <1>7, <3>1
  <2> QED
    BY <2>2, <2>3
<1>16. Open(us, rest)
  <2> SUFFICES ASSUME NEW c \in rest
               PROVE  /\ \A j \in 1..Len(us) : ~Answers(us, j, c)
                      /\ \E i \in 1..Len(us) : Issues(us, i, c) /\ NoneAsks(us, i + 1, Len(us))
    BY DEF Open
  <2>1. c \in open /\ \A k \in 1..m : calls[k] # c
    BY <1>4 DEF rest
  <2>2. /\ \A j \in 1..n : ~Answers(ms, j, c)
        /\ \E i \in 1..n : Issues(ms, i, c) /\ NoneAsks(ms, i + 1, n)
    BY <2>1 DEF Conversation, Open, n
  <2>3. PICK i \in 1..n : Issues(ms, i, c) /\ NoneAsks(ms, i + 1, n)
    BY <2>2
  <2>4. n + m \in n..(n + m)
    BY <1>1 DEF m
  <2>5. Issues(us, i, c) /\ NoneAsks(us, i + 1, Len(us)) /\ i \in 1..Len(us)
    BY <1>3, <1>6, <1>7, <1>10, <2>3, <2>4
  <2>6. \A j \in 1..Len(us) : ~Answers(us, j, c)
    BY <1>5, <1>7, <1>8, <2>1, <2>2
  <2> QED
    BY <2>5, <2>6
<1> QED
  BY <1>3, <1>4, <1>11, <1>12, <1>13, <1>14, <1>15, <1>16 DEF Conversation, us, rest

-----------------------------------------------------------------------------
(* What a window cuts off.                                                 *)

\* The k-th element of S from its end.
LEMMA NthLast ==
  ASSUME NEW S, NEW n \in Nat, S \subseteq 1..n, NEW k \in 1..Cardinality(S)
  PROVE  \E i \in S : Cardinality({j \in S : j >= i}) = k
<1>1. Cardinality(S) \in Nat /\ IsFiniteSet(S)
  BY UptoCounts
<1> DEFINE l == Cardinality(S) + 1 - k
<1>2. l \in 1..Cardinality(S)
  BY <1>1
<1>3. PICK i \in S : Cardinality(Upto(S, i)) = l
  BY <1>2, Nth
<1> DEFINE A == Upto(S, i - 1)
           B == {j \in S : j >= i}
<1>4. i - 1 \in Nat /\ \A j \in S : j \in Nat
  OBVIOUS
<1>5. IsFiniteSet(A) /\ Cardinality(A) \in Nat /\ Cardinality(A) + 1 = l
  BY <1>3, <1>4, UptoCounts, UptoElement
<1>6. IsFiniteSet(B) /\ Cardinality(B) \in Nat
  BY <1>1, FS_Subset, FS_CardinalityType
<1>7. S = A \cup B /\ A \cap B = {}
  <2>1. \A j \in S : (j <= i - 1 \/ j >= i) /\ ~(j <= i - 1 /\ j >= i)
    BY <1>4
  <2> QED
    BY <2>1 DEF Upto
<1> HIDE DEF A, B
<1>8. Cardinality(A \cap B) = 0
  BY <1>7, FS_EmptySet, Zenon
<1>9. Cardinality(A \cup B) = Cardinality(A) + Cardinality(B) - Cardinality(A \cap B)
  BY <1>5, <1>6, FS_Union, Zenon
<1>10. Cardinality(B) = k
  BY <1>1, <1>5, <1>6, <1>7, <1>8, <1>9
<1> QED
  BY <1>3, <1>10 DEF B

\* rq is the first two turns of ms and those from s on, where the model speaks.
CutAt(ms, rq, s) ==
  /\ s = Len(ms) + 1 \/ Asks(ms, s)
  /\ rq \in Seq(Turns) /\ Len(rq) = Len(ms) + 3 - s
  /\ rq[1] = ms[1] /\ rq[2] = ms[2]
  /\ \A i \in 3..Len(rq) : rq[i] = ms[i + s - 3]

LEMMA Joined ==
  ASSUME NEW S, NEW s \in Seq(S), NEW t \in Seq(S)
  PROVE  /\ s \o t \in Seq(S) /\ Len(s \o t) = Len(s) + Len(t)
         /\ \A i \in 1..(Len(s) + Len(t)) :
              (s \o t)[i] = IF i <= Len(s) THEN s[i] ELSE t[i - Len(s)]
  OBVIOUS

LEMMA CutMade ==
  ASSUME NEW ms \in Seq(Turns), Len(ms) >= 2, NEW s \in 3..(Len(ms) + 1),
         s = Len(ms) + 1 \/ Asks(ms, s)
  PROVE  CutAt(ms, SubSeq(ms, 1, 2) \o SubSeq(ms, s, Len(ms)), s)
<1> DEFINE a == SubSeq(ms, 1, 2)
           b == SubSeq(ms, s, Len(ms))
           rq == a \o b
<1>1. Len(ms) \in Nat /\ s \in Nat
  OBVIOUS
<1>2. a \in Seq(Turns) /\ Len(a) = 2
  BY <1>1
<1>10. a[1] = ms[1] /\ a[2] = ms[2]
  BY <1>1
<1>3. b \in Seq(Turns)
  BY <1>1
<1>4. Len(b) = Len(ms) + 1 - s
  BY <1>1
<1>5. \A i \in 1..Len(b) : b[i] = ms[s + i - 1]
  BY <1>1, <1>4
<1> HIDE DEF a, b
<1>6. /\ rq \in Seq(Turns) /\ Len(rq) = Len(a) + Len(b)
      /\ \A i \in 1..(Len(a) + Len(b)) : rq[i] = IF i <= Len(a) THEN a[i] ELSE b[i - Len(a)]
  BY <1>2, <1>3, Joined
<1> HIDE DEF rq
<1>7. Len(rq) = Len(ms) + 3 - s
  BY <1>1, <1>2, <1>4, <1>6
<1>8. rq[1] = ms[1] /\ rq[2] = ms[2]
  <2>1. 1 \in 1..(Len(a) + Len(b)) /\ 2 \in 1..(Len(a) + Len(b))
    BY <1>1, <1>2, <1>4
  <2> QED
    BY <1>2, <1>6, <1>10, <2>1
<1>9. ASSUME NEW i \in 3..Len(rq) PROVE rq[i] = ms[i + s - 3]
  <2>1. i - 2 \in 1..Len(b) /\ i \in 1..(Len(a) + Len(b)) /\ ~(i <= 2) /\ i \in Int
    BY <1>1, <1>2, <1>4, <1>7
  <2>2. rq[i] = b[i - 2]
    BY <1>2, <1>6, <2>1
  <2>3. s + (i - 2) - 1 = i + s - 3
    BY <1>1, <2>1
  <2> QED
    BY <1>5, <2>1, <2>2, <2>3
<1>11. CutAt(ms, rq, s)
  BY <1>6, <1>7, <1>8, <1>9 DEF CutAt
<1> QED
  BY <1>11 DEF rq, a, b

LEMMA WindowCuts ==
  ASSUME NEW ms, Conversation(ms, {}), NEW w \in Nat
  PROVE  \E s \in 3..(Len(ms) + 1) : CutAt(ms, window_messages(ms, w), s)
<1> DEFINE n == Len(ms)
           others == {i \in 1..n : ms[i].role \notin {"system", "user"}}
           p == IF others = {} THEN n ELSE Min(others) - 1
           assistants == {i \in (p + 1)..n : ms[i].role = "assistant"}
           start == CHOOSE i \in assistants : Cardinality({j \in assistants : j >= i}) = w
<1>1. /\ ms \in Seq(Turns) /\ n \in Nat /\ n >= 2
      /\ ms[1].role = "system" /\ ms[2].role = "user"
      /\ \A i \in 3..n : ms[i].role \in {"assistant", "tool"}
  BY DEF Conversation, Opens
<1>8. n \in Nat /\ n >= 2
  BY <1>1
<1>2. others = 3..n
  <2>1. \A i \in 1..n : i = 1 \/ i = 2 \/ i \in 3..n
    BY <1>1
  <2>2. 3..n \subseteq 1..n /\ 1 \notin 3..n /\ 2 \notin 3..n
    BY <1>1
  <2> HIDE DEF n
  <2> QED
    BY <1>1, <2>1, <2>2
<1> HIDE DEF others
<1>3. p = 2
  <2>1. CASE n = 2
    BY <1>2, <2>1
  <2>2. CASE n # 2
    <3>1. 3 \in 3..n /\ \A i \in 3..n : 3 <= i
      <4> HIDE DEF n
      <4>1. n \in Nat /\ n >= 3
        BY <1>8, <2>2
      <4> QED
        BY <4>1
    <3>2. \A x \in 3..n : (\A y \in 3..n : x <= y) => x = 3
      BY <3>1
    <3>3. Min(3..n) = 3
      BY <3>1, <3>2 DEF Min
    <3> QED
      BY <1>2, <3>1, <3>3
  <2> QED
    BY <2>1, <2>2
<1>4. window_messages(ms, w) =
        IF w = 0 THEN SubSeq(ms, 1, p)
        ELSE IF Cardinality(assistants) <= w THEN ms
        ELSE SubSeq(ms, 1, p) \o SubSeq(ms, start, n)
  BY DEF window_messages, others
<1> HIDE DEF p
<1>5. CASE w = 0
  <2>1. CutAt(ms, SubSeq(ms, 1, 2) \o SubSeq(ms, n + 1, n), n + 1)
    BY <1>1, CutMade
  <2>2. SubSeq(ms, n + 1, n) = <<>> /\ SubSeq(ms, 1, 2) \in Seq(Turns)
    BY <1>1
  <2>3. SubSeq(ms, 1, 2) \o <<>> = SubSeq(ms, 1, 2)
    BY <2>2
  <2>4. n + 1 \in 3..(n + 1)
    BY <1>1
  <2> QED
    BY <1>3, <1>4, <1>5, <2>1, <2>2, <2>3, <2>4
<1>6. CASE w # 0 /\ Cardinality(assistants) <= w
  <2>1. 3 = n + 1 \/ Asks(ms, 3)
    <3>1. CASE n # 2
      <4>1. 3 \in 1..n /\ ms[3].role \in {"assistant", "tool"}
        BY <1>1, <3>1
      <4>2. ASSUME ms[3].role = "tool" PROVE FALSE
        <5>1. PICK c \in Calls, i \in 1..(3 - 1) : Issues(ms, i, c)
          BY <4>1, <4>2 DEF Conversation, Belongs
        <5>2. i = 1 \/ i = 2
          BY <5>1
        <5> QED
          BY <1>1, <5>1, <5>2 DEF Issues
      <4> QED
        BY <4>1, <4>2
    <3> QED
      BY <3>1
  <2>2. \A i \in 3..n : i + 3 - 3 = i
    BY <1>1
  <2>3. CutAt(ms, ms, 3)
    BY <1>1, <2>1, <2>2 DEF CutAt
  <2>4. 3 \in 3..(n + 1)
    BY <1>1
  <2> QED
    BY <1>4, <1>6, <2>3, <2>4
<1>7. CASE w # 0 /\ ~(Cardinality(assistants) <= w)
  <2>1. assistants \subseteq 1..n /\ \A i \in assistants : i \in 3..n /\ Asks(ms, i)
    BY <1>1, <1>3
  <2> HIDE DEF assistants, n
  <2>2. Cardinality(assistants) \in Nat
    BY <1>1, <2>1, UptoCounts
  <2>3. w \in 1..Cardinality(assistants)
    BY <1>7, <2>2
  <2>4. start \in assistants
    BY <1>1, <2>1, <2>3, NthLast
  <2> HIDE DEF start
  <2>5. start \in 3..(n + 1) /\ Asks(ms, start)
    BY <1>1, <2>1, <2>4
  <2>6. CutAt(ms, SubSeq(ms, 1, 2) \o SubSeq(ms, start, n), start)
    BY <1>1, <2>5, CutMade DEF n
  <2> QED
    BY <1>3, <1>4, <1>7, <2>5, <2>6 DEF n
<1> QED
  BY <1>5, <1>6, <1>7

\* The cut conversation is a conversation: no turn of a tool lost its call, because
\* the cut is at a turn of the model.
LEMMA CutConverses ==
  ASSUME NEW ms, Conversation(ms, {}), NEW s \in 3..(Len(ms) + 1), NEW rq, CutAt(ms, rq, s)
  PROVE  Conversation(rq, {})
<1> DEFINE n == Len(ms)
           m == Len(rq)
           at(i) == IF i < 3 THEN i ELSE i + s - 3
<1>1. /\ ms \in Seq(Turns) /\ n \in Nat /\ n >= 2
      /\ ms[1].role = "system" /\ ms[2].role = "user"
      /\ \A i \in 3..n : ms[i].role \in {"assistant", "tool"}
  BY DEF Conversation, Opens
<1>2. /\ rq \in Seq(Turns) /\ m = n + 3 - s /\ rq[1] = ms[1] /\ rq[2] = ms[2]
      /\ \A i \in 3..m : rq[i] = ms[i + s - 3]
      /\ s = n + 1 \/ Asks(ms, s)
  BY DEF CutAt
<1> HIDE DEF n, m
<1>3. s \in Nat /\ s >= 3 /\ s <= n + 1 /\ m \in Nat /\ m >= 2
  BY <1>1, <1>2 DEF n
<1>4. \A i \in 1..m : i = 1 \/ i = 2 \/ i \in 3..m
  BY <1>3
\* Turn i of the request is turn at(i) of the conversation.
<1>5. \A i \in 1..m : at(i) \in 1..n /\ rq[i] = ms[at(i)]
  BY <1>1, <1>2, <1>3, <1>4
<1>6. \A i, j \in 1..m : (at(i) = at(j) => i = j) /\ (i < j <=> at(i) < at(j))
  BY <1>3
<1>7. \A k \in s..n : k - s + 3 \in 3..m /\ at(k - s + 3) = k
  BY <1>1, <1>2, <1>3
<1>8. \A i \in 3..m : at(i) \in s..n /\ i \in 1..m
  BY <1>1, <1>2, <1>3
<1> HIDE DEF at
<1>9. ASSUME NEW c, NEW i \in 1..m
      PROVE  (Issues(rq, i, c) <=> Issues(ms, at(i), c)) /\ (Answers(rq, i, c) <=> Answers(ms, at(i), c))
  BY <1>5 DEF Issues, Answers
\* Only turns from the third on ask or answer.
<1>10. ASSUME NEW i \in 1..m, rq[i].role \in {"assistant", "tool"} PROVE i \in 3..m
  BY <1>1, <1>2, <1>4, <1>10
<1>11. Opens(rq)
  <2>1. \A i \in 3..m : rq[i].role \in {"assistant", "tool"}
    <3>1. \A i \in 3..m : at(i) \in 3..n
      BY <1>3, <1>8
    <3> QED
      BY <1>1, <1>5, <1>8, <3>1
  <2> QED
    BY <1>1, <1>2, <1>3, <2>1 DEF Opens, m
<1>12. IssuedOnce(rq)
  BY <1>5, <1>6, <1>9 DEF IssuedOnce, Conversation, n, m
<1>13. AnsweredOnce(rq)
  BY <1>5, <1>6, <1>9 DEF AnsweredOnce, Conversation, n, m
\* A turn of a tool after the cut has the turn of the model it belongs to there too.
<1>14. ASSUME NEW j \in s..n, NEW i \in 1..(j - 1), ms[j].role = "tool", NoneAsks(ms, i + 1, j - 1)
       PROVE  i >= s
  <2>1. s # n + 1 /\ Asks(ms, s)
    BY <1>1, <1>2, <1>3
  <2>2. s # j
    BY <1>14, <2>1
  <2>3. ASSUME i < s PROVE FALSE
    <3>1. s \in (i + 1)..(j - 1)
      BY <1>1, <1>3, <2>2, <2>3
    <3> QED
      BY <1>14, <2>1, <3>1 DEF NoneAsks
  <2> QED
    BY <1>1, <1>3, <2>3
<1>15. Belongs(rq)
  <2> SUFFICES ASSUME NEW j \in 1..m, rq[j].role = "tool"
               PROVE  \E c \in Calls :
                        /\ Answers(rq, j, c)
                        /\ \E i \in 1..(j - 1) : Issues(rq, i, c) /\ NoneAsks(rq, i + 1, j - 1)
    BY DEF Belongs, m
  <2>1. j \in 3..m /\ at(j) \in s..n /\ at(j) \in 1..n /\ ms[at(j)].role = "tool"
    BY <1>5, <1>8, <1>10
  <2>2. PICK c \in Calls, i \in 1..(at(j) - 1) :
          Answers(ms, at(j), c) /\ Issues(ms, i, c) /\ NoneAsks(ms, i + 1, at(j) - 1)
    BY <2>1 DEF Conversation, Belongs, n
  <2>3. i >= s /\ i \in s..n
    <3>1. i >= s
      BY <1>14, <2>1, <2>2
    <3> QED
      BY <1>1, <1>3, <2>1, <3>1
  <2> DEFINE h == i - s + 3
  <2>4. h \in 3..m /\ at(h) = i
    BY <1>7, <2>3
  <2> HIDE DEF h
  <2>5. h \in 1..m /\ h < j /\ h \in 1..(j - 1)
    <3>1. h \in 1..m /\ at(h) < at(j)
      BY <1>1, <1>3, <2>1, <2>2, <2>4
    <3>2. h < j
      BY <1>6, <3>1
    <3> QED
      BY <1>3, <3>1, <3>2
  <2>6. NoneAsks(rq, h + 1, j - 1)
    <3> SUFFICES ASSUME NEW k \in (h + 1)..(j - 1) PROVE ~Asks(rq, k)
      BY DEF NoneAsks
    <3>1. k \in 1..m /\ h < k /\ k < j
      BY <1>3, <2>5
    <3>2. at(h) < at(k) /\ at(k) < at(j) /\ at(k) \in 1..n
      BY <1>5, <1>6, <2>5, <3>1
    <3>3. at(k) \in (i + 1)..(at(j) - 1)
      BY <1>1, <2>1, <2>3, <2>4, <3>2
    <3>4. ~Asks(ms, at(k))
      BY <2>2, <3>3 DEF NoneAsks
    <3> QED
      BY <1>5, <3>1, <3>4
  <2> QED
    BY <1>9, <2>2, <2>4, <2>5, <2>6
<1>16. Answered(rq, {})
  <2> SUFFICES ASSUME NEW c \in Calls, NEW i \in 1..m, Issues(rq, i, c)
               PROVE  \E j \in 1..m : Answers(rq, j, c)
    BY DEF Answered, m
  <2>1. i \in 3..m /\ Issues(ms, at(i), c) /\ at(i) \in s..n /\ at(i) \in 1..n
    BY <1>5, <1>8, <1>9, <1>10 DEF Issues
  <2>2. PICK j \in 1..n : Answers(ms, j, c)
    BY <2>1 DEF Conversation, Answered, n
  <2>3. PICK d \in Calls, h \in 1..(j - 1) : Answers(ms, j, d) /\ Issues(ms, h, d)
    BY <2>2 DEF Conversation, Belongs, Answers, n
  <2>4. d = c
    BY <2>2, <2>3 DEF Answers
  <2>5. h \in 1..n
    BY <1>1, <2>2, <2>3
  <2>6. h = at(i)
    BY <2>1, <2>3, <2>4, <2>5 DEF Conversation, IssuedOnce, n
  <2>7. j \in s..n
    BY <1>1, <1>3, <2>1, <2>2, <2>3, <2>6
  <2>8. j - s + 3 \in 1..m /\ at(j - s + 3) = j
    BY <1>7, <1>8, <2>7
  <2> QED
    BY <1>9, <2>2, <2>8
<1> QED
  BY <1>2, <1>11, <1>12, <1>13, <1>15, <1>16 DEF Conversation, Open

\* A conversation without open calls is a request the provider accepts.
LEMMA ConversationWellFormed ==
  ASSUME NEW rq, Conversation(rq, {})
  PROVE  WellFormed(rq)
<1> DEFINE n == Len(rq)
           Closes(j) == j = n + 1 \/ rq[j].role = "assistant"
           next(i) == CHOOSE j \in (i + 1)..(n + 1) :
                        Closes(j) /\ \A k \in (i + 1)..(j - 1) : ~Closes(k)
<1>1. /\ rq \in Seq(Turns) /\ n \in Nat /\ n >= 2
      /\ rq[1].role = "system" /\ rq[2].role = "user"
      /\ \A i \in 3..n : rq[i].role \in {"assistant", "tool"}
  BY DEF Conversation, Opens
<1>2. ASSUME NEW i \in 1..n
      PROVE  /\ next(i) \in (i + 1)..(n + 1) /\ Closes(next(i))
             /\ \A k \in (i + 1)..(next(i) - 1) : ~Closes(k)
  <2> DEFINE T == {j \in (i + 1)..(n + 1) : Closes(j)}
  <2>1. n + 1 \in T /\ T \subseteq Nat
    BY <1>1
  <2>2. PICK j \in T : \A k \in T : j <= k
    <3> HIDE DEF T
    <3> QED
      BY <2>1, Least
  <2>3. j \in (i + 1)..(n + 1) /\ Closes(j)
    BY <2>2
  <2>4. ASSUME NEW k \in (i + 1)..(j - 1) PROVE ~Closes(k)
    <3>1. k \in (i + 1)..(n + 1) /\ ~(j <= k)
      <4>1. j \in (i + 1)..(n + 1) /\ n \in Nat
        BY <1>1, <2>3
      <4> HIDE DEF n
      <4> QED
        BY <4>1
    <3> QED
      BY <2>2, <3>1
  <2> HIDE DEF Closes, n, T
  <2>5. \E x \in (i + 1)..(n + 1) : Closes(x) /\ \A k \in (i + 1)..(x - 1) : ~Closes(k)
    BY <2>3, <2>4
  <2> QED
    BY <2>5
<1> HIDE DEF next
<1>3. ASSUME NEW i \in 1..n, rq[i].role = "assistant", NEW c \in ToSet(rq[i].calls)
      PROVE  Cardinality({j \in (i + 1)..(next(i) - 1) : c \in ToSet(rq[j].calls)}) = 1
  <2> DEFINE J == {j \in (i + 1)..(next(i) - 1) : c \in ToSet(rq[j].calls)}
  <2>1. c \in Calls /\ Issues(rq, i, c)
    <3>1. rq[i].calls \in Seq(Calls)
      <4>1. rq[i] \in Turns
        BY <1>1
      <4> QED
        BY <4>1 DEF Turns
    <3>2. PICK k \in DOMAIN rq[i].calls : c = rq[i].calls[k]
      BY <1>3 DEF ToSet
    <3> QED
      BY <1>3, <3>1, <3>2 DEF Issues
  <2>2. i \in 3..n
    <3>1. i # 1 /\ i # 2
      BY <1>1, <1>3
    <3> QED
      BY <1>1, <3>1
  <2>3. next(i) \in (i + 1)..(n + 1) /\ Closes(next(i)) /\ \A k \in (i + 1)..(next(i) - 1) : ~Closes(k)
    BY <1>2
  \* Between a turn of the model and the next there are only answers.
  <2>4. ASSUME NEW j \in J PROVE j \in 1..n /\ Answers(rq, j, c)
    <3>1. j \in 3..n /\ ~Closes(j) /\ j \in 1..n
      BY <1>1, <2>2, <2>3
    <3>2. rq[j].role = "tool"
      BY <1>1, <3>1
    <3>3. PICK d \in Calls : Answers(rq, j, d)
      BY <3>1, <3>2 DEF Conversation, Belongs
    <3>4. c \in ToSet(<<d>>)
      BY <3>3 DEF Answers
    <3>5. c = d
      BY <3>4 DEF ToSet
    <3> QED
      BY <3>1, <3>3, <3>5
  <2>5. PICK j \in 1..n : Answers(rq, j, c)
    BY <2>1 DEF Conversation, Answered
  <2>6. i < j /\ NoneAsks(rq, i + 1, j - 1) /\ rq[j].role = "tool"
    <3>1. PICK d \in Calls, h \in 1..(j - 1) :
            Answers(rq, j, d) /\ Issues(rq, h, d) /\ NoneAsks(rq, h + 1, j - 1)
      BY <2>5 DEF Conversation, Belongs, Answers
    <3>2. d = c
      BY <2>5, <3>1 DEF Answers
    <3>3. h \in 1..n
      BY <1>1, <2>5, <3>1
    <3>4. h = i
      BY <2>1, <3>1, <3>2, <3>3 DEF Conversation, IssuedOnce
    <3> QED
      BY <1>1, <2>5, <3>1, <3>4 DEF Answers
  <2>7. j < next(i)
    <3>1. ASSUME next(i) <= j PROVE FALSE
      <4>1. next(i) # n + 1 /\ rq[next(i)].role = "assistant"
        BY <1>1, <2>3, <2>5, <3>1
      <4>2. next(i) \in (i + 1)..(j - 1)
        BY <1>1, <2>3, <2>5, <2>6, <3>1, <4>1
      <4> QED
        BY <2>6, <4>1, <4>2 DEF NoneAsks
    <3> QED
      BY <1>1, <2>3, <2>5, <3>1
  <2>8. j \in J
    <3>1. j \in (i + 1)..(next(i) - 1)
      BY <1>1, <2>3, <2>5, <2>6, <2>7
    <3>2. c \in ToSet(rq[j].calls)
      <4>1. rq[j].calls = <<c>>
        BY <2>5 DEF Answers
      <4> QED
        BY <4>1 DEF ToSet
    <3> QED
      BY <3>1, <3>2
  <2> HIDE DEF J
  <2>9. J = {j}
    <3>1. \A k \in J : k = j
      BY <2>1, <2>4, <2>5 DEF Conversation, AnsweredOnce
    <3> QED
      BY <2>8, <3>1
  <2>10. Cardinality(J) = 1
    BY <2>9, FS_Singleton
  <2> QED
    BY <2>10 DEF J
<1>4. ASSUME NEW i \in 1..n, rq[i].role = "tool"
      PROVE  \E j \in 1..(i - 1) : rq[j].role = "assistant" /\ rq[i].calls[1] \in ToSet(rq[j].calls)
  <2>1. PICK c \in Calls, j \in 1..(i - 1) : Answers(rq, i, c) /\ Issues(rq, j, c)
    BY <1>4 DEF Conversation, Belongs
  <2>2. rq[i].calls[1] = c
    BY <2>1 DEF Answers
  <2> QED
    BY <2>1, <2>2 DEF Issues
<1> QED
  BY <1>3, <1>4 DEF WellFormed, next

-----------------------------------------------------------------------------
(* The inductive invariant.                                                *)

Steps == {"sense", "reason", "act"} \X Nat

Traced == recorded \in Seq(Steps) /\ _step_sequence = Len(recorded)

Typed ==
  /\ pc \in {"control", "sense", "pre_act", "act", "post_act", "deactivate", "returned"}
  /\ iteration \in 0..(max_iterations - 1)
  /\ step_count \in 0..max_iterations /\ answer \in 0..max_iterations
  /\ terminated \in {"incomplete", "final_answer", "implicit_final_answer", "max_iterations"}
  /\ max_hit \in BOOLEAN
  /\ act_output \in {"none", "tools", "max", "answer"}
  /\ status \in {"completed", "failed", "cancelled", "paused"}
  /\ messages \in Seq(Turns)
  /\ pending \in Seq(Calls) /\ \A i \in 1..Len(pending) : pending[i].kind = "tool"
  /\ Traced

Asking == pc \in {"control", "sense", "pre_act"}
Acting == pc \in {"act", "post_act"}
Over   == pc \in {"deactivate", "returned"}

\* A turn of the model is taken in every iteration.
Counted ==
  /\ Asking => step_count = iteration
  /\ Acting => step_count = iteration + 1

\* How the loop ended is not decided before it ends, except by an answer.
Ending ==
  /\ ~Over => /\ status = "completed" /\ ~max_hit /\ terminated # "max_iterations"
              /\ act_output \in {"none", "tools"}
  /\ pc \in {"sense", "pre_act", "act", "post_act"} => answer = 0
  /\ Over /\ status = "completed" =>
       /\ max_hit <=> answer = 0
       /\ max_hit <=> terminated = "max_iterations"
       /\ max_hit => step_count = max_iterations
       /\ answer # 0 => act_output = "answer"

\* As long as another request may follow, the turns are a conversation, and the
\* calls that are open are the pending ones.
Numbered(ms, n) ==
  \A i \in 1..Len(ms) : \A c \in Calls : Issues(ms, i, c) => c.id[1] <= n

Distinct(calls) == \A k, l \in 1..Len(calls) : calls[k] = calls[l] => k = l

Talk ==
  /\ Asking /\ answer = 0 => /\ messages = <<>> \/ Conversation(messages, {})
                             /\ Numbered(messages, step_count)
  /\ Acting => /\ Conversation(messages, ToSet(pending))
               /\ Numbered(messages, step_count) /\ Distinct(pending)

IInv == Typed /\ Counted /\ Ending /\ Talk /\ WellFormed(request)

-----------------------------------------------------------------------------
(* What the steps have in common.                                          *)

LEMMA RecordTraced ==
  ASSUME Traced, NEW phases \in Seq({"sense", "reason", "act"}), Record(phases)
  PROVE  Traced'
<1> DEFINE n == Len(phases)
           new == [i \in 1..n |-> <<phases[i], _step_sequence + i - 1>>]
<1>1. n \in Nat /\ recorded \in Seq(Steps) /\ _step_sequence = Len(recorded) /\ _step_sequence \in Nat
  BY DEF Traced
<1>2. \A i \in 1..n : phases[i] \in {"sense", "reason", "act"} /\ _step_sequence + i - 1 \in Nat
  BY <1>1
<1>3. \A i \in 1..n : <<phases[i], _step_sequence + i - 1>> \in Steps
  BY <1>2 DEF Steps
<1>4. recorded' = recorded \o new /\ _step_sequence' = _step_sequence + n
  BY DEF Record
<1> HIDE DEF n
<1>5. new \in Seq(Steps) /\ Len(new) = n
  BY <1>1, <1>3
<1> HIDE DEF new
<1> QED
  BY <1>1, <1>4, <1>5, Joined DEF Traced

\* The history a request is made from.
LEMMA Before ==
  ASSUME IInv, pc = "pre_act"
  PROVE  /\ Conversation(History, {}) /\ History \in Seq(Turns)
         /\ Numbered(History, step_count) /\ answer = 0
<1>1. answer = 0
  BY DEF IInv, Ending
<1>2. CASE messages = <<>>
  <2>1. \A i \in 1..2 : \A c : ~Issues(build_initial_messages, i, c)
    <3>1. \A i \in 1..2 : i = 1 \/ i = 2
      OBVIOUS
    <3> QED
      BY <3>1 DEF Issues, build_initial_messages, Turn
  <2>2. Len(build_initial_messages) = 2
    BY DEF build_initial_messages
  <2>3. Numbered(build_initial_messages, step_count)
    BY <2>1, <2>2 DEF Numbered
  <2> QED
    BY <1>1, <1>2, <2>3, Beginning DEF History
<1>3. CASE messages # <<>>
  BY <1>1, <1>3 DEF History, IInv, Talk, Asking, Typed
<1> QED
  BY <1>2, <1>3

LEMMA RequestAccepted ==
  ASSUME IInv, Requested
  PROVE  WellFormed(request')
<1>1. Conversation(History, {}) /\ window \in Nat
  BY Before, ReasonActAssumption DEF Requested
<1>2. PICK s \in 3..(Len(History) + 1) : CutAt(History, window_messages(History, window), s)
  BY <1>1, WindowCuts
<1>3. Conversation(window_messages(History, window), {})
  BY <1>1, <1>2, CutConverses
<1> QED
  BY <1>3, ConversationWellFormed DEF Requested

\* What a turn of the model appends.
LEMMA TurnAppended ==
  ASSUME IInv, pc = "pre_act", NEW n \in Nat, NEW kinds \in [1..n -> Kinds]
  PROVE  LET calls == IssuedCalls(kinds)
             ms == Append(History, Turn("assistant", calls))
         IN  /\ calls \in Seq(Calls) /\ Distinct(calls) /\ ms \in Seq(Turns)
             /\ Conversation(ms, ToSet(calls)) /\ Numbered(ms, step_count + 1)
<1> DEFINE calls == IssuedCalls(kinds)
           t == Turn("assistant", calls)
           ms == Append(History, t)
<1>1. Conversation(History, {}) /\ History \in Seq(Turns) /\ Numbered(History, step_count)
  BY Before
<1>2. step_count \in Nat
  <2>1. step_count \in 0..max_iterations
    BY Zenon DEF IInv, Typed
  <2>2. max_iterations \in Nat
    BY ReasonActAssumption
  <2> QED
    BY <2>1, <2>2
<1>3. /\ calls \in Seq(Calls) /\ Len(calls) = n /\ Distinct(calls)
      /\ \A i \in 1..n : calls[i].id = <<step_count + 1, i>>
  BY <1>2, Issued DEF Distinct
<1> HIDE DEF calls
<1>4. \A c \in ToSet(calls) : c \in Calls /\ c.id[1] = step_count + 1
  BY <1>3 DEF ToSet
<1>5. \A c \in ToSet(calls) : \A i \in 1..Len(History) : ~Issues(History, i, c)
  BY <1>1, <1>2, <1>4 DEF Numbered
<1>6. Conversation(ms, ToSet(calls))
  BY <1>1, <1>3, <1>5, Asked
<1>7. t \in Turns /\ t.role = "assistant" /\ t.calls = calls
  BY <1>3 DEF Turn, Turns, Roles
<1> HIDE DEF t
<1>8. ms \in Seq(Turns) /\ Len(ms) = Len(History) + 1 /\ Len(History) \in Nat
  BY <1>1, <1>7
<1>9. ASSUME NEW i \in 1..Len(ms), NEW c \in Calls, Issues(ms, i, c) PROVE c.id[1] <= step_count + 1
  <2>1. c.id[1] \in Nat
    BY DEF Calls
  <2>2. CASE i = Len(History) + 1
    <3>1. ms[i] = t
      BY <1>1, <1>7, <2>2
    <3>2. c \in ToSet(calls)
      BY <1>7, <1>9, <3>1 DEF Issues
    <3> QED
      BY <1>2, <1>4, <3>2
  <2>3. CASE i # Len(History) + 1
    <3>1. i \in 1..Len(History)
      BY <1>8, <2>3
    <3>2. ms[i] = History[i]
      BY <1>1, <1>7, <3>1
    <3> QED
      BY <1>1, <1>2, <1>9, <2>1, <3>1, <3>2 DEF Issues, Numbered
  <2> QED
    BY <2>2, <2>3
<1>10. Numbered(ms, step_count + 1)
  BY <1>9 DEF Numbered
<1> HIDE DEF ms
<1> QED
  BY <1>3, <1>6, <1>8, <1>10 DEF ms, calls, t

\* Turns of tools issue nothing.
LEMMA NumbersKept ==
  ASSUME NEW ms \in Seq(Turns), NEW calls \in Seq(Calls), NEW n, Numbered(ms, n)
  PROVE  Numbered(ms \o ToolTurns(calls), n)
<1> DEFINE us == ms \o ToolTurns(calls)
<1>1. /\ us \in Seq(Turns) /\ Len(us) = Len(ms) + Len(calls)
      /\ \A i \in 1..Len(ms) : us[i] = ms[i]
      /\ \A i \in 1..Len(calls) : us[Len(ms) + i].role = "tool"
  BY ToolTurnsJoined
<1>2. Len(ms) \in Nat /\ Len(calls) \in Nat
  OBVIOUS
<1> HIDE DEF us
<1>3. ASSUME NEW i \in 1..Len(us), NEW c \in Calls, Issues(us, i, c) PROVE c.id[1] <= n
  <2>1. CASE i \in 1..Len(ms)
    BY <1>1, <1>3, <2>1 DEF Issues, Numbered
  <2>2. CASE i \notin 1..Len(ms)
    <3>1. i - Len(ms) \in 1..Len(calls) /\ i = Len(ms) + (i - Len(ms))
      BY <1>1, <1>2, <2>2
    <3>2. us[i].role = "tool"
      BY <1>1, <3>1
    <3> QED
      BY <1>3, <3>2 DEF Issues
  <2> QED
    BY <2>1, <2>2
<1> QED
  BY <1>3 DEF Numbered, us

LEMMA Bounds ==
  ASSUME IInv
  PROVE  /\ max_iterations \in Nat \ {0} /\ step_count \in 0..max_iterations /\ step_count \in Nat
         /\ iteration \in Nat /\ iteration < max_iterations /\ answer \in 0..max_iterations
<1>1. /\ step_count \in 0..max_iterations /\ iteration \in 0..(max_iterations - 1)
      /\ answer \in 0..max_iterations
  BY Zenon DEF IInv, Typed
<1>2. max_iterations \in Nat \ {0}
  BY ReasonActAssumption
<1> QED
  BY <1>1, <1>2

\* A turn without an answer: the ceiling is hit exactly when no turn is left.
LEMMA TurnEnds ==
  ASSUME IInv, ~Over, step_count' = iteration + 1, answer' = 0, status' = status,
         NEW output \in {"none", "tools"}, Ceiling, NextIteration(output)
  PROVE  /\ Counted' /\ Ending' /\ pc' \in {"control", "deactivate"}
         /\ iteration' \in 0..(max_iterations - 1) /\ step_count' \in 0..max_iterations
         /\ terminated' \in {"incomplete", "final_answer", "implicit_final_answer", "max_iterations"}
         /\ max_hit' \in BOOLEAN /\ act_output' \in {"none", "tools", "max", "answer"}
<1>1. /\ max_iterations \in Nat \ {0} /\ iteration \in Nat /\ iteration < max_iterations
      /\ iteration \in 0..(max_iterations - 1)
  BY Bounds
<1>2. /\ status = "completed" /\ ~max_hit /\ terminated # "max_iterations" /\ max_hit \in BOOLEAN
      /\ terminated \in {"incomplete", "final_answer", "implicit_final_answer", "max_iterations"}
  BY Zenon DEF IInv, Typed, Ending
<1>3. CASE /\ iteration + 1 < max_iterations /\ iteration' = iteration + 1 /\ pc' = "control"
           /\ act_output' = output
  <2>1. max_hit' = max_hit /\ terminated' = terminated
    BY <1>1, <1>3 DEF Ceiling
  <2>2. iteration' \in 0..(max_iterations - 1) /\ step_count' \in 0..max_iterations
    BY <1>1, <1>3
  <2>3. Counted'
    BY <1>3 DEF Counted, Asking, Acting
  <2>4. Ending'
    BY <1>2, <1>3, <2>1 DEF Ending, Over
  <2> QED
    BY <1>2, <1>3, <2>1, <2>2, <2>3, <2>4
<1>4. CASE /\ iteration + 1 = max_iterations /\ pc' = "deactivate" /\ iteration' = iteration
           /\ act_output' = IF answer' # 0 THEN "answer" ELSE IF output = "none" THEN "max" ELSE output
  <2>1. max_hit' = TRUE /\ terminated' = "max_iterations" /\ step_count' = max_iterations
    BY <1>1, <1>4 DEF Ceiling
  <2>2. Counted'
    BY <1>4 DEF Counted, Asking, Acting
  <2>3. Ending'
    BY <1>2, <1>4, <2>1 DEF Ending, Over
  <2> QED
    BY <1>1, <1>4, <2>1, <2>2, <2>3
<1> QED
  BY <1>3, <1>4 DEF NextIteration

-----------------------------------------------------------------------------
(* Every step keeps the invariant.                                         *)

LEMMA InitOK == Init => IInv
<1> SUFFICES ASSUME Init PROVE IInv
  OBVIOUS
<1>1. Len(<<>>) = 0 /\ <<>> \in Seq(Turns) /\ <<>> \in Seq(Calls) /\ <<>> \in Seq(Steps)
  OBVIOUS
<1>2. Typed
  <2>1. 0 \in 0..(max_iterations - 1) /\ 0 \in 0..max_iterations
    BY ReasonActAssumption
  <2>2. Traced
    BY <1>1 DEF Init, Traced
  <2>3. pending \in Seq(Calls) /\ \A i \in 1..Len(pending) : pending[i].kind = "tool"
    BY <1>1 DEF Init
  <2> QED
    BY <1>1, <2>1, <2>2, <2>3 DEF Init, Typed
<1>3. Counted /\ Ending
  BY DEF Init, Counted, Ending, Asking, Acting, Over
<1>4. Talk
  BY <1>1 DEF Init, Talk, Asking, Acting, Numbered
<1>5. WellFormed(request)
  BY <1>1 DEF Init, WellFormed
<1> QED
  BY <1>2, <1>3, <1>4, <1>5 DEF IInv

LEMMA LoopControl ==
  ASSUME IInv, _loop_control
  PROVE  IInv'
<1>1. Typed'
  BY DEF IInv, Typed, Traced, _loop_control, conversation, ending, trace
<1>2. Counted' /\ Ending'
  BY DEF IInv, Counted, Ending, Asking, Acting, Over, _loop_control, conversation, ending
<1>3. Talk'
  BY DEF IInv, Talk, Asking, Acting, _loop_control, conversation, ending
<1> QED
  BY <1>1, <1>2, <1>3 DEF IInv, _loop_control

LEMMA Interruption ==
  ASSUME IInv, Interrupted
  PROVE  IInv'
<1>1. Typed'
  BY DEF IInv, Typed, Traced, Interrupted, conversation, ending, trace
<1>2. Counted' /\ Ending' /\ Talk'
  BY DEF Counted, Ending, Talk, Asking, Acting, Over, Interrupted
<1> QED
  BY <1>1, <1>2 DEF IInv, Interrupted

LEMMA Sensing ==
  ASSUME IInv, Sense
  PROVE  IInv'
<1>1. Traced'
  <2>1. <<"sense">> \in Seq({"sense", "reason", "act"})
    OBVIOUS
  <2> QED
    BY <2>1, RecordTraced DEF IInv, Typed, Sense
<1>2. Typed'
  BY <1>1 DEF IInv, Typed, Sense, conversation, ending
<1>3. Counted' /\ Ending' /\ Talk'
  BY DEF IInv, Counted, Ending, Talk, Asking, Acting, Over, Sense, conversation, ending
<1> QED
  BY <1>2, <1>3 DEF IInv, Sense

LEMMA Raising ==
  ASSUME IInv, PhaseRaises
  PROVE  IInv'
<1>1. Traced'
  <2>1. <<pc>> \in Seq({"sense", "reason", "act"})
    BY DEF PhaseRaises
  <2> QED
    BY <2>1, RecordTraced DEF IInv, Typed, PhaseRaises
<1>2. Typed'
  BY <1>1 DEF IInv, Typed, PhaseRaises, conversation, ending
<1>3. Counted' /\ Ending' /\ Talk'
  BY DEF Counted, Ending, Talk, Asking, Acting, Over, PhaseRaises
<1> QED
  BY <1>2, <1>3 DEF IInv, PhaseRaises

LEMMA RequestFailing ==
  ASSUME IInv, RequestFails
  PROVE  IInv'
<1>1. pc = "pre_act" /\ Requested
  BY DEF RequestFails, Requested
<1>2. WellFormed(request')
  BY <1>1, RequestAccepted
<1>3. messages' \in Seq(Turns)
  BY <1>1, Before DEF RequestFails
<1>4. Typed'
  BY <1>3 DEF IInv, Typed, Traced, RequestFails, ending, trace
<1>5. Counted' /\ Ending' /\ Talk'
  BY DEF Counted, Ending, Talk, Asking, Acting, Over, RequestFails
<1> QED
  BY <1>2, <1>4, <1>5 DEF IInv

LEMMA Acted ==
  ASSUME IInv, Act
  PROVE  IInv'
<1>1. Traced'
  <2>1. <<"act">> \in Seq({"sense", "reason", "act"})
    OBVIOUS
  <2> QED
    BY <2>1, RecordTraced DEF IInv, Typed, Act
<1>2. Typed'
  BY <1>1 DEF IInv, Typed, Act, conversation, ending
<1>3. Counted' /\ Ending' /\ Talk'
  BY DEF IInv, Counted, Ending, Talk, Asking, Acting, Over, Act, conversation, ending
<1> QED
  BY <1>2, <1>3 DEF IInv, Act

LEMMA Deactivating ==
  ASSUME IInv, on_deactivate
  PROVE  IInv'
<1>1. Typed'
  <2>1. <<>> \in Seq(Calls) /\ Len(<<>>) = 0
    OBVIOUS
  <2> QED
    BY <2>1 DEF IInv, Typed, Traced, on_deactivate, ending, trace
<1>2. Counted' /\ Ending' /\ Talk'
  BY DEF IInv, Counted, Ending, Talk, Asking, Acting, Over, on_deactivate, ending
<1> QED
  BY <1>1, <1>2 DEF IInv, on_deactivate

\* The model concluded: nothing is asked again, and the answer is the output.
LEMMA Concluding ==
  ASSUME IInv, NEW n \in Nat, NEW kinds \in [1..n -> Kinds], _conclude(IssuedCalls(kinds))
  PROVE  IInv'
<1> DEFINE calls == IssuedCalls(kinds)
<1>1. /\ pc = "pre_act" /\ Requested /\ step_count' = step_count + 1 /\ answer' = step_count + 1
      /\ max_hit' = FALSE /\ pending' = pending /\ status' = status
      /\ messages' = Append(History, Turn("assistant", calls))
      /\ Record(<<"reason", "act">>) /\ NextIteration(act_output)
      /\ terminated' \in {"final_answer", "implicit_final_answer"}
  BY DEF _conclude, Requested
<1> HIDE DEF calls
<1>2. /\ max_iterations \in Nat \ {0} /\ step_count \in Nat /\ iteration \in Nat
      /\ step_count = iteration /\ iteration < max_iterations /\ status = "completed"
      /\ act_output \in {"none", "tools"} /\ iteration \in 0..(max_iterations - 1)
  BY <1>1, Bounds DEF IInv, Counted, Ending, Asking, Over
<1>3. WellFormed(request') /\ messages' \in Seq(Turns)
  BY <1>1, TurnAppended, RequestAccepted DEF calls
<1>4. Traced'
  <2>1. <<"reason", "act">> \in Seq({"sense", "reason", "act"})
    OBVIOUS
  <2> QED
    BY <1>1, <2>1, RecordTraced DEF IInv, Typed
<1>5. answer' \in Nat /\ answer' # 0 /\ answer' \in 0..max_iterations /\ step_count' \in 0..max_iterations
  BY <1>1, <1>2
<1>6. \/ /\ iteration + 1 < max_iterations /\ iteration' = iteration + 1 /\ pc' = "control"
         /\ act_output' = act_output
      \/ /\ iteration + 1 = max_iterations /\ iteration' = iteration /\ pc' = "deactivate"
         /\ act_output' = "answer"
  BY <1>1, <1>5 DEF NextIteration
<1>7. iteration' \in 0..(max_iterations - 1)
  BY <1>2, <1>6
<1>8. Typed'
  <2>1. pending \in Seq(Calls) /\ \A i \in 1..Len(pending) : pending[i].kind = "tool"
    BY DEF IInv, Typed
  <2> QED
    BY <1>1, <1>2, <1>3, <1>4, <1>5, <1>6, <1>7, <2>1 DEF Typed
<1>9. Counted'
  BY <1>1, <1>2, <1>6 DEF Counted, Asking, Acting
<1>10. Ending'
  BY <1>1, <1>2, <1>5, <1>6 DEF Ending, Over
<1>11. Talk'
  BY <1>5, <1>6 DEF Talk, Asking, Acting
<1> QED
  BY <1>3, <1>8, <1>9, <1>10, <1>11 DEF IInv

\* Every call has one kind, so those without the skills' are the ones for Act.
LEMMA KindsSplit ==
  ASSUME NEW calls \in Seq(Calls), \A i \in 1..Len(calls) : calls[i].kind # "final_answer"
  PROVE  ToSet(calls) \ ToSet(OfKind(calls, "skill")) = ToSet(OfKind(calls, "tool"))
<1> DEFINE skills == OfKind(calls, "skill")
           tools == OfKind(calls, "tool")
<1>1. \A i \in 1..Len(calls) : calls[i].kind = "skill" \/ calls[i].kind = "tool"
  <2> TAKE i \in 1..Len(calls)
  <2>1. calls[i] \in Calls
    OBVIOUS
  <2> QED
    BY <2>1 DEF Calls, Kinds
<1>2. /\ \A k \in 1..Len(skills) : \E i \in 1..Len(calls) :
           skills[k] = calls[i] /\ calls[i].kind = "skill"
      /\ \A i \in 1..Len(calls) : calls[i].kind = "skill" =>
           \E k \in 1..Len(skills) : skills[k] = calls[i]
  BY OfKindSelects
<1>3. /\ \A k \in 1..Len(tools) : \E i \in 1..Len(calls) :
           tools[k] = calls[i] /\ calls[i].kind = "tool"
      /\ \A i \in 1..Len(calls) : calls[i].kind = "tool" =>
           \E k \in 1..Len(tools) : tools[k] = calls[i]
  BY OfKindSelects
<1> HIDE DEF skills, tools
<1>4. ToSet(calls) = {calls[i] : i \in 1..Len(calls)}
  BY DEF ToSet
<1>5. ToSet(skills) = {skills[k] : k \in 1..Len(skills)}
  BY DEF ToSet
<1>6. ToSet(tools) = {tools[k] : k \in 1..Len(tools)}
  BY DEF ToSet
<1>7. ASSUME NEW c \in ToSet(skills) PROVE c \in ToSet(calls) /\ c.kind = "skill"
  <2>1. PICK k \in 1..Len(skills) : skills[k] = c
    BY <1>5
  <2>2. PICK i \in 1..Len(calls) : skills[k] = calls[i] /\ calls[i].kind = "skill"
    BY <1>2
  <2> QED
    BY <1>4, <2>1, <2>2
<1>8. ASSUME NEW c \in ToSet(tools) PROVE c \in ToSet(calls) /\ c.kind = "tool"
  <2>1. PICK k \in 1..Len(tools) : tools[k] = c
    BY <1>6
  <2>2. PICK i \in 1..Len(calls) : tools[k] = calls[i] /\ calls[i].kind = "tool"
    BY <1>3
  <2> QED
    BY <1>4, <2>1, <2>2
<1>9. ASSUME NEW c \in ToSet(calls) PROVE c \in ToSet(skills) \/ c \in ToSet(tools)
  <2>1. PICK i \in 1..Len(calls) : calls[i] = c
    BY <1>4
  <2>2. CASE calls[i].kind = "skill"
    BY <1>2, <1>5, <2>1, <2>2
  <2>3. CASE calls[i].kind = "tool"
    BY <1>3, <1>6, <2>1, <2>3
  <2> QED
    BY <1>1, <2>2, <2>3
<1>10. \A c \in ToSet(skills) : c \notin ToSet(tools)
  BY <1>7, <1>8
<1> QED
  BY <1>7, <1>8, <1>9, <1>10 DEF skills, tools

\* The skill tools answered; what is left is for Act.
LEMMA SkillsAnswered ==
  ASSUME IInv, pc = "pre_act", NEW n \in Nat, NEW kinds \in [1..n -> Kinds],
         \A i \in 1..Len(IssuedCalls(kinds)) : IssuedCalls(kinds)[i].kind # "final_answer"
  PROVE  LET calls == IssuedCalls(kinds)
             ms == Append(History, Turn("assistant", calls)) \o ToolTurns(OfKind(calls, "skill"))
         IN  /\ Conversation(ms, ToSet(Dispatched(calls))) /\ ms \in Seq(Turns)
             /\ Numbered(ms, step_count + 1) /\ Distinct(Dispatched(calls))
             /\ Dispatched(calls) \in Seq(Calls)
             /\ \A i \in 1..Len(Dispatched(calls)) : Dispatched(calls)[i].kind = "tool"
<1> DEFINE calls == IssuedCalls(kinds)
           skills == OfKind(calls, "skill")
           hs == Append(History, Turn("assistant", calls))
<1>1. /\ calls \in Seq(Calls) /\ Distinct(calls) /\ hs \in Seq(Turns)
      /\ Conversation(hs, ToSet(calls)) /\ Numbered(hs, step_count + 1)
  BY TurnAppended
<1>2. \A i \in 1..Len(calls) : calls[i].kind # "final_answer"
  OBVIOUS
<1> HIDE DEF calls, hs
<1>3. skills \in Seq(Calls) /\ (\A k, l \in 1..Len(skills) : skills[k] = skills[l] => k = l)
  BY <1>1, OfKindSelects DEF Distinct
<1>4. ToSet(skills) \subseteq ToSet(calls)
  <2>1. \A k \in 1..Len(skills) : \E i \in 1..Len(calls) : skills[k] = calls[i]
    BY <1>1, OfKindSelects
  <2> HIDE DEF skills
  <2> QED
    BY <2>1 DEF ToSet
<1>5. /\ Dispatched(calls) \in Seq(Calls) /\ Distinct(Dispatched(calls))
      /\ \A i \in 1..Len(Dispatched(calls)) : Dispatched(calls)[i].kind = "tool"
  <2> DEFINE tools == OfKind(calls, "tool")
  <2>1. /\ tools \in Seq(Calls)
        /\ \A k \in 1..Len(tools) : \E i \in 1..Len(calls) : tools[k] = calls[i] /\ calls[i].kind = "tool"
        /\ \A k, l \in 1..Len(tools) : tools[k] = tools[l] => k = l
    BY <1>1, OfKindSelects DEF Distinct
  <2> HIDE DEF tools
  <2>2. \A i \in 1..Len(tools) : tools[i].kind = "tool"
    BY <2>1
  <2>3. tools \in Seq(Calls) /\ Distinct(tools)
    BY <2>1 DEF Distinct
  <2> QED
    BY <2>2, <2>3 DEF Dispatched, tools
<1>6. ToSet(calls) \ ToSet(skills) = ToSet(Dispatched(calls))
  BY <1>1, <1>2, KindsSplit DEF Dispatched
<1> HIDE DEF skills
<1>7. Conversation(hs \o ToolTurns(skills), ToSet(Dispatched(calls)))
  BY <1>1, <1>3, <1>4, <1>6, Answering
<1>8. Numbered(hs \o ToolTurns(skills), step_count + 1)
  BY <1>1, <1>3, NumbersKept
<1>9. hs \o ToolTurns(skills) \in Seq(Turns)
  BY <1>7 DEF Conversation
<1> QED
  BY <1>5, <1>7, <1>8, <1>9 DEF calls, skills, hs

LEMMA Calling ==
  ASSUME IInv, NEW n \in Nat, NEW kinds \in [1..n -> Kinds], CallsTools(IssuedCalls(kinds))
  PROVE  IInv'
<1> DEFINE calls == IssuedCalls(kinds)
           dispatch == Dispatched(calls)
<1>1. /\ pc = "pre_act" /\ Requested /\ step_count' = step_count + 1 /\ answer' = answer
      /\ \A i \in 1..Len(calls) : calls[i].kind # "final_answer"
      /\ messages' = Append(History, Turn("assistant", calls)) \o ToolTurns(OfKind(calls, "skill"))
      /\ pending' = dispatch /\ Record(<<"reason">>) /\ status' = status
      /\ \/ dispatch = <<>> /\ Ceiling /\ NextIteration(act_output)
         \/ /\ dispatch # <<>> /\ pc' = "act"
            /\ UNCHANGED <<terminated, max_hit, iteration, act_output>>
  BY DEF CallsTools, Requested
<1>2. /\ Conversation(messages', ToSet(dispatch)) /\ messages' \in Seq(Turns)
      /\ Numbered(messages', step_count + 1) /\ Distinct(dispatch) /\ dispatch \in Seq(Calls)
      /\ \A i \in 1..Len(dispatch) : dispatch[i].kind = "tool"
  BY <1>1, SkillsAnswered
<1> HIDE DEF calls, dispatch
<1>3. /\ max_iterations \in Nat \ {0} /\ step_count \in Nat /\ iteration \in Nat
      /\ step_count = iteration /\ iteration < max_iterations /\ status = "completed"
      /\ act_output \in {"none", "tools"} /\ iteration \in 0..(max_iterations - 1) /\ ~Over
  BY <1>1, Bounds DEF IInv, Counted, Ending, Asking, Over
<1>4. answer = 0 /\ ~max_hit /\ terminated # "max_iterations" /\ max_hit \in BOOLEAN
      /\ terminated \in {"incomplete", "final_answer", "implicit_final_answer", "max_iterations"}
  BY <1>1 DEF IInv, Typed, Ending, Over
<1>5. WellFormed(request')
  BY <1>1, RequestAccepted
<1>6. Traced'
  <2>1. <<"reason">> \in Seq({"sense", "reason", "act"})
    OBVIOUS
  <2> QED
    BY <1>1, <2>1, RecordTraced DEF IInv, Typed
<1>7. step_count' = iteration + 1 /\ step_count' \in 0..max_iterations
  BY <1>1, <1>3
<1>8. CASE dispatch = <<>> /\ Ceiling /\ NextIteration(act_output)
  <2>1. /\ Counted' /\ Ending' /\ pc' \in {"control", "deactivate"}
        /\ iteration' \in 0..(max_iterations - 1)
        /\ terminated' \in {"incomplete", "final_answer", "implicit_final_answer", "max_iterations"}
        /\ max_hit' \in BOOLEAN /\ act_output' \in {"none", "tools", "max", "answer"}
    BY <1>1, <1>3, <1>4, <1>7, <1>8, TurnEnds
  <2>2. Typed'
    BY <1>1, <1>2, <1>3, <1>4, <1>6, <1>7, <2>1 DEF Typed
  <2>3. ToSet(dispatch) = {}
    <3>1. Len(dispatch) = 0
      BY <1>8
    <3> QED
      BY <1>8, <3>1 DEF ToSet
  <2>4. Conversation(messages', {}) /\ Numbered(messages', step_count')
    BY <1>1, <1>2, <2>3
  <2>5. Talk'
    BY <2>1, <2>4 DEF Talk, Asking, Acting
  <2> QED
    BY <1>5, <2>1, <2>2, <2>5 DEF IInv
<1>9. CASE dispatch # <<>> /\ pc' = "act" /\ UNCHANGED <<terminated, max_hit, iteration, act_output>>
  <2>1. Typed'
    BY <1>1, <1>2, <1>3, <1>4, <1>6, <1>7, <1>9 DEF Typed
  <2>2. Counted' /\ Ending'
    BY <1>1, <1>3, <1>4, <1>7, <1>9 DEF Counted, Ending, Asking, Acting, Over
  <2>3. Conversation(messages', ToSet(pending')) /\ Numbered(messages', step_count') /\ Distinct(pending')
    BY <1>1, <1>2
  <2>4. Talk'
    BY <1>9, <2>3 DEF Talk, Asking, Acting
  <2> QED
    BY <1>5, <2>1, <2>2, <2>4 DEF IInv
<1> QED
  BY <1>1, <1>8, <1>9

LEMMA SkillFailing ==
  ASSUME IInv, NEW n \in Nat, NEW kinds \in [1..n -> Kinds], SkillFails(IssuedCalls(kinds))
  PROVE  IInv'
<1> DEFINE calls == IssuedCalls(kinds)
           skills == OfKind(calls, "skill")
           hs == Append(History, Turn("assistant", calls))
<1>1. /\ pc = "pre_act" /\ Requested /\ step_count' = step_count + 1 /\ skills # <<>>
      /\ messages' = hs \o ToolTurns(Front(skills)) /\ Record(<<"reason">>)
      /\ status' = "failed" /\ pc' = "deactivate"
      /\ UNCHANGED <<pending, answer, terminated, max_hit, iteration, act_output>>
  BY DEF SkillFails, Requested, ending
<1>2. calls \in Seq(Calls) /\ hs \in Seq(Turns)
  BY <1>1, TurnAppended
<1> HIDE DEF calls, hs
<1>3. skills \in Seq(Calls)
  BY <1>2, OfKindSelects
<1> HIDE DEF skills
<1>4. Front(skills) \in Seq(Calls)
  BY <1>1, <1>3 DEF Front
<1>5. messages' \in Seq(Turns)
  BY <1>1, <1>2, <1>4, ToolTurnsJoined
<1>6. WellFormed(request')
  BY <1>1, RequestAccepted
<1>7. Traced'
  <2>1. <<"reason">> \in Seq({"sense", "reason", "act"})
    OBVIOUS
  <2> QED
    BY <1>1, <2>1, RecordTraced DEF IInv, Typed
<1>8. step_count' \in 0..max_iterations
  BY <1>1, Bounds DEF IInv, Counted, Asking
<1>9. Typed'
  BY <1>1, <1>5, <1>7, <1>8 DEF IInv, Typed
<1>10. Counted' /\ Ending' /\ Talk'
  BY <1>1 DEF Counted, Ending, Talk, Asking, Acting, Over
<1> QED
  BY <1>6, <1>9, <1>10 DEF IInv

\* Act's results close every call that is open.
LEMMA Resulting ==
  ASSUME IInv, _post_act
  PROVE  IInv'
<1>1. /\ pc = "post_act" /\ messages' = messages \o ToolTurns(pending) /\ pending' = <<>>
      /\ step_count' = step_count /\ answer' = answer /\ Ceiling /\ NextIteration("tools")
      /\ status' = status /\ UNCHANGED trace /\ request' = request
  BY DEF _post_act
<1>2. /\ Conversation(messages, ToSet(pending)) /\ Numbered(messages, step_count)
      /\ Distinct(pending) /\ step_count = iteration + 1 /\ answer = 0 /\ ~Over
  BY <1>1 DEF IInv, Talk, Counted, Ending, Acting, Over
<1>3. messages \in Seq(Turns) /\ pending \in Seq(Calls) /\ status = "completed" /\ Traced
  BY <1>2 DEF IInv, Typed, Ending
<1>4. Conversation(messages', ToSet(pending) \ ToSet(pending)) /\ Numbered(messages', step_count)
  BY <1>1, <1>2, <1>3, Answering, NumbersKept DEF Distinct
<1>5. Conversation(messages', {}) /\ Numbered(messages', step_count') /\ messages' \in Seq(Turns)
  BY <1>1, <1>4 DEF Conversation
<1>6. /\ Counted' /\ Ending' /\ pc' \in {"control", "deactivate"}
      /\ iteration' \in 0..(max_iterations - 1) /\ step_count' \in 0..max_iterations
      /\ terminated' \in {"incomplete", "final_answer", "implicit_final_answer", "max_iterations"}
      /\ max_hit' \in BOOLEAN /\ act_output' \in {"none", "tools", "max", "answer"}
  BY <1>1, <1>2, TurnEnds
<1>7. Typed'
  <2>1. <<>> \in Seq(Calls) /\ Len(<<>>) = 0
    OBVIOUS
  <2>2. 0 \in 0..max_iterations
    BY ReasonActAssumption
  <2>3. Traced'
    BY <1>1, <1>3 DEF Traced, trace
  <2> QED
    BY <1>1, <1>2, <1>3, <1>5, <1>6, <2>1, <2>2, <2>3 DEF Typed
<1>8. Talk'
  BY <1>5, <1>6 DEF Talk, Asking, Acting
<1> QED
  BY <1>1, <1>6, <1>7, <1>8 DEF IInv

-----------------------------------------------------------------------------
LEMMA StepOK == IInv /\ [Next]_vars => IInv'
<1> SUFFICES ASSUME IInv, [Next]_vars PROVE IInv'
  OBVIOUS
<1>1. CASE _pre_act
  <2>1. PICK n \in 0..MaxCalls : \E ks \in [1..n -> Kinds] :
          LET calls == IssuedCalls(ks)
          IN  _conclude(calls) \/ CallsTools(calls) \/ SkillFails(calls)
    BY <1>1 DEF _pre_act
  <2>2. PICK kinds \in [1..n -> Kinds] :
          \/ _conclude(IssuedCalls(kinds)) \/ CallsTools(IssuedCalls(kinds))
          \/ SkillFails(IssuedCalls(kinds))
    BY <2>1
  <2>3. n \in Nat
    BY ReasonActAssumption
  <2> QED
    BY <2>2, <2>3, Concluding, Calling, SkillFailing
<1>2. CASE UNCHANGED vars
  <2>1. Typed' /\ Counted' /\ Ending' /\ WellFormed(request')
    BY <1>2 DEF vars, IInv, Typed, Traced, Counted, Ending, Asking, Acting, Over
  <2>2. Talk'
    BY <1>2 DEF vars, IInv, Talk, Asking, Acting
  <2> QED
    BY <2>1, <2>2 DEF IInv
<1> QED
  BY <1>1, <1>2, LoopControl, Interruption, Sensing, Raising, RequestFailing, Acted, Deactivating,
     Resulting DEF Next, Step

LEMMA Invariant == Spec => []IInv
  BY InitOK, StepOK, PTL DEF Spec

\* Types of the variables and of the turns.
THEOREM ReasonActTypeCorrect == Spec => []ReasonActTypeOK
<1>1. IInv => ReasonActTypeOK
  <2> SUFFICES ASSUME IInv PROVE ReasonActTypeOK
    OBVIOUS
  <2>1. Typed
    BY DEF IInv
  <2>2. ASSUME NEW i \in 1..Len(messages) PROVE TurnTypeOK(messages[i])
    <3>1. messages[i] \in Turns
      BY <2>1 DEF Typed
    <3>2. messages[i].role \in Roles /\ messages[i].calls \in Seq(Calls)
      BY <3>1 DEF Turns
    <3>3. \A k \in 1..Len(messages[i].calls) : messages[i].calls[k] \in Calls
      BY <3>2
    <3> QED
      BY <3>2, <3>3 DEF TurnTypeOK, Roles, Calls
  <2> QED
    BY <2>1, <2>2 DEF ReasonActTypeOK, Typed, Traced
<1> QED
  BY <1>1, Invariant, PTL

\* Whatever the window cuts off, and whoever answers a call, a provider accepts every
\* request: each call in it has one answer in place, and no answer is without its call.
THEOREM RequestsCorrect == Spec => []RequestWellFormed
<1>1. IInv => RequestWellFormed
  BY DEF IInv, WellFormed, RequestWellFormed
<1> QED
  BY <1>1, Invariant, PTL

\* The answer of a completed run is its output, on the last permitted iteration too.
THEOREM AnswerCorrect == Spec => []AnswerDelivered
<1>1. IInv => AnswerDelivered
  BY DEF IInv, Ending, Over, AnswerDelivered
<1> QED
  BY <1>1, Invariant, PTL

\* The loop summary of a completed run says truly whether the ceiling ended it.
THEOREM TerminationCorrect == Spec => []TerminationTruthful
<1>1. IInv => TerminationTruthful
  BY DEF IInv, Ending, Over, TerminationTruthful
<1> QED
  BY <1>1, Invariant, PTL

\* Once the model concluded, it is not asked again and no turn is added.
THEOREM ConclusionCorrect == Spec => NoRequestAfterAnswer
<1>1. ASSUME IInv, Next, answer # 0 PROVE step_count' = step_count /\ messages' = messages
  <2>1. pc \notin {"sense", "pre_act", "act", "post_act"}
    BY <1>1 DEF IInv, Ending
  <2>2. _loop_control \/ on_deactivate
    BY <1>1, <2>1 DEF Next, Step, Interrupted, Sense, PhaseRaises, RequestFails, _pre_act,
       _conclude, CallsTools, SkillFails, Requested, Act, _post_act
  <2> QED
    BY <2>2 DEF _loop_control, on_deactivate, conversation
<1>2. IInv /\ [Next]_vars => [answer # 0 => step_count' = step_count /\ messages' = messages]_vars
  BY <1>1 DEF vars
<1> QED
  BY <1>2, Invariant, PTL DEF Spec, NoRequestAfterAnswer

-----------------------------------------------------------------------------
(* The trace of a run.                                                     *)

Trail ==
  /\ TraceOrdered
  /\ pc = "act" => Len(recorded) > 0 /\ recorded[Len(recorded)][1] = "reason"

LEMMA RecordOrdered ==
  ASSUME Traced, TraceOrdered, NEW phases \in Seq({"sense", "reason", "act"}), Record(phases),
         \A i \in 1..Len(phases) : phases[i] = "act" =>
           \/ i > 1 /\ phases[i - 1] = "reason"
           \/ i = 1 /\ Len(recorded) > 0 /\ recorded[Len(recorded)][1] = "reason"
  PROVE  /\ TraceOrdered' /\ Len(recorded') = Len(recorded) + Len(phases)
         /\ \A i \in 1..Len(phases) : recorded'[Len(recorded) + i][1] = phases[i]
<1> DEFINE n == Len(phases)
           m == Len(recorded)
           new == [i \in 1..n |-> <<phases[i], _step_sequence + i - 1>>]
<1>1. n \in Nat /\ m \in Nat /\ recorded \in Seq(Steps) /\ _step_sequence = m
  BY DEF Traced
<1>2. \A i \in 1..n : <<phases[i], _step_sequence + i - 1>> \in Steps
  <2>1. \A i \in 1..n : phases[i] \in {"sense", "reason", "act"} /\ _step_sequence + i - 1 \in Nat
    BY <1>1
  <2> QED
    BY <2>1 DEF Steps
<1>3. recorded' = recorded \o new
  BY DEF Record
<1>4. \A i \in 1..n : new[i][1] = phases[i] /\ new[i][2] = m + i - 1
  BY <1>1
<1> HIDE DEF n
<1>5. new \in Seq(Steps) /\ Len(new) = n
  BY <1>1, <1>2
<1> HIDE DEF new, m
<1>6. /\ Len(recorded') = m + n /\ \A i \in 1..m : recorded'[i] = recorded[i]
      /\ \A i \in 1..n : recorded'[m + i] = new[i]
  <2>1. /\ Len(recorded') = m + n
        /\ \A i \in 1..(m + n) : recorded'[i] = IF i <= m THEN recorded[i] ELSE new[i - m]
    BY <1>1, <1>3, <1>5, Joined DEF m
  <2>2. \A i \in 1..m : i \in 1..(m + n) /\ i <= m
    BY <1>1
  <2>3. \A i \in 1..n : m + i \in 1..(m + n) /\ ~(m + i <= m) /\ (m + i) - m = i
    BY <1>1
  <2> QED
    BY <2>1, <2>2, <2>3
<1>7. /\ \A i \in 1..m : recorded'[i][2] = recorded[i][2] /\ recorded'[i][1] = recorded[i][1]
      /\ \A i \in 1..n : recorded'[m + i][2] = m + i - 1 /\ recorded'[m + i][1] = phases[i]
  BY <1>4, <1>6
<1>8. ASSUME NEW i \in 1..(m + n) PROVE recorded'[i][2] = i - 1
  <2>1. CASE i \in 1..m
    BY <1>7, <2>1 DEF TraceOrdered, m
  <2>2. CASE i \notin 1..m
    <3> DEFINE k == i - m
    <3>1. k \in 1..n /\ i = m + k
      BY <1>1, <2>2
    <3> HIDE DEF k
    <3>2. recorded'[m + k][2] = m + k - 1
      BY <1>7, <3>1
    <3>3. i - 1 = m + k - 1
      BY <1>1, <3>1
    <3> QED
      BY <3>1, <3>2, <3>3, Zenon
  <2> QED
    BY <2>1, <2>2
<1>9. ASSUME NEW i \in 1..(m + n), recorded'[i][1] = "act"
      PROVE  i > 1 /\ recorded'[i - 1][1] = "reason"
  <2>1. CASE i \in 1..m
    <3>1. i > 1 /\ recorded[i - 1][1] = "reason"
      BY <1>7, <1>9, <2>1 DEF TraceOrdered, m
    <3>2. i - 1 \in 1..m
      BY <1>1, <2>1, <3>1
    <3> QED
      BY <1>7, <3>1, <3>2
  <2>2. CASE i \notin 1..m
    <3> DEFINE k == i - m
    <3>1. k \in 1..n /\ i = m + k /\ k \in Nat
      BY <1>1, <2>2
    <3> HIDE DEF k
    <3>2. phases[k] = "act"
      BY <1>7, <1>9, <3>1
    <3>3. CASE k > 1 /\ phases[k - 1] = "reason"
      <4>1. k - 1 \in 1..n /\ i - 1 = m + (k - 1) /\ i > 1
        BY <1>1, <3>1, <3>3
      <4> QED
        BY <1>7, <3>3, <4>1
    <3>4. CASE k = 1 /\ m > 0 /\ recorded[m][1] = "reason"
      <4>1. i - 1 = m /\ m \in 1..m /\ i > 1
        BY <1>1, <3>1, <3>4
      <4> QED
        BY <1>7, <3>4, <4>1
    <3> QED
      BY <3>1, <3>2, <3>3, <3>4 DEF n, m
  <2> QED
    BY <2>1, <2>2
<1> QED
  BY <1>6, <1>7, <1>8, <1>9 DEF TraceOrdered, n, m

LEMMA TrailOne ==
  ASSUME IInv, Trail, NEW p \in {"sense", "reason", "act"}, Record(<<p>>), p = "act" => pc = "act"
  PROVE  TraceOrdered' /\ Len(recorded') > 0 /\ recorded'[Len(recorded')][1] = p
<1>1. Traced /\ Len(recorded) \in Nat /\ TraceOrdered
  BY DEF IInv, Typed, Traced, Trail
<1>2. <<p>> \in Seq({"sense", "reason", "act"}) /\ Len(<<p>>) = 1 /\ <<p>>[1] = p
  OBVIOUS
<1>3. p = "act" => Len(recorded) > 0 /\ recorded[Len(recorded)][1] = "reason"
  BY DEF Trail
<1>4. \A i \in 1..Len(<<p>>) : i = 1
  BY <1>2
<1> HIDE DEF Trail
<1>5. /\ TraceOrdered' /\ Len(recorded') = Len(recorded) + Len(<<p>>)
      /\ \A i \in 1..Len(<<p>>) : recorded'[Len(recorded) + i][1] = <<p>>[i]
  BY <1>1, <1>2, <1>3, <1>4, RecordOrdered
<1> QED
  BY <1>1, <1>2, <1>5

LEMMA TrailKept == IInv /\ Trail /\ [Next]_vars => Trail'
<1> SUFFICES ASSUME IInv, Trail, [Next]_vars PROVE Trail'
  OBVIOUS
<1>1. CASE UNCHANGED recorded /\ (pc' = "act" => pc = "act")
  BY <1>1 DEF Trail, TraceOrdered
<1>2. CASE Sense \/ Act \/ PhaseRaises
  <2>1. /\ pc' # "act"
        /\ \E p \in {"sense", "reason", "act"} : Record(<<p>>) /\ (p = "act" => pc = "act")
    BY <1>2 DEF Sense, Act, PhaseRaises
  <2> QED
    BY <2>1, TrailOne DEF Trail
<1>3. CASE _pre_act
  <2>1. PICK n \in 0..MaxCalls : \E ks \in [1..n -> Kinds] :
          LET calls == IssuedCalls(ks)
          IN  _conclude(calls) \/ CallsTools(calls) \/ SkillFails(calls)
    BY <1>3 DEF _pre_act
  <2>2. PICK kinds \in [1..n -> Kinds] :
          \/ _conclude(IssuedCalls(kinds)) \/ CallsTools(IssuedCalls(kinds))
          \/ SkillFails(IssuedCalls(kinds))
    BY <2>1
  <2>3. CASE CallsTools(IssuedCalls(kinds)) \/ SkillFails(IssuedCalls(kinds))
    <3>1. Record(<<"reason">>)
      BY <2>3 DEF CallsTools, SkillFails
    <3> QED
      BY <3>1, TrailOne DEF Trail
  <2>4. CASE _conclude(IssuedCalls(kinds))
    <3>1. Record(<<"reason", "act">>) /\ pc' \in {"control", "deactivate"}
      BY <2>4 DEF _conclude, NextIteration
    <3> DEFINE ps == <<"reason", "act">>
    <3>2. /\ ps \in Seq({"sense", "reason", "act"}) /\ Len(ps) = 2
          /\ ps[1] = "reason" /\ ps[2] = "act"
      OBVIOUS
    <3>3. \A i \in 1..Len(ps) : ps[i] = "act" => i > 1 /\ ps[i - 1] = "reason"
      <4>1. \A i \in 1..Len(ps) : i = 1 \/ i = 2
        BY <3>2
      <4> HIDE DEF ps
      <4> QED
        BY <3>2, <4>1
    <3>4. Record(ps)
      BY <3>1
    <3> HIDE DEF ps
    <3>5. TraceOrdered'
      BY <3>2, <3>3, <3>4, RecordOrdered DEF IInv, Typed, Trail
    <3> QED
      BY <3>1, <3>5 DEF Trail
  <2> QED
    BY <2>2, <2>3, <2>4
<1>4. CASE Interrupted \/ _loop_control \/ RequestFails \/ _post_act \/ on_deactivate
  BY <1>1, <1>4 DEF Interrupted, _loop_control, RequestFails, _post_act, on_deactivate, trace,
     NextIteration
<1>5. CASE UNCHANGED vars
  BY <1>1, <1>5 DEF vars
<1> QED
  BY <1>1, <1>2, <1>3, <1>4, <1>5 DEF Next, Step

\* In every trace the step numbers have no gap and no duplicate, and an act step comes
\* after the reason step of its turn.
THEOREM TraceCorrect == Spec => []TraceOrdered
<1>1. Init => Trail
  BY DEF Init, Trail, TraceOrdered
<1>2. Trail => TraceOrdered
  BY DEF Trail
<1> QED
  BY <1>1, <1>2, TrailKept, Invariant, PTL DEF Spec
=============================================================================

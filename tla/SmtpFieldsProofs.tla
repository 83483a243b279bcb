--------------------------- MODULE SmtpFieldsProofs ---------------------------
(***************************************************************************)
(* The parsers of header fields, for texts of every length.                *)
(***************************************************************************)
EXTENDS SmtpFields, SequenceTheorems, WellFoundedInduction, TLAPS

-----------------------------------------------------------------------------
(***************************************************************************)
(* Induction and recursion over the indices of a text, from its end.       *)
(***************************************************************************)
\* Every set of naturals has a least element.
LEMMA LeastOf ==
    ASSUME NEW S, S \subseteq Nat, S # {}
    PROVE  \E x \in S : \A y \in S : x <= y
<1>1. \A x, y \in Nat : x < y => <<x, y>> \in OpToRel(<, Nat)
  BY DEF OpToRel
<1>2. PICK x \in S : \A y \in S : ~(<<y, x>> \in OpToRel(<, Nat))
  BY NatLessThanWellFounded, WFMin
<1>3. \A y \in S : ~(y < x)
  BY <1>1, <1>2
<1> QED
  BY <1>3

\* Every set of indices has a last one.
LEMMA LastOf ==
    ASSUME NEW n \in Nat, NEW S, S \subseteq 0..n, S # {}
    PROVE  \E x \in S : \A y \in S : y <= x
<1> DEFINE T == {n - x : x \in S}
<1>1. T \subseteq Nat /\ T # {}
  <2>1. \A x \in 0..n : n - x \in Nat
    OBVIOUS
  <2> QED
    BY <2>1
<1>2. PICK t \in T : \A u \in T : t <= u
  BY <1>1, LeastOf
<1>3. PICK x \in S : t = n - x
  BY <1>2
<1>4. ASSUME NEW y \in S PROVE y <= x
  <2>1. n - y \in T
    OBVIOUS
  <2>2. t <= n - y
    BY <1>2, <2>1
  <2> QED
    BY <1>3, <2>2
<1> QED
  BY <1>4

-----------------------------------------------------------------------------
(***************************************************************************)
(* Loops.                                                                  *)
(***************************************************************************)
\* The answers of a loop from each index on.
Unrolled(p) ==
    CHOOSE run : run = [j \in DOMAIN p |->
        IF p[j].v = "again" THEN Before(p[j].val, run[p[j].i]) ELSE p[j]]

LEMMA LoopUnrolled == \A p, i : Loop(p, i) = Unrolled(p)[i]
  BY DEF Loop, Unrolled

\* The turns of a loop whose index moves forward.
Forward(p, n) ==
    /\ DOMAIN p = 0..n
    /\ \A j \in 0..n : p[j].v = "again" => p[j].i \in (j + 1)..n

LEMMA LoopDefined ==
    ASSUME NEW p, NEW n \in Nat, Forward(p, n)
    PROVE  Unrolled(p) = [j \in 0..n |->
             IF p[j].v = "again" THEN Before(p[j].val, Unrolled(p)[p[j].i]) ELSE p[j]]
<1> DEFINE Body(g, j) == IF p[j].v = "again" THEN Before(p[j].val, g[p[j].i]) ELSE p[j]
           Solves(g, k) == g = [j \in 0..n |-> g[j]] /\ \A j \in k..n : g[j] = Body(g, j)
           Unsolved == {k \in 0..(n + 1) : ~ \E g : Solves(g, k)}
<1>1. DOMAIN p = 0..n /\ \A j \in 0..n : p[j].v = "again" => p[j].i \in (j + 1)..n
  BY DEF Forward
<1>2. Unsolved = {}
  <2> SUFFICES ASSUME Unsolved # {} PROVE FALSE
    OBVIOUS
  <2>1. PICK k \in Unsolved : \A l \in Unsolved : l <= k
    <3>1. n + 1 \in Nat /\ Unsolved \subseteq 0..(n + 1)
      OBVIOUS
    <3> HIDE DEF Unsolved
    <3> QED
      BY <3>1, LastOf
  <2>2. CASE k = n + 1
    <3>1. Solves([j \in 0..n |-> j], k)
      BY <2>2
    <3> QED
      BY <3>1, <2>1
  <2>3. CASE k \in 0..n
    <3>1. PICK g : Solves(g, k + 1)
      <4>1. k + 1 \in 0..(n + 1) /\ ~(k + 1 <= k)
        BY <2>3
      <4>2. k + 1 \notin Unsolved
        BY <4>1, <2>1
      <4> QED
        BY <4>1, <4>2
    <3> DEFINE h == [j \in 0..n |-> IF j = k THEN Body(g, k) ELSE g[j]]
    <3>2. ASSUME NEW j \in k..n PROVE h[j] = Body(h, j)
      <4>1. p[j].v = "again" => p[j].i \in (j + 1)..n /\ p[j].i # k
        BY <1>1, <2>3
      <4>2. p[j].v = "again" => h[p[j].i] = g[p[j].i]
        BY <4>1, <2>3
      <4>3. Body(h, j) = Body(g, j)
        BY <4>2
      <4>4. CASE j = k
        BY <4>3, <4>4, <2>3
      <4>5. CASE j \in (k + 1)..n
        <5>1. h[j] = g[j]
          BY <4>5, <2>3
        <5>2. g[j] = Body(g, j)
          BY <3>1, <4>5
        <5> QED
          BY <5>1, <5>2, <4>3
      <4> QED
        BY <4>4, <4>5, <2>3
    <3>3. Solves(h, k)
      BY <3>2
    <3> QED
      BY <3>3, <2>1
  <2> QED
    BY <2>1, <2>2, <2>3
<1>3. PICK g : Solves(g, 0)
  <2>1. 0 \in 0..(n + 1)
    OBVIOUS
  <2> QED
    BY <1>2, <2>1
<1>4. g = [j \in 0..n |-> g[j]]
  BY <1>3
<1>5. g = [j \in DOMAIN p |-> Body(g, j)]
  BY <1>1, <1>3, <1>4
<1>6. Unrolled(p) = [j \in DOMAIN p |-> Body(Unrolled(p), j)]
  BY <1>5 DEF Unrolled
<1> QED
  BY <1>1, <1>6

LEMMA LoopTurn ==
    ASSUME NEW p, NEW n \in Nat, Forward(p, n), NEW i \in 0..n
    PROVE  Loop(p, i) = IF p[i].v = "again" THEN Before(p[i].val, Loop(p, p[i].i)) ELSE p[i]
  BY LoopDefined, LoopUnrolled DEF Forward

-----------------------------------------------------------------------------
(***************************************************************************)
(* What a parser may answer: an index behind the one it is called with and *)
(* no further than the text, and, unless a comment opens in the text, no   *)
(* loop without an end.                                                    *)
(***************************************************************************)
Opens(m) == \E k \in 0..(Len(m) - 1) : Ch(m, k) = "("
Verdicts(m) == {"ok", "parse", "cont"} \cup {v \in {"spin"} : Opens(m)}
VerdictsOrNull(m) == Verdicts(m) \cup {"null"}

Answer(r, i, m, V) ==
    /\ r = [v |-> r.v, i |-> r.i, val |-> r.val]
    /\ r.v \in V /\ r.i \in 0..Len(m)
    /\ r.v = "ok" => i <= r.i
Advances(r, i) == r.v = "ok" => i < r.i

LEMMA Constants ==
    /\ Fail.v = "parse" /\ More.v = "cont" /\ Spin.v = "spin" /\ Null.v = "null"
    /\ \A i, x : Ok(i).v = "ok" /\ Ok(i).i = i /\ Got(i, x).v = "ok" /\ Got(i, x).i = i
    /\ \A i, x : Again(i, x).v = "again" /\ Again(i, x).i = i
  BY DEF Fail, More, Spin, Null, Ok, Got, Again

LEMMA ConstantAnswers ==
    ASSUME NEW m, Len(m) \in Nat, NEW i, NEW V, {"ok", "parse", "cont"} \subseteq V
    PROVE  /\ Answer(Fail, i, m, V) /\ Answer(More, i, m, V)
           /\ \A j \in Indices(m) : \A x : j >= i => Answer(Ok(j), i, m, V) /\ Answer(Got(j, x), i, m, V)
           /\ "spin" \in V => Answer(Spin, i, m, V)
           /\ "null" \in V => Answer(Null, i, m, V)
  BY DEF Answer, Fail, More, Ok, Got, Spin, Null, Indices

LEMMA VerdictsAre ==
    \A m : /\ {"ok", "parse", "cont"} \subseteq Verdicts(m)
           /\ {"ok", "parse", "cont"} \subseteq VerdictsOrNull(m)
           /\ "again" \notin Verdicts(m) /\ "again" \notin VerdictsOrNull(m)
           /\ Verdicts(m) \subseteq VerdictsOrNull(m)
           /\ "null" \notin Verdicts(m) /\ "null" \in VerdictsOrNull(m)
           /\ ~Opens(m) => "spin" \notin VerdictsOrNull(m)
           /\ Opens(m) => "spin" \in Verdicts(m)
  BY DEF Verdicts, VerdictsOrNull

\* An answer to a later call is one to an earlier call.
LEMMA AnswerLater ==
    ASSUME NEW m, Len(m) \in Nat, NEW V, NEW i \in Indices(m), NEW j \in Indices(m), i <= j, NEW r,
           Answer(r, j, m, V)
    PROVE  Answer(r, i, m, V)
  BY DEF Answer, Indices

LEMMA WithAnswer ==
    ASSUME NEW m, NEW V, NEW i, NEW r, Answer(r, i, m, V), NEW x
    PROVE  Answer(With(r, x), i, m, V) /\ With(r, x).v = r.v /\ With(r, x).i = r.i
  BY DEF Answer, With, Got

LEMMA BeforeAnswer ==
    ASSUME NEW m, NEW V, NEW i, NEW r, Answer(r, i, m, V), NEW x
    PROVE  Answer(Before(x, r), i, m, V) /\ Before(x, r).v = r.v /\ Before(x, r).i = r.i
  BY DEF Answer, Before, Got

LEMMA ElseAnswer ==
    ASSUME NEW m, NEW V, NEW i, NEW r, NEW s, Answer(r, i, m, V), Answer(s, i, m, V)
    PROVE  Answer(Else(r, s), i, m, V)
  BY DEF Else

LEMMA StandsStill ==
    ASSUME NEW m, Len(m) \in Nat, NEW V, NEW i \in Indices(m), {"ok", "parse", "cont"} \subseteq V
    PROVE  Answer(Ok(i), i, m, V)
<1>1. i >= i
  BY DEF Indices
<1> QED
  BY <1>1, ConstantAnswers

LEMMA OptAnswer ==
    ASSUME NEW m, Len(m) \in Nat, NEW V, NEW i \in Indices(m), NEW r, Answer(r, i, m, V),
           {"ok", "parse", "cont"} \subseteq V
    PROVE  Answer(Opt(r, i), i, m, V) /\ Opt(r, i).v # "parse"
<1>1. Answer(Ok(i), i, m, V) /\ Ok(i).v = "ok"
  BY StandsStill, Constants
<1> QED
  BY <1>1 DEF Opt, Else

\* The turns of a loop: an answer, or the next turn further on.
Turns(p, m, V) ==
    /\ DOMAIN p = Indices(m)
    /\ \A j \in Indices(m) : \/ p[j].v = "again" /\ p[j].i \in (j + 1)..Len(m)
                             \/ p[j].v # "again" /\ Answer(p[j], j, m, V)

LEMMA LoopAnswer ==
    ASSUME NEW m, Len(m) \in Nat, NEW V, NEW p, Turns(p, m, V), NEW i \in Indices(m)
    PROVE  Answer(Loop(p, i), i, m, V)
<1> DEFINE Bad == {j \in Indices(m) : ~Answer(Loop(p, j), j, m, V)}
<1>1. Forward(p, Len(m))
  BY DEF Turns, Forward, Indices
<1>2. Bad = {}
  <2> SUFFICES ASSUME Bad # {} PROVE FALSE
    OBVIOUS
  <2>1. PICK j \in Bad : \A k \in Bad : k <= j
    <3>1. Bad \subseteq 0..Len(m)
      BY DEF Indices
    <3> HIDE DEF Bad
    <3> QED
      BY <3>1, LastOf
  <2>2. j \in 0..Len(m) /\ ~Answer(Loop(p, j), j, m, V)
    BY DEF Indices
  <2>3. Loop(p, j) = IF p[j].v = "again" THEN Before(p[j].val, Loop(p, p[j].i)) ELSE p[j]
    BY <1>1, <2>2, LoopTurn
  <2>4. CASE p[j].v = "again"
    <3>1. p[j].i \in (j + 1)..Len(m)
      BY <2>2, <2>4 DEF Turns, Indices
    <3>2. p[j].i \in Indices(m) /\ p[j].i \notin Bad /\ j <= p[j].i
      BY <2>1, <2>2, <3>1 DEF Indices
    <3>3. Answer(Loop(p, p[j].i), p[j].i, m, V)
      BY <3>2
    <3>4. Answer(Loop(p, p[j].i), j, m, V)
      BY <2>2, <3>2, <3>3, AnswerLater DEF Indices
    <3> QED
      BY <2>2, <2>3, <2>4, <3>4, BeforeAnswer
  <2>5. CASE p[j].v # "again"
    BY <2>2, <2>3, <2>5 DEF Turns, Indices
  <2> QED
    BY <2>4, <2>5
<1> QED
  BY <1>2

\* A loop around a parser that moves forward, or in a text that may spin.
Parses(p, m, V) ==
    /\ DOMAIN p = Indices(m)
    /\ \A j \in Indices(m) : Answer(p[j], j, m, V) /\ ("spin" \in V \/ Advances(p[j], j))
    /\ {"ok", "parse", "cont"} \subseteq V /\ "again" \notin V

LEMMA TurnAnswer ==
    ASSUME NEW m, Len(m) \in Nat, NEW V, NEW p, Parses(p, m, V), NEW j \in Indices(m), NEW x
    PROVE  LET t == Turn(p[j], j, x)
           IN \/ t.v = "again" /\ t.i \in (j + 1)..Len(m)
              \/ t.v # "again" /\ Answer(t, j, m, V)
<1>1. /\ Answer(p[j], j, m, V) /\ ("spin" \in V \/ Advances(p[j], j))
      /\ {"ok", "parse", "cont"} \subseteq V /\ "again" \notin V
  BY DEF Parses
<1>2. CASE p[j].v = "parse"
  <2>1. Turn(p[j], j, x) = Ok(j)
    BY <1>2 DEF Turn
  <2> QED
    BY <1>1, <2>1, StandsStill, Constants
<1>3. CASE p[j].v = "ok" /\ p[j].i = j
  <2>1. Turn(p[j], j, x) = Spin
    BY <1>3 DEF Turn
  <2>2. "spin" \in V
    BY <1>1, <1>3 DEF Advances, Indices
  <2> QED
    BY <1>1, <2>1, <2>2, ConstantAnswers, Constants
<1>4. CASE p[j].v = "ok" /\ p[j].i # j
  <2>1. Turn(p[j], j, x) = Again(p[j].i, x)
    BY <1>4 DEF Turn
  <2>2. p[j].i \in (j + 1)..Len(m)
    BY <1>1, <1>4 DEF Answer, Indices
  <2> QED
    BY <2>1, <2>2, Constants
<1>5. CASE p[j].v \notin {"parse", "ok"}
  <2>1. Turn(p[j], j, x) = p[j]
    BY <1>5 DEF Turn
  <2> QED
    BY <1>1, <2>1 DEF Answer
<1> QED
  BY <1>2, <1>3, <1>4, <1>5

LEMMA ManyAnswer ==
    ASSUME NEW m, Len(m) \in Nat, NEW V, NEW p, Parses(p, m, V), NEW i \in Indices(m)
    PROVE  Answer(Many(p, i), i, m, V)
<1> DEFINE t == [j \in DOMAIN p |-> LET r == p[j] IN Turn(r, j, <<>>)]
<1>1. DOMAIN t = Indices(m) /\ \A j \in Indices(m) : t[j] = Turn(p[j], j, <<>>)
  BY DEF Parses
<1>2. Turns(t, m, V)
  BY <1>1, TurnAnswer DEF Turns
<1>3. Many(p, i) = Loop(t, i)
  BY DEF Many
<1> HIDE DEF t
<1> QED
  BY <1>2, <1>3, LoopAnswer

LEMMA Many1Answer ==
    ASSUME NEW m, Len(m) \in Nat, NEW V, NEW p, Parses(p, m, V), NEW i \in Indices(m)
    PROVE  Answer(Many1(p, i), i, m, V) /\ (Advances(p[i], i) => Advances(Many1(p, i), i))
<1>1. Answer(p[i], i, m, V)
  BY DEF Parses
<1>2. CASE p[i].v # "ok"
  BY <1>1, <1>2 DEF Many1, Then, Advances
<1>3. CASE p[i].v = "ok"
  <2>1. p[i].i \in Indices(m) /\ i <= p[i].i /\ Many1(p, i) = Many(p, p[i].i)
    BY <1>1, <1>3 DEF Answer, Indices, Many1, Then
  <2>2. Answer(Many(p, p[i].i), p[i].i, m, V)
    BY <2>1, ManyAnswer
  <2> QED
    BY <1>3, <2>1, <2>2, AnswerLater DEF Advances, Answer, Indices
<1> QED
  BY <1>2, <1>3

LEMMA StructMultipleAnswer ==
    ASSUME NEW m, Len(m) \in Nat, NEW V, NEW p, Parses(p, m, V), NEW i \in Indices(m)
    PROVE  Answer(StructMultiple(p, i), i, m, V)
<1> DEFINE t == [j \in DOMAIN p |-> LET r == p[j] IN Turn(r, j, <<r.val>>)]
<1>1. DOMAIN t = Indices(m) /\ \A j \in Indices(m) : t[j] = Turn(p[j], j, <<p[j].val>>)
  BY DEF Parses
<1>2. Turns(t, m, V)
  BY <1>1, TurnAnswer DEF Turns
<1>3. StructMultiple(p, i) = IF p[i].v = "ok" THEN Loop(t, i) ELSE p[i]
  BY DEF StructMultiple
<1>4. Answer(p[i], i, m, V)
  BY DEF Parses
<1> HIDE DEF t
<1> QED
  BY <1>2, <1>3, <1>4, LoopAnswer

-----------------------------------------------------------------------------
(***************************************************************************)
(* Single characters, keywords and numbers.                                *)
(***************************************************************************)
\* What follows a parser that has answered.
LEMMA Sequel ==
    ASSUME NEW m, Len(m) \in Nat, NEW V, NEW i \in Indices(m), NEW a, Answer(a, i, m, V), NEW b,
           a.v = "ok" => Answer(b, a.i, m, V),
           NEW r, r = IF a.v = "ok" THEN b ELSE a
    PROVE  /\ Answer(r, i, m, V)
           /\ Advances(a, i) => Advances(r, i)
           /\ (a.v = "ok" => Advances(b, a.i)) => Advances(r, i)
<1>1. CASE a.v # "ok"
  BY <1>1 DEF Advances
<1>2. CASE a.v = "ok"
  <2>1. a.i \in Indices(m) /\ i <= a.i /\ Answer(b, a.i, m, V)
    BY <1>2 DEF Answer, Indices
  <2>2. Answer(b, i, m, V)
    BY <2>1, AnswerLater
  <2>3. b.v = "ok" => a.i <= b.i /\ b.i \in Nat /\ i \in Nat /\ a.i \in Nat
    BY <2>1 DEF Answer, Indices
  <2> QED
    BY <1>2, <2>1, <2>2, <2>3 DEF Advances
<1> QED
  BY <1>1, <1>2

\* A step of one character.
LEMMA StepAnswer ==
    ASSUME NEW m, Len(m) \in Nat, NEW i \in Indices(m), i < Len(m), NEW x
    PROVE  /\ Answer(Ok(i + 1), i, m, Verdicts(m)) /\ Answer(Got(i + 1, x), i, m, Verdicts(m))
           /\ Advances(Ok(i + 1), i) /\ Advances(Got(i + 1, x), i) /\ i + 1 \in Indices(m)
<1>1. i + 1 \in Indices(m) /\ i + 1 >= i /\ i < i + 1
  BY DEF Indices
<1> QED
  BY <1>1, ConstantAnswers, VerdictsAre, Constants DEF Advances

LEMMA Refusals ==
    ASSUME NEW m, Len(m) \in Nat, NEW i
    PROVE  /\ Answer(Fail, i, m, Verdicts(m)) /\ Answer(More, i, m, Verdicts(m))
           /\ Advances(Fail, i) /\ Advances(More, i)
  BY ConstantAnswers, VerdictsAre, Constants DEF Advances

LEMMA CharAnswer ==
    ASSUME NEW m, Len(m) \in Nat, NEW i \in Indices(m), NEW c
    PROVE  Answer(Char(m, i, c), i, m, Verdicts(m)) /\ Advances(Char(m, i, c), i)
<1>1. i >= Len(m) \/ i < Len(m)
  BY DEF Indices
<1> QED
  BY <1>1, StepAnswer, Refusals DEF Char

LEMMA WspCharAnswer ==
    ASSUME NEW m, Len(m) \in Nat, NEW i \in Indices(m)
    PROVE  Answer(WspChar(m, i), i, m, Verdicts(m)) /\ Advances(WspChar(m, i), i)
<1>1. i >= Len(m) \/ i < Len(m)
  BY DEF Indices
<1> QED
  BY <1>1, StepAnswer, Refusals DEF WspChar

LEMMA DigitAnswer ==
    ASSUME NEW m, Len(m) \in Nat, NEW i \in Indices(m)
    PROVE  Answer(Digit(m, i), i, m, Verdicts(m)) /\ Advances(Digit(m, i), i)
<1>1. i >= Len(m) \/ i < Len(m)
  BY DEF Indices
<1>2. i < Len(m) => Answer(Got(i + 1, <<CHOOSE d \in 0..9 : Ch(m, i) = ToString(d)>>), i, m, Verdicts(m))
                 /\ Advances(Got(i + 1, <<CHOOSE d \in 0..9 : Ch(m, i) = ToString(d)>>), i)
  BY StepAnswer
<1> QED
  BY <1>1, <1>2, Refusals DEF Digit

LEMMA WspsAnswer ==
    ASSUME NEW m, Len(m) \in Nat, NEW i \in Indices(m)
    PROVE  Answer(Wsps(m, i), i, m, Verdicts(m))
<1>1. Parses(EachWsp(m), m, Verdicts(m))
  BY WspCharAnswer, VerdictsAre DEF Parses, EachWsp
<1> QED
  BY <1>1, ManyAnswer DEF Wsps

LEMMA NumberAnswer ==
    ASSUME NEW m, Len(m) \in Nat, NEW i \in Indices(m)
    PROVE  Answer(Number(m, i), i, m, Verdicts(m))
<1> DEFINE p == [j \in Indices(m) |-> Digit(m, j)]
           digits == StructMultiple(p, i)
<1>1. Parses(p, m, Verdicts(m))
  BY DigitAnswer, VerdictsAre DEF Parses
<1>2. Answer(digits, i, m, Verdicts(m))
  BY <1>1, StructMultipleAnswer
<1>3. Number(m, i) = With(digits, <<FoldLeft(LAMBDA n, d : 10 * n + d[1], 0, digits.val)>>)
  BY DEF Number
<1> HIDE DEF digits
<1> QED
  BY <1>2, <1>3, WithAnswer

LEMMA CrLfAnswer ==
    ASSUME NEW m, Len(m) \in Nat, NEW i \in Indices(m)
    PROVE  Answer(CrLf(m, i), i, m, Verdicts(m)) /\ Advances(CrLf(m, i), i)
<1> DEFINE a == Opt(Char(m, i, "\r"), i)
           b == Char(m, a.i, "\n")
<1>1. Answer(a, i, m, Verdicts(m))
  BY CharAnswer, OptAnswer, VerdictsAre
<1>2. a.v = "ok" => Answer(b, a.i, m, Verdicts(m)) /\ Advances(b, a.i)
  BY <1>1, CharAnswer DEF Answer, Indices
<1>3. CrLf(m, i) = IF a.v = "ok" THEN b ELSE a
  BY DEF CrLf, Then
<1> HIDE DEF a, b
<1> QED
  BY <1>1, <1>2, <1>3, Sequel

LEMMA StrCrLfAnswer ==
    ASSUME NEW m, Len(m) \in Nat, NEW i \in Indices(m)
    PROVE  Answer(StrCrLf(m, i), i, m, Verdicts(m))
<1> DEFINE ends == {j \in i..(Len(m) - 2) : Ch(m, j) = "\r" /\ Ch(m, j + 1) = "\n"}
<1>1. CASE ends = {}
  BY <1>1, Refusals DEF StrCrLf
<1>2. CASE ends # {}
  <2> DEFINE first == CHOOSE j \in ends : \A k \in ends : j <= k
  <2>1. ends \subseteq Nat /\ ends \subseteq i..(Len(m) - 2)
    BY DEF Indices
  <2>2. \E j \in ends : \A k \in ends : j <= k
    <3> HIDE DEF ends
    <3> QED
      BY <1>2, <2>1, LeastOf
  <2>3. first \in ends
    BY <2>2
  <2>4. 2 + first \in Indices(m) /\ 2 + first >= i
    BY <2>3 DEF Indices
  <2>5. StrCrLf(m, i) = Ok(2 + first)
    BY <1>2 DEF StrCrLf
  <2> QED
    BY <2>4, <2>5, ConstantAnswers, VerdictsAre
<1> QED
  BY <1>1, <1>2

\* The end of a run of characters.
LEMMA SpanEnds ==
    ASSUME NEW m, Len(m) \in Nat, NEW i \in Indices(m), NEW stops
    PROVE  /\ Span(m, i, stops) \in i..Len(m)
           /\ Span(m, i, stops) < Len(m) => Ch(m, Span(m, i, stops)) \in stops
           /\ \A k \in i..(Span(m, i, stops) - 1) : Ch(m, k) \notin stops
<1> DEFINE S == {j \in i..Len(m) : j < Len(m) => Ch(m, j) \in stops}
<1>1. S \subseteq Nat /\ S # {}
  <2>1. Len(m) \in i..Len(m) /\ ~(Len(m) < Len(m)) /\ i..Len(m) \subseteq Nat
    BY DEF Indices
  <2> QED
    BY <2>1
<1>2. PICK e \in S : \A k \in S : e <= k
  <2> HIDE DEF S
  <2> QED
    BY <1>1, LeastOf
<1>3. ASSUME NEW k \in i..(e - 1) PROVE Ch(m, k) \notin stops
  <2>1. k \in i..Len(m) /\ ~(e <= k)
    BY <1>2 DEF Indices
  <2> QED
    BY <1>2, <2>1
<1> QED
  BY <1>2, <1>3 DEF Span

LEMMA PartAnswer ==
    ASSUME NEW m, Len(m) \in Nat, NEW i \in Indices(m), NEW stops, NEW x,
           Span(m, i, stops) # i
    PROVE  /\ Answer(Got(Span(m, i, stops), x), i, m, Verdicts(m))
           /\ Advances(Got(Span(m, i, stops), x), i)
<1>1. Span(m, i, stops) \in Indices(m) /\ i <= Span(m, i, stops) /\ i < Span(m, i, stops)
  BY SpanEnds DEF Indices
<1> QED
  BY <1>1, ConstantAnswers, VerdictsAre, Constants DEF Advances

LEMMA CustomStringAnswer ==
    ASSUME NEW m, Len(m) \in Nat, NEW i \in Indices(m), NEW stops
    PROVE  /\ Answer(CustomString(m, i, stops), i, m, Verdicts(m))
           /\ Advances(CustomString(m, i, stops), i)
<1> DEFINE e == Span(m, i, stops)
<1>1. e # i => /\ Answer(Got(e, <<Part(m, i, e)>>), i, m, Verdicts(m))
               /\ Advances(Got(e, <<Part(m, i, e)>>), i)
  BY PartAnswer
<1>2. CustomString(m, i, stops) =
        IF i >= Len(m) THEN More ELSE IF e = i THEN Fail ELSE Got(e, <<Part(m, i, e)>>)
  BY DEF CustomString
<1> HIDE DEF e
<1> QED
  BY <1>1, <1>2, Refusals

LEMMA TokenAnswer ==
    ASSUME NEW m, Len(m) \in Nat, NEW i \in Indices(m)
    PROVE  Answer(Token(m, i), i, m, Verdicts(m)) /\ Advances(Token(m, i), i)
  BY CustomStringAnswer DEF Token

-----------------------------------------------------------------------------
(***************************************************************************)
(* Folding white space and comments.                                       *)
(***************************************************************************)
LEMMA FwsAnswer ==
    ASSUME NEW m, Len(m) \in Nat, NEW i \in Indices(m)
    PROVE  Answer(Fws(m, i), i, m, Verdicts(m)) /\ Advances(Fws(m, i), i)
<1> DEFINE a == Wsps(m, i)
           j == a.i
           ending == CrLf(m, j)
           folded == Wsps(m, ending.i)
           unfolded == IF j > i THEN Ok(j) ELSE Fail
           b == IF ending.v = "parse" \/ (ending.v = "ok" /\ folded = Ok(ending.i)) THEN unfolded
                ELSE IF ending.v = "ok" THEN folded ELSE ending
<1>1. Answer(a, i, m, Verdicts(m))
  BY WspsAnswer
<1>2. Fws(m, i) = IF a.v = "ok" THEN b ELSE a
  BY DEF Fws, Then, AndThen
<1>3. CASE a.v # "ok"
  BY <1>1, <1>2, <1>3 DEF Advances
<1>4. CASE a.v = "ok"
  <2>1. j \in Indices(m) /\ i <= j
    BY <1>1, <1>4 DEF Answer, Indices
  <2>2. Answer(ending, j, m, Verdicts(m)) /\ Advances(ending, j)
    BY <2>1, CrLfAnswer
  <2>3. Answer(unfolded, i, m, Verdicts(m)) /\ Advances(unfolded, i)
    <3>1. j > i \/ ~(j > i)
      OBVIOUS
    <3>2. j > i => Answer(Ok(j), i, m, Verdicts(m)) /\ Advances(Ok(j), i)
      <4>1. j >= i
        BY <2>1 DEF Indices
      <4>2. Answer(Ok(j), i, m, Verdicts(m))
        BY <2>1, <4>1, ConstantAnswers, VerdictsAre
      <4> QED
        BY <2>1, <4>2, Constants DEF Advances, Indices
    <3> QED
      BY <3>2, Refusals
  <2>4. Answer(ending, i, m, Verdicts(m)) /\ Advances(ending, i)
    BY <2>1, <2>2, AnswerLater DEF Answer, Advances, Indices
  <2>5. ending.v = "ok" => Answer(folded, i, m, Verdicts(m)) /\ Advances(folded, i)
    <3> SUFFICES ASSUME ending.v = "ok" PROVE Answer(folded, i, m, Verdicts(m)) /\ Advances(folded, i)
      OBVIOUS
    <3>1. ending.i \in Indices(m) /\ i < ending.i
      BY <2>4 DEF Answer, Advances, Indices
    <3>2. Answer(folded, ending.i, m, Verdicts(m))
      BY <3>1, WspsAnswer
    <3>3. i <= ending.i
      BY <3>1 DEF Indices
    <3> HIDE DEF folded
    <3> QED
      BY <3>1, <3>2, <3>3, AnswerLater DEF Answer, Advances, Indices
  <2> HIDE DEF ending, folded, unfolded
  <2>6. Fws(m, i) \in {unfolded, ending} \/ (ending.v = "ok" /\ Fws(m, i) = folded)
    BY <1>2, <1>4
  <2> QED
    BY <2>3, <2>4, <2>5, <2>6
<1> QED
  BY <1>3, <1>4

LEMMA QuotedPairAnswer ==
    ASSUME NEW m, Len(m) \in Nat, NEW i \in Indices(m)
    PROVE  Answer(QuotedPair(m, i), i, m, Verdicts(m)) /\ Advances(QuotedPair(m, i), i)
<1>1. i + 1 < Len(m) => /\ Answer(Got(i + 2, <<Ch(m, i + 1)>>), i, m, Verdicts(m))
                        /\ Advances(Got(i + 2, <<Ch(m, i + 1)>>), i)
  <2> SUFFICES ASSUME i + 1 < Len(m)
               PROVE  /\ Answer(Got(i + 2, <<Ch(m, i + 1)>>), i, m, Verdicts(m))
                      /\ Advances(Got(i + 2, <<Ch(m, i + 1)>>), i)
    OBVIOUS
  <2>1. i + 2 \in Indices(m) /\ i + 2 >= i /\ i < i + 2
    BY DEF Indices
  <2> QED
    BY <2>1, ConstantAnswers, VerdictsAre, Constants DEF Advances
<1>2. i + 1 >= Len(m) \/ i + 1 < Len(m)
  BY DEF Indices
<1> QED
  BY <1>1, <1>2, Refusals DEF QuotedPair

\* Inside a comment, from each index on.
CommentTurn(m, inside, j) ==
    LET white == Opt(Fws(m, j), j)
        Nested(k) == Then(Char(m, k, "("), LAMBDA l : inside[l])
        content == Then(white, LAMBDA k : Ccontent(m, k, Nested(k)))
    IN CASE content.v = "parse" -> Then(white, LAMBDA k : Char(m, k, ")"))
         [] content.v = "ok" -> IF content.i = j THEN Spin ELSE inside[content.i]
         [] OTHER -> content
Inside(m) == CHOOSE inside : inside = [j \in Indices(m) |-> CommentTurn(m, inside, j)]

LEMMA CommentIs == \A m, i : Comment(m, i) = Then(Char(m, i, "("), LAMBDA j : Inside(m)[j])
  BY DEF Comment, Inside, CommentTurn

Spinning == {"ok", "parse", "cont", "spin"}

LEMMA SpinningVerdicts ==
    \A m : /\ Verdicts(m) \subseteq Spinning
           /\ Opens(m) => Verdicts(m) = Spinning
  BY DEF Verdicts, Spinning

LEMMA AnswerMore ==
    ASSUME NEW m, NEW i, NEW r, NEW V, NEW W, V \subseteq W, Answer(r, i, m, V)
    PROVE  Answer(r, i, m, W)
  BY DEF Answer

LEMMA CcontentAnswer ==
    ASSUME NEW m, Len(m) \in Nat, NEW i \in Indices(m), NEW c, Answer(c, i, m, Spinning)
    PROVE  Answer(Ccontent(m, i, c), i, m, Spinning)
<1> DEFINE r == Else(QuotedPair(m, i), c)
<1>1. Answer(QuotedPair(m, i), i, m, Spinning) /\ Answer(Ok(i), i, m, Spinning)
  BY QuotedPairAnswer, StandsStill, SpinningVerdicts, AnswerMore DEF Spinning
<1>2. Answer(r, i, m, Spinning)
  BY <1>1, ElseAnswer
<1>3. CASE i >= Len(m)
  BY <1>3, Refusals, SpinningVerdicts, AnswerMore DEF Ccontent
<1>4. CASE i < Len(m)
  <2>1. Answer(Ok(i + 1), i, m, Spinning)
    BY <1>4, StepAnswer, SpinningVerdicts, AnswerMore
  <2>2. ~(i >= Len(m))
    BY <1>4 DEF Indices
  <2>3. Ccontent(m, i, c) = IF Ch(m, i) \notin NotCtext THEN Ok(i + 1)
                            ELSE IF r.v = "cont" THEN Ok(i) ELSE r
    BY <2>2 DEF Ccontent
  <2> HIDE DEF r
  <2> QED
    BY <1>1, <1>2, <2>1, <2>3
<1>5. i >= Len(m) \/ i < Len(m)
  BY DEF Indices
<1> QED
  BY <1>3, <1>4, <1>5

\* What a turn looks at of the turns behind it.
LEMMA CommentTurnAnswer ==
    ASSUME NEW m, Len(m) \in Nat, NEW j \in Indices(m), NEW g,
           \A l \in (j + 1)..Len(m) : Answer(g[l], l, m, Spinning)
    PROVE  /\ Answer(CommentTurn(m, g, j), j, m, Spinning)
           /\ \A h : (\A l \in (j + 1)..Len(m) : h[l] = g[l]) => CommentTurn(m, h, j) = CommentTurn(m, g, j)
<1> DEFINE white == Opt(Fws(m, j), j)
           k == white.i
           open == Char(m, k, "(")
           Nested(f) == IF open.v = "ok" THEN f[open.i] ELSE open
           Content(f) == IF white.v = "ok" THEN Ccontent(m, k, Nested(f)) ELSE white
           last == IF white.v = "ok" THEN Char(m, k, ")") ELSE white
           Turned(f) == CASE Content(f).v = "parse" -> last
                          [] Content(f).v = "ok" -> IF Content(f).i = j THEN Spin ELSE f[Content(f).i]
                          [] OTHER -> Content(f)
<1>1. \A f : CommentTurn(m, f, j) = Turned(f)
  BY DEF CommentTurn, Then
<1>2. Answer(white, j, m, Spinning) /\ white.v # "parse"
  BY FwsAnswer, OptAnswer, VerdictsAre, SpinningVerdicts, AnswerMore
<1>3. CASE white.v # "ok"
  <2>1. \A f : Turned(f) = white
    BY <1>2, <1>3
  <2> HIDE DEF white, Turned
  <2> QED
    BY <1>1, <1>2, <2>1
<1>4. CASE white.v = "ok"
  <2>1. k \in Indices(m) /\ j <= k
    BY <1>2, <1>4 DEF Answer, Indices
  <2>2. Answer(open, k, m, Spinning) /\ Advances(open, k)
    BY <2>1, CharAnswer, SpinningVerdicts, AnswerMore
  <2>3. open.v = "ok" => open.i \in (j + 1)..Len(m) /\ open.i \in Indices(m) /\ k <= open.i
    BY <2>1, <2>2 DEF Answer, Advances, Indices
  <2>4. Answer(Nested(g), k, m, Spinning)
    <3>1. CASE open.v = "ok"
      <4>1. Answer(g[open.i], open.i, m, Spinning)
        BY <2>3, <3>1
      <4> QED
        BY <2>1, <2>3, <3>1, <4>1, AnswerLater
    <3> QED
      BY <2>2, <3>1
  <2>5. Answer(Content(g), k, m, Spinning)
    BY <1>4, <2>1, <2>4, CcontentAnswer
  <2>6. Answer(last, k, m, Spinning)
    BY <1>4, <2>1, CharAnswer, SpinningVerdicts, AnswerMore
  <2>7. Content(g).v = "ok" /\ Content(g).i # j =>
           Content(g).i \in (j + 1)..Len(m) /\ Content(g).i \in Indices(m) /\ j <= Content(g).i
    BY <2>1, <2>5 DEF Answer, Indices
  <2>8. Content(g).v = "ok" /\ Content(g).i # j => Answer(g[Content(g).i], j, m, Spinning)
    BY <2>7, AnswerLater
  <2>9. Answer(Spin, j, m, Spinning)
    BY ConstantAnswers DEF Spinning
  <2>10. Answer(Content(g), j, m, Spinning) /\ Answer(last, j, m, Spinning)
    <3> HIDE DEF Content, last, k
    <3> QED
      BY <2>1, <2>5, <2>6, AnswerLater
  <2>11. Answer(Turned(g), j, m, Spinning)
    <3> HIDE DEF Content, last
    <3> QED
      BY <2>8, <2>9, <2>10
  <2>12. ASSUME NEW h, \A l \in (j + 1)..Len(m) : h[l] = g[l]
         PROVE  Turned(h) = Turned(g)
    <3>1. Nested(h) = Nested(g)
      <4> HIDE DEF open
      <4> QED
        BY <2>3, <2>12
    <3>2. Content(h) = Content(g)
      <4> HIDE DEF Nested
      <4> QED
        BY <3>1
    <3>3. Content(g).v = "ok" /\ Content(g).i # j => h[Content(g).i] = g[Content(g).i]
      BY <2>7, <2>12
    <3> HIDE DEF Content, last
    <3> QED
      BY <3>2, <3>3
  <2> HIDE DEF Turned
  <2> QED
    BY <1>1, <2>11, <2>12
<1> QED
  BY <1>3, <1>4

LEMMA InsideDefined ==
    ASSUME NEW m, Len(m) \in Nat
    PROVE  /\ Inside(m) = [j \in Indices(m) |-> CommentTurn(m, Inside(m), j)]
           /\ \A j \in Indices(m) : Answer(Inside(m)[j], j, m, Spinning)
<1> DEFINE n == Len(m)
           Solves(g, k) ==
              /\ g = [j \in 0..n |-> g[j]]
              /\ \A j \in k..n : g[j] = CommentTurn(m, g, j) /\ Answer(g[j], j, m, Spinning)
           Unsolved == {k \in 0..(n + 1) : ~ \E g : Solves(g, k)}
<1>1. Unsolved = {}
  <2> SUFFICES ASSUME Unsolved # {} PROVE FALSE
    OBVIOUS
  <2>1. PICK k \in Unsolved : \A l \in Unsolved : l <= k
    <3>1. n + 1 \in Nat /\ Unsolved \subseteq 0..(n + 1)
      OBVIOUS
    <3> HIDE DEF Unsolved
    <3> QED
      BY <3>1, LastOf
  <2>2. CASE k = n + 1
    <3>1. Solves([j \in 0..n |-> j], k)
      BY <2>2
    <3> QED
      BY <3>1, <2>1
  <2>3. CASE k \in 0..n
    <3>1. PICK g : Solves(g, k + 1)
      <4>1. k + 1 \in 0..(n + 1) /\ ~(k + 1 <= k)
        BY <2>3
      <4>2. k + 1 \notin Unsolved
        BY <4>1, <2>1
      <4> QED
        BY <4>1, <4>2
    <3> DEFINE h == [j \in 0..n |-> IF j = k THEN CommentTurn(m, g, k) ELSE g[j]]
    <3>2. \A l \in (k + 1)..n : h[l] = g[l]
      BY <2>3
    <3>3. ASSUME NEW j \in k..n
          PROVE  h[j] = CommentTurn(m, h, j) /\ Answer(h[j], j, m, Spinning)
      <4>1. j \in Indices(m)
        BY <2>3 DEF Indices
      <4>2. \A l \in (j + 1)..n : Answer(g[l], l, m, Spinning) /\ h[l] = g[l]
        <5>1. \A l \in (j + 1)..n : l \in (k + 1)..n
          BY <2>3
        <5> HIDE DEF h
        <5> QED
          BY <3>1, <3>2, <5>1
      <4>3. CommentTurn(m, h, j) = CommentTurn(m, g, j) /\ Answer(CommentTurn(m, g, j), j, m, Spinning)
        <5> HIDE DEF h
        <5> QED
          BY <4>1, <4>2, CommentTurnAnswer
      <4>4. CASE j = k
        <5>1. h[j] = CommentTurn(m, g, j)
          BY <4>4, <2>3
        <5> HIDE DEF h
        <5> QED
          BY <4>3, <5>1
      <4>5. CASE j \in (k + 1)..n
        <5>1. h[j] = g[j] /\ g[j] = CommentTurn(m, g, j)
          BY <3>1, <3>2, <4>5
        <5> HIDE DEF h
        <5> QED
          BY <4>3, <5>1
      <4> QED
        BY <4>4, <4>5, <2>3
    <3>4. h = [j \in 0..n |-> h[j]]
      OBVIOUS
    <3>5. Solves(h, k)
      <4> HIDE DEF h
      <4> QED
        BY <3>3, <3>4
    <3> QED
      BY <3>5, <2>1
  <2> QED
    BY <2>1, <2>2, <2>3
<1>2. PICK g : Solves(g, 0)
  <2>1. 0 \in 0..(n + 1)
    OBVIOUS
  <2> QED
    BY <1>1, <2>1
<1>3. g = [j \in Indices(m) |-> CommentTurn(m, g, j)]
  BY <1>2 DEF Indices
<1>4. Inside(m) = [j \in Indices(m) |-> CommentTurn(m, Inside(m), j)]
  BY <1>3 DEF Inside
<1> DEFINE Bad == {j \in 0..n : ~Answer(Inside(m)[j], j, m, Spinning)}
<1>5. Bad = {}
  <2> SUFFICES ASSUME Bad # {} PROVE FALSE
    OBVIOUS
  <2>1. PICK j \in Bad : \A l \in Bad : l <= j
    <3>1. Bad \subseteq 0..n
      OBVIOUS
    <3> HIDE DEF Bad
    <3> QED
      BY <3>1, LastOf
  <2>2. j \in Indices(m) /\ Inside(m)[j] = CommentTurn(m, Inside(m), j)
    BY <1>4 DEF Indices
  <2>3. \A l \in (j + 1)..n : Answer(Inside(m)[l], l, m, Spinning)
    <3>1. \A l \in (j + 1)..n : l \in 0..n /\ ~(l <= j)
      OBVIOUS
    <3> QED
      BY <2>1, <3>1
  <2>4. Answer(Inside(m)[j], j, m, Spinning)
    BY <2>2, <2>3, CommentTurnAnswer
  <2> QED
    BY <2>4
<1> QED
  BY <1>4, <1>5 DEF Indices

LEMMA CommentAnswer ==
    ASSUME NEW m, Len(m) \in Nat, NEW i \in Indices(m)
    PROVE  Answer(Comment(m, i), i, m, Verdicts(m)) /\ Advances(Comment(m, i), i)
<1> DEFINE open == Char(m, i, "(")
           rest == Inside(m)[open.i]
<1>1. Answer(open, i, m, Verdicts(m)) /\ Advances(open, i)
  BY CharAnswer
<1>2. open.v = "ok" => Answer(rest, open.i, m, Verdicts(m))
  <2> SUFFICES ASSUME open.v = "ok" PROVE Answer(rest, open.i, m, Verdicts(m))
    OBVIOUS
  <2>1. Ch(m, i) = "(" /\ i \in 0..(Len(m) - 1)
    BY Constants DEF Char, Indices
  <2>2. Opens(m)
    BY <2>1 DEF Opens
  <2>3. open.i \in Indices(m)
    BY <1>1 DEF Answer, Indices
  <2> QED
    BY <2>2, <2>3, InsideDefined, SpinningVerdicts
<1>3. Comment(m, i) = IF open.v = "ok" THEN rest ELSE open
  BY CommentIs DEF Then
<1> HIDE DEF open, rest
<1> QED
  BY <1>1, <1>2, <1>3, Sequel

LEMMA FwsCommentAnswer ==
    ASSUME NEW m, Len(m) \in Nat, NEW i \in Indices(m)
    PROVE  Answer(FwsComment(m, i), i, m, Verdicts(m)) /\ Advances(FwsComment(m, i), i)
<1> DEFINE white == Opt(Fws(m, i), i)
           comment == Comment(m, white.i)
<1>1. Answer(white, i, m, Verdicts(m))
  BY FwsAnswer, OptAnswer, VerdictsAre
<1>2. white.v = "ok" => Answer(comment, white.i, m, Verdicts(m)) /\ Advances(comment, white.i)
  BY <1>1, CommentAnswer DEF Answer, Indices
<1>3. FwsComment(m, i) = IF white.v = "ok" THEN comment ELSE white
  BY DEF FwsComment, Then
<1> HIDE DEF white, comment
<1> QED
  BY <1>1, <1>2, <1>3, Sequel

LEMMA CfwsAnswer ==
    ASSUME NEW m, Len(m) \in Nat, NEW i \in Indices(m)
    PROVE  Answer(Cfws(m, i), i, m, Verdicts(m)) /\ Advances(Cfws(m, i), i)
<1> DEFINE p == [j \in Indices(m) |-> FwsComment(m, j)]
           a == Many(p, i)
           b == IF a.i > i THEN Ok(a.i) ELSE Fws(m, a.i)
<1>1. Parses(p, m, Verdicts(m))
  BY FwsCommentAnswer, VerdictsAre DEF Parses
<1>2. Answer(a, i, m, Verdicts(m))
  BY <1>1, ManyAnswer
<1>3. Cfws(m, i) = IF a.v = "ok" THEN b ELSE a
  BY DEF Cfws, Then
<1>4. CASE a.v # "ok"
  <2> HIDE DEF a, b
  <2> QED
    BY <1>2, <1>3, <1>4 DEF Advances
<1>5. CASE a.v = "ok"
  <2>1. a.i \in Indices(m) /\ (a.i > i \/ a.i = i) /\ a.i >= i
    BY <1>2, <1>5 DEF Answer, Indices
  <2>2. CASE a.i > i
    <3>1. Answer(Ok(a.i), i, m, Verdicts(m)) /\ Ok(a.i).i = a.i
      BY <2>1, ConstantAnswers, Constants, VerdictsAre
    <3>2. b = Ok(a.i) /\ i < Ok(a.i).i
      BY <2>1, <2>2, <3>1 DEF Indices
    <3> HIDE DEF a, b
    <3> QED
      BY <1>3, <1>5, <3>1, <3>2 DEF Advances
  <2>3. CASE a.i = i
    <3>1. b = Fws(m, i)
      BY <2>3 DEF Indices
    <3> HIDE DEF a, b
    <3> QED
      BY <1>3, <1>5, <3>1, FwsAnswer
  <2> QED
    BY <2>1, <2>2, <2>3
<1> QED
  BY <1>4, <1>5

\* What may precede a character, a word, a line's end.
LEMMA MayCfws ==
    ASSUME NEW m, Len(m) \in Nat, NEW i \in Indices(m)
    PROVE  /\ Answer(Opt(Cfws(m, i), i), i, m, Verdicts(m)) /\ Opt(Cfws(m, i), i).v # "parse"
           /\ Opt(Cfws(m, i), i).v = "ok" => Opt(Cfws(m, i), i).i \in Indices(m)
<1>1. Answer(Opt(Cfws(m, i), i), i, m, Verdicts(m)) /\ Opt(Cfws(m, i), i).v # "parse"
  BY CfwsAnswer, OptAnswer, VerdictsAre
<1> QED
  BY <1>1 DEF Answer, Indices

LEMMA UnstrictCharIs ==
    ASSUME NEW m, NEW i, NEW c, NEW white, white = Opt(Cfws(m, i), i)
    PROVE  UnstrictChar(m, i, c) = IF white.v = "ok" THEN Char(m, white.i, c) ELSE white
<1>1. UnstrictChar(m, i, c) = Then(white, LAMBDA j : Char(m, j, c))
  BY DEF UnstrictChar
<1>2. Then(white, LAMBDA j : Char(m, j, c)) = IF white.v = "ok" THEN Char(m, white.i, c) ELSE white
  BY DEF Then
<1> QED
  BY <1>1, <1>2

LEMMA UnstrictCharAnswer ==
    ASSUME NEW m, Len(m) \in Nat, NEW i \in Indices(m), NEW c
    PROVE  Answer(UnstrictChar(m, i, c), i, m, Verdicts(m)) /\ Advances(UnstrictChar(m, i, c), i)
<1> DEFINE white == Opt(Cfws(m, i), i)
           char == Char(m, white.i, c)
<1>1. Answer(white, i, m, Verdicts(m)) /\ (white.v = "ok" => white.i \in Indices(m))
  BY MayCfws
<1>2. white.v = "ok" => Answer(char, white.i, m, Verdicts(m)) /\ Advances(char, white.i)
  BY <1>1, CharAnswer
<1>3. UnstrictChar(m, i, c) = IF white.v = "ok" THEN char ELSE white
  BY UnstrictCharIs
<1> HIDE DEF white, char
<1> QED
  BY <1>1, <1>2, <1>3, Sequel

LEMMA UnstrictCrLfAnswer ==
    ASSUME NEW m, Len(m) \in Nat, NEW i \in Indices(m)
    PROVE  Answer(UnstrictCrLf(m, i), i, m, Verdicts(m))
<1> DEFINE r == Cfws(m, i)
<1>1. Answer(r, i, m, Verdicts(m))
  BY CfwsAnswer
<1>2. CASE r.v = "ok"
  <2>1. UnstrictCrLf(m, i) = CrLf(m, r.i)
    BY <1>2 DEF UnstrictCrLf
  <2>2. r.i \in Indices(m) /\ i <= r.i
    BY <1>1, <1>2 DEF Answer, Indices
  <2> HIDE DEF r
  <2> QED
    BY <2>1, <2>2, CrLfAnswer, AnswerLater
<1>3. CASE r.v = "spin"
  BY <1>1, <1>3 DEF UnstrictCrLf
<1>4. CASE r.v \notin {"ok", "spin"}
  <2>1. UnstrictCrLf(m, i) = CrLf(m, i)
    BY <1>4 DEF UnstrictCrLf
  <2> QED
    BY <2>1, CrLfAnswer
<1> QED
  BY <1>2, <1>3, <1>4

-----------------------------------------------------------------------------
(***************************************************************************)
(* Words.                                                                  *)
(***************************************************************************)
LEMMA AtomAfterAnswer ==
    ASSUME NEW m, Len(m) \in Nat, NEW i \in Indices(m), NEW ws, Answer(ws, i, m, Verdicts(m))
    PROVE  Answer(AtomAfter(m, i, ws), i, m, Verdicts(m)) /\ Advances(AtomAfter(m, i, ws), i)
<1> DEFINE white == Opt(ws, i)
           j == white.i
           e == Span(m, j, NotAtext)
           atom == IF j >= Len(m) THEN Fail ELSE IF e = j THEN Fail ELSE Got(e, <<Part(m, j, e)>>)
<1>1. Answer(white, i, m, Verdicts(m))
  BY OptAnswer, VerdictsAre
<1>2. AtomAfter(m, i, ws) = IF white.v = "ok" THEN atom ELSE white
  BY DEF AtomAfter, Then
<1>3. white.v = "ok" => Answer(atom, j, m, Verdicts(m)) /\ Advances(atom, j)
  <2> SUFFICES ASSUME white.v = "ok" PROVE Answer(atom, j, m, Verdicts(m)) /\ Advances(atom, j)
    OBVIOUS
  <2>1. j \in Indices(m)
    BY <1>1 DEF Answer, Indices
  <2>2. e # j => Answer(Got(e, <<Part(m, j, e)>>), j, m, Verdicts(m)) /\ Advances(Got(e, <<Part(m, j, e)>>), j)
    BY <2>1, PartAnswer
  <2> HIDE DEF e, j
  <2> QED
    BY <2>2, Refusals
<1> HIDE DEF white, atom
<1> QED
  BY <1>1, <1>2, <1>3, Sequel

LEMMA QcontentAnswer ==
    ASSUME NEW m, Len(m) \in Nat, NEW i \in Indices(m)
    PROVE  Answer(Qcontent(m, i), i, m, Verdicts(m)) /\ Advances(Qcontent(m, i), i)
<1>1. i >= Len(m) \/ i < Len(m)
  BY DEF Indices
<1>2. i < Len(m) => /\ Answer(Got(i + 1, <<Ch(m, i)>>), i, m, Verdicts(m))
                    /\ Advances(Got(i + 1, <<Ch(m, i)>>), i)
  BY StepAnswer
<1> QED
  BY <1>1, <1>2, Refusals, QuotedPairAnswer DEF Qcontent

LEMMA DcontentAnswer ==
    ASSUME NEW m, Len(m) \in Nat, NEW i \in Indices(m)
    PROVE  Answer(Dcontent(m, i), i, m, Verdicts(m)) /\ Advances(Dcontent(m, i), i)
<1>1. i >= Len(m) \/ i < Len(m)
  BY DEF Indices
<1>2. i < Len(m) => /\ Answer(Got(i + 1, <<Ch(m, i)>>), i, m, Verdicts(m))
                    /\ Advances(Got(i + 1, <<Ch(m, i)>>), i)
  BY StepAnswer
<1> QED
  BY <1>1, <1>2, Refusals, QuotedPairAnswer DEF Dcontent

\* A turn inside a quoted string.
QuotedTurn(m, j) ==
    LET space == Fws(m, j)
        k == IF space.v = "ok" THEN space.i ELSE j
        blank == IF space.v = "ok" THEN " " ELSE ""
        r == Qcontent(m, k)
    IN IF space.v \notin {"ok", "parse"} THEN space
       ELSE CASE r.v = "ok" -> Again(r.i, <<blank, r.val[1]>>)
              [] r.v = "parse" -> With(Char(m, k, "\""), <<blank>>)
              [] OTHER -> r

LEMMA QuotedTurnAnswer ==
    ASSUME NEW m, Len(m) \in Nat, NEW j \in Indices(m)
    PROVE  \/ QuotedTurn(m, j).v = "again" /\ QuotedTurn(m, j).i \in (j + 1)..Len(m)
           \/ QuotedTurn(m, j).v # "again" /\ Answer(QuotedTurn(m, j), j, m, Verdicts(m))
<1> DEFINE space == Fws(m, j)
           k == IF space.v = "ok" THEN space.i ELSE j
           blank == IF space.v = "ok" THEN " " ELSE ""
           r == Qcontent(m, k)
           found == Again(r.i, <<blank, r.val[1]>>)
           last == With(Char(m, k, "\""), <<blank>>)
           turn == IF space.v \notin {"ok", "parse"} THEN space
                   ELSE CASE r.v = "ok" -> found
                          [] r.v = "parse" -> last
                          [] OTHER -> r
<1>1. Answer(space, j, m, Verdicts(m))
  BY FwsAnswer
<1>2. k \in Indices(m) /\ j <= k
  BY <1>1 DEF Answer, Indices
<1>3. Answer(r, k, m, Verdicts(m)) /\ Advances(r, k)
  BY <1>2, QcontentAnswer
<1>4. Answer(last, j, m, Verdicts(m))
  BY <1>2, CharAnswer, AnswerLater, WithAnswer
<1>5. Answer(r, j, m, Verdicts(m))
  <2> HIDE DEF r, k
  <2> QED
    BY <1>2, <1>3, AnswerLater
<1>6. r.v = "ok" => found.v = "again" /\ found.i \in (j + 1)..Len(m)
  <2>1. r.v = "ok" => r.i \in (j + 1)..Len(m)
    BY <1>2, <1>3 DEF Answer, Advances, Indices
  <2>2. found.v = "again" /\ found.i = r.i
    BY DEF Again
  <2> QED
    BY <2>1, <2>2
<1>7. QuotedTurn(m, j) = turn
  BY DEF QuotedTurn
<1>8. \A x : Answer(x, j, m, Verdicts(m)) => x.v # "again"
  BY VerdictsAre DEF Answer
<1> HIDE DEF space, k, blank, r, found, last
<1> QED
  BY <1>1, <1>4, <1>5, <1>6, <1>7, <1>8

QuotedTurns(m) == [j \in Indices(m) |-> QuotedTurn(m, j)]

LEMMA QuotedFromAnswer ==
    ASSUME NEW m, Len(m) \in Nat, NEW i \in Indices(m)
    PROVE  Answer(QuotedFrom(m, i), i, m, Verdicts(m))
<1> DEFINE quoted == Loop(QuotedTurns(m), i)
<1>1. QuotedFrom(m, i) = With(quoted, <<Joined(quoted.val)>>)
  BY DEF QuotedFrom, QuotedTurns, QuotedTurn
<1>2. Turns(QuotedTurns(m), m, Verdicts(m))
  BY QuotedTurnAnswer DEF QuotedTurns, Turns
<1>3. Answer(quoted, i, m, Verdicts(m))
  BY <1>2, LoopAnswer
<1> HIDE DEF quoted
<1> QED
  BY <1>1, <1>3, WithAnswer

LEMMA QuotedAfterAnswer ==
    ASSUME NEW m, Len(m) \in Nat, NEW i \in Indices(m), NEW ws, Answer(ws, i, m, Verdicts(m))
    PROVE  Answer(QuotedAfter(m, i, ws), i, m, Verdicts(m)) /\ Advances(QuotedAfter(m, i, ws), i)
<1> DEFINE white == Opt(ws, i)
           char == Char(m, white.i, "\"")
           open == IF white.v = "ok" THEN char ELSE white
           rest == QuotedFrom(m, open.i)
<1>1. Answer(white, i, m, Verdicts(m))
  BY OptAnswer, VerdictsAre
<1>2. white.v = "ok" => Answer(char, white.i, m, Verdicts(m)) /\ Advances(char, white.i)
  BY <1>1, CharAnswer DEF Answer, Indices
<1>3. Answer(open, i, m, Verdicts(m)) /\ Advances(open, i)
  <2> HIDE DEF white, char
  <2> QED
    BY <1>1, <1>2, Sequel
<1>4. open.v = "ok" => Answer(rest, open.i, m, Verdicts(m))
  BY <1>3, QuotedFromAnswer DEF Answer, Indices
<1>5. QuotedAfter(m, i, ws) = IF open.v = "ok" THEN rest ELSE open
  BY DEF QuotedAfter, Then
<1> HIDE DEF open, rest
<1> QED
  BY <1>3, <1>4, <1>5, Sequel

LEMMA WordAnswers ==
    ASSUME NEW m, Len(m) \in Nat, NEW i \in Indices(m)
    PROVE  /\ Answer(Atom(m, i), i, m, Verdicts(m)) /\ Advances(Atom(m, i), i)
           /\ Answer(QuotedString(m, i), i, m, Verdicts(m)) /\ Advances(QuotedString(m, i), i)
           /\ Answer(Word(m, i), i, m, Verdicts(m)) /\ Advances(Word(m, i), i)
           /\ Answer(FwsAtom(m, i), i, m, Verdicts(m)) /\ Advances(FwsAtom(m, i), i)
           /\ Answer(FwsQuotedString(m, i), i, m, Verdicts(m)) /\ Advances(FwsQuotedString(m, i), i)
           /\ Answer(FwsWord(m, i), i, m, Verdicts(m)) /\ Advances(FwsWord(m, i), i)
           /\ Answer(WspAtom(m, i), i, m, Verdicts(m)) /\ Advances(WspAtom(m, i), i)
<1>1. /\ Answer(Cfws(m, i), i, m, Verdicts(m)) /\ Answer(Fws(m, i), i, m, Verdicts(m))
      /\ Answer(Wsps(m, i), i, m, Verdicts(m))
  BY CfwsAnswer, FwsAnswer, WspsAnswer
<1>2. Answer(Atom(m, i), i, m, Verdicts(m)) /\ Advances(Atom(m, i), i)
  BY <1>1, AtomAfterAnswer DEF Atom
<1>3. Answer(QuotedString(m, i), i, m, Verdicts(m)) /\ Advances(QuotedString(m, i), i)
  BY <1>1, QuotedAfterAnswer DEF QuotedString
<1>4. Answer(FwsAtom(m, i), i, m, Verdicts(m)) /\ Advances(FwsAtom(m, i), i)
  BY <1>1, AtomAfterAnswer DEF FwsAtom
<1>5. Answer(FwsQuotedString(m, i), i, m, Verdicts(m)) /\ Advances(FwsQuotedString(m, i), i)
  BY <1>1, QuotedAfterAnswer DEF FwsQuotedString
<1>6. Answer(WspAtom(m, i), i, m, Verdicts(m)) /\ Advances(WspAtom(m, i), i)
  BY <1>1, AtomAfterAnswer DEF WspAtom
<1>7. Answer(Word(m, i), i, m, Verdicts(m)) /\ Advances(Word(m, i), i)
  BY <1>2, <1>3 DEF Word, Else
<1>8. Answer(FwsWord(m, i), i, m, Verdicts(m)) /\ Advances(FwsWord(m, i), i)
  BY <1>4, <1>5 DEF FwsWord, Else
<1> QED
  BY <1>2, <1>3, <1>4, <1>5, <1>6, <1>7, <1>8

LEMMA PhraseAnswers ==
    ASSUME NEW m, Len(m) \in Nat, NEW i \in Indices(m)
    PROVE  /\ Answer(Phrase(m, i), i, m, Verdicts(m)) /\ Advances(Phrase(m, i), i)
           /\ Answer(WspPhrase(m, i), i, m, Verdicts(m))
<1> DEFINE p == [j \in Indices(m) |-> FwsWord(m, j)]
           q == [j \in Indices(m) |-> WspAtom(m, j)]
<1>1. Parses(p, m, Verdicts(m)) /\ Parses(q, m, Verdicts(m)) /\ Advances(p[i], i)
  BY WordAnswers, VerdictsAre DEF Parses
<1>2. Phrase(m, i) = Many1(p, i) /\ WspPhrase(m, i) = Many1(q, i)
  BY DEF Phrase, WspPhrase
<1> HIDE DEF p, q
<1> QED
  BY <1>1, <1>2, Many1Answer

LEMMA WspUnstrictCharAnswer ==
    ASSUME NEW m, Len(m) \in Nat, NEW i \in Indices(m), NEW c
    PROVE  Answer(WspUnstrictChar(m, i, c), i, m, Verdicts(m)) /\ Advances(WspUnstrictChar(m, i, c), i)
<1> DEFINE white == Opt(Wsps(m, i), i)
           char == Char(m, white.i, c)
<1>1. Answer(white, i, m, Verdicts(m))
  BY WspsAnswer, OptAnswer, VerdictsAre
<1>2. white.v = "ok" => Answer(char, white.i, m, Verdicts(m)) /\ Advances(char, white.i)
  BY <1>1, CharAnswer DEF Answer, Indices
<1>3. WspUnstrictChar(m, i, c) = IF white.v = "ok" THEN char ELSE white
  BY DEF WspUnstrictChar, Then
<1> HIDE DEF white, char
<1> QED
  BY <1>1, <1>2, <1>3, Sequel

LEMMA WspUnstrictCrLfAnswer ==
    ASSUME NEW m, Len(m) \in Nat, NEW i \in Indices(m)
    PROVE  Answer(WspUnstrictCrLf(m, i), i, m, Verdicts(m))
<1> DEFINE r == Wsps(m, i)
           j == IF r.v = "ok" THEN r.i ELSE i
<1>1. j \in Indices(m) /\ i <= j
  BY WspsAnswer DEF Answer, Indices
<1>2. WspUnstrictCrLf(m, i) = CrLf(m, j)
  BY DEF WspUnstrictCrLf
<1> HIDE DEF j
<1> QED
  BY <1>1, <1>2, CrLfAnswer, AnswerLater

-----------------------------------------------------------------------------
(***************************************************************************)
(* Lists, unstructured text and parameters.                                *)
(***************************************************************************)
\* The parser of a value.
Values(p, m, V) ==
    /\ DOMAIN p = Indices(m) /\ \A j \in Indices(m) : Answer(p[j], j, m, V)
    /\ Verdicts(m) \subseteq V /\ "again" \notin V

\* The answers at which the turns of a list decide.
Items(m, symbol, p) ==
    [j \in Indices(m) |-> AndThen(UnstrictChar(m, j, symbol), p[UnstrictChar(m, j, symbol).i])]

LEMMA ItemsParse ==
    ASSUME NEW m, Len(m) \in Nat, NEW V, NEW p, Values(p, m, V), NEW symbol
    PROVE  Parses(Items(m, symbol, p), m, V)
<1>1. ASSUME NEW j \in Indices(m)
      PROVE  Answer(Items(m, symbol, p)[j], j, m, V) /\ Advances(Items(m, symbol, p)[j], j)
  <2> DEFINE sep == UnstrictChar(m, j, symbol)
             value == p[sep.i]
  <2>1. Answer(sep, j, m, V) /\ Advances(sep, j)
    BY UnstrictCharAnswer, AnswerMore DEF Values
  <2>2. sep.v = "ok" => Answer(value, sep.i, m, V)
    BY <2>1 DEF Values, Answer, Indices
  <2>3. Items(m, symbol, p)[j] = IF sep.v = "ok" THEN value ELSE sep
    BY DEF Items, AndThen
  <2> HIDE DEF sep, value
  <2> QED
    BY <2>1, <2>2, <2>3, Sequel
<1>2. DOMAIN Items(m, symbol, p) = Indices(m)
  BY DEF Items
<1> QED
  BY <1>1, <1>2, VerdictsAre DEF Parses, Values

LEMMA StructListAnswer ==
    ASSUME NEW m, Len(m) \in Nat, NEW V, NEW p, Values(p, m, V), NEW symbol, NEW i \in Indices(m)
    PROVE  Answer(StructList(m, i, symbol, p), i, m, V)
<1> DEFINE items == Items(m, symbol, p)
           turns == [j \in Indices(m) |-> Turn(items[j], j, <<items[j].val>>)]
           rest == Loop(turns, p[i].i)
<1>1. Answer(p[i], i, m, V)
  BY DEF Values
<1>2. Turns(turns, m, V)
  <2>1. Parses(items, m, V)
    BY ItemsParse
  <2>2. DOMAIN turns = Indices(m)
    OBVIOUS
  <2>3. ASSUME NEW j \in Indices(m) PROVE turns[j] = Turn(items[j], j, <<items[j].val>>)
    OBVIOUS
  <2> HIDE DEF turns, items
  <2> QED
    BY <2>1, <2>2, <2>3, TurnAnswer DEF Turns
<1>3. p[i].v = "ok" => p[i].i \in Indices(m)
  BY <1>1 DEF Answer, Indices
<1>4. p[i].v = "ok" => Answer(rest, p[i].i, m, V)
  <2> HIDE DEF turns
  <2> QED
    BY <1>2, <1>3, LoopAnswer
<1>5. p[i].v = "ok" => Answer(Before(<<p[i].val>>, rest), p[i].i, m, V)
  <2> HIDE DEF rest
  <2> QED
    BY <1>4, BeforeAnswer
<1>6. StructList(m, i, symbol, p) = IF p[i].v = "ok" THEN Before(<<p[i].val>>, rest) ELSE p[i]
  <2>1. turns = [j \in Indices(m) |-> LET sep == UnstrictChar(m, j, symbol)
                                          r == AndThen(sep, p[sep.i])
                                      IN Turn(r, j, <<r.val>>)]
    BY DEF Items
  <2> HIDE DEF turns
  <2> QED
    BY <2>1 DEF StructList, AndThen
<1> HIDE DEF rest
<1> QED
  BY <1>1, <1>5, <1>6, Sequel

\* How far the scan for the end of an unstructured text has come before each
\* character.
Scanned(m, i) ==
    CHOOSE at : at = [j \in Indices(m) |->
        IF j <= i THEN [state |-> "start", terminal |-> i] ELSE Scan(at[j - 1], Ch(m, j - 1), j - 1)]

LEMMA TerminalIs ==
    \A m, i : Terminal(m, i) = LET end == Scanned(m, i)[Len(m)]
                               IN IF end.state \in {"lf", "out"} THEN Ok(end.terminal) ELSE More
  BY DEF Terminal, Scanned

LEMMA ScannedDefined ==
    ASSUME NEW m, Len(m) \in Nat, NEW i \in Indices(m)
    PROVE  Scanned(m, i) = [j \in Indices(m) |->
             IF j <= i THEN [state |-> "start", terminal |-> i]
             ELSE Scan(Scanned(m, i)[j - 1], Ch(m, j - 1), j - 1)]
<1> DEFINE n == Len(m)
           Body(g, j) == IF j <= i THEN [state |-> "start", terminal |-> i]
                         ELSE Scan(g[j - 1], Ch(m, j - 1), j - 1)
           Solves(g, k) == g = [j \in 0..n |-> g[j]] /\ \A j \in 0..k : g[j] = Body(g, j)
           Unsolved == {k \in 0..n : ~ \E g : Solves(g, k)}
<1>1. i \in 0..n
  BY DEF Indices
<1>2. Unsolved = {}
  <2> SUFFICES ASSUME Unsolved # {} PROVE FALSE
    OBVIOUS
  <2>1. PICK k \in Unsolved : \A l \in Unsolved : k <= l
    <3>1. Unsolved \subseteq Nat
      OBVIOUS
    <3> HIDE DEF Unsolved
    <3> QED
      BY <3>1, LeastOf
  <2>2. CASE k = 0
    <3>1. Solves([j \in 0..n |-> Body(<<>>, 0)], k)
      BY <1>1, <2>2
    <3> QED
      BY <3>1, <2>1
  <2>3. CASE k # 0
    <3>1. k - 1 \in 0..n /\ ~(k <= k - 1) /\ k \in 0..n /\ k \in Nat
      BY <2>1, <2>3
    <3>2. PICK g : Solves(g, k - 1)
      BY <2>1, <3>1
    <3> DEFINE h == [j \in 0..n |-> IF j = k THEN Body(g, k) ELSE g[j]]
    <3>3. ASSUME NEW j \in 0..k PROVE h[j] = Body(h, j)
      <4>1. j \in 0..n /\ (j - 1 \in 0..n \/ j <= i) /\ j - 1 # k
        BY <1>1, <3>1
      <4>2. ~(j <= i) => h[j - 1] = g[j - 1]
        BY <4>1
      <4>3. Body(h, j) = Body(g, j)
        <5> HIDE DEF h
        <5> QED
          BY <4>2
      <4>4. CASE j = k
        <5>1. h[j] = Body(g, j)
          BY <4>1, <4>4
        <5> HIDE DEF h, Body
        <5> QED
          BY <4>3, <5>1
      <4>5. CASE j # k
        <5>1. j \in 0..(k - 1)
          BY <4>5, <3>1
        <5>2. h[j] = g[j] /\ g[j] = Body(g, j)
          BY <3>2, <4>1, <4>5, <5>1
        <5> HIDE DEF h, Body
        <5> QED
          BY <4>3, <5>2
      <4> QED
        BY <4>4, <4>5
    <3>4. h = [j \in 0..n |-> h[j]]
      OBVIOUS
    <3>5. Solves(h, k)
      <4> HIDE DEF h
      <4> QED
        BY <3>3, <3>4
    <3> QED
      BY <3>5, <2>1
  <2> QED
    BY <2>2, <2>3
<1>3. PICK g : Solves(g, n)
  <2>1. n \in 0..n
    OBVIOUS
  <2> QED
    BY <1>2, <2>1
<1>4. g = [j \in Indices(m) |-> Body(g, j)]
  BY <1>3 DEF Indices
<1> QED
  BY <1>4 DEF Scanned

LEMMA ScannedInside ==
    ASSUME NEW m, Len(m) \in Nat, NEW i \in Indices(m), NEW j \in Indices(m)
    PROVE  LET at == Scanned(m, i)[j]
           IN /\ at = [state |-> at.state, terminal |-> at.terminal]
              /\ at.state \in {"start", "cr", "lf", "wsp", "out"}
              /\ at.terminal \in i..Len(m)
<1> DEFINE n == Len(m)
           at == Scanned(m, i)
           Within(s) == /\ s = [state |-> s.state, terminal |-> s.terminal]
                        /\ s.state \in {"start", "cr", "lf", "wsp", "out"} /\ s.terminal \in i..n
           Bad == {k \in Indices(m) : ~Within(at[k])}
<1>1. \A k \in Indices(m) : at[k] = IF k <= i THEN [state |-> "start", terminal |-> i]
                                    ELSE Scan(at[k - 1], Ch(m, k - 1), k - 1)
  BY ScannedDefined
<1>2. i \in i..n
  BY DEF Indices
<1>3. ASSUME NEW s, Within(s), NEW c, NEW k \in i..n PROVE Within(Scan(s, c, k))
  <2> DEFINE next == CASE c = "\r" -> "cr" [] c = "\n" -> "lf" [] OTHER -> "start"
  <2>1. next \in {"cr", "lf", "start"}
    OBVIOUS
  <2> HIDE DEF next
  <2>2. CASE s.state = "start"
    <3>1. Scan(s, c, k) = [state |-> next, terminal |-> k]
      BY <2>2 DEF Scan, next
    <3> QED
      BY <2>1, <3>1
  <2>3. CASE s.state = "cr"
    <3>1. Scan(s, c, k) = [s EXCEPT !.state = IF c = "\n" THEN "lf" ELSE "start"]
      BY <2>3 DEF Scan
    <3> QED
      BY <1>3, <3>1
  <2>4. CASE s.state = "lf"
    <3>1. Scan(s, c, k) = [s EXCEPT !.state = IF c \in Wsp THEN "wsp" ELSE "out"]
      BY <2>4 DEF Scan
    <3> QED
      BY <1>3, <3>1
  <2>5. CASE s.state = "wsp"
    <3>1. Scan(s, c, k) = [s EXCEPT !.state = next]
      BY <2>5 DEF Scan, next
    <3> QED
      BY <1>3, <2>1, <3>1
  <2>6. CASE s.state = "out"
    <3>1. Scan(s, c, k) = s
      BY <2>6 DEF Scan
    <3> QED
      BY <1>3, <3>1
  <2> QED
    BY <1>3, <2>2, <2>3, <2>4, <2>5, <2>6
<1>4. Bad = {}
  <2> SUFFICES ASSUME Bad # {} PROVE FALSE
    OBVIOUS
  <2>1. PICK k \in Bad : \A l \in Bad : k <= l
    <3>1. Bad \subseteq Nat
      BY DEF Indices
    <3> HIDE DEF Bad
    <3> QED
      BY <3>1, LeastOf
  <2>2. k \in Indices(m) /\ k \in Nat
    BY DEF Indices
  <2>3. CASE k <= i
    <3>1. at[k] = [state |-> "start", terminal |-> i]
      BY <1>1, <2>2, <2>3
    <3>2. Within(at[k])
      BY <1>2, <3>1
    <3> QED
      BY <2>1, <3>2
  <2>4. CASE ~(k <= i)
    <3>1. k - 1 \in Indices(m) /\ ~(k <= k - 1) /\ k - 1 \in i..n
      BY <2>2, <2>4 DEF Indices
    <3>2. Within(at[k - 1])
      BY <2>1, <3>1
    <3>3. at[k] = Scan(at[k - 1], Ch(m, k - 1), k - 1)
      BY <1>1, <2>2, <2>4
    <3>4. Within(at[k])
      <4> HIDE DEF Within, at
      <4> QED
        BY <1>3, <3>1, <3>2, <3>3
    <3> QED
      BY <2>1, <3>4
  <2> QED
    BY <2>3, <2>4
<1> QED
  BY <1>4

LEMMA TerminalAnswer ==
    ASSUME NEW m, Len(m) \in Nat, NEW i \in Indices(m)
    PROVE  Answer(Terminal(m, i), i, m, Verdicts(m))
<1> DEFINE end == Scanned(m, i)[Len(m)]
<1>1. Len(m) \in Indices(m)
  BY DEF Indices
<1>2. end.terminal \in i..Len(m)
  BY <1>1, ScannedInside
<1>3. end.terminal \in Indices(m) /\ end.terminal >= i
  BY <1>2 DEF Indices
<1>4. Terminal(m, i) = IF end.state \in {"lf", "out"} THEN Ok(end.terminal) ELSE More
  BY TerminalIs
<1> HIDE DEF end
<1> QED
  BY <1>3, <1>4, ConstantAnswers, VerdictsAre

LEMMA UnstructuredAnswer ==
    ASSUME NEW m, Len(m) \in Nat, NEW i \in Indices(m)
    PROVE  Answer(Unstructured(m, i), i, m, Verdicts(m))
<1> DEFINE a == Wsps(m, i)
           r == Terminal(m, a.i)
           b == IF r.v = "ok" THEN Got(r.i, <<Part(m, a.i, r.i)>>) ELSE r
<1>1. Answer(a, i, m, Verdicts(m))
  BY WspsAnswer
<1>2. a.v = "ok" => Answer(r, a.i, m, Verdicts(m))
  BY <1>1, TerminalAnswer DEF Answer, Indices
<1>3. a.v = "ok" => Answer(b, a.i, m, Verdicts(m))
  <2>1. b = With(r, <<Part(m, a.i, r.i)>>)
    BY DEF With
  <2> HIDE DEF a, r, b
  <2> QED
    BY <1>2, <2>1, WithAnswer
<1>4. Unstructured(m, i) = IF a.v = "ok" THEN b ELSE a
  BY DEF Unstructured, Then
<1> HIDE DEF a, b
<1> QED
  BY <1>1, <1>3, <1>4, Sequel

LEMMA MimeValueAnswer ==
    ASSUME NEW m, Len(m) \in Nat, NEW i \in Indices(m)
    PROVE  Answer(MimeValue(m, i), i, m, Verdicts(m)) /\ Advances(MimeValue(m, i), i)
  BY TokenAnswer, WordAnswers DEF MimeValue, Else

LEMMA MimeParameterAnswer ==
    ASSUME NEW m, Len(m) \in Nat, NEW i \in Indices(m)
    PROVE  Answer(MimeParameter(m, i), i, m, Verdicts(m)) /\ Advances(MimeParameter(m, i), i)
<1> DEFINE name == Token(m, i)
           sign == UnstrictChar(m, name.i, "=")
           white == Opt(Cfws(m, sign.i), sign.i)
           equals == IF sign.v = "ok" THEN white ELSE sign
           value == MimeValue(m, equals.i)
<1>1. Answer(name, i, m, Verdicts(m)) /\ Advances(name, i)
  BY TokenAnswer
<1>2. name.v = "ok" => name.i \in Indices(m) /\ i < name.i
  BY <1>1 DEF Answer, Advances, Indices
<1>3. name.v = "ok" => Answer(sign, name.i, m, Verdicts(m))
  BY <1>2, UnstrictCharAnswer
<1>4. name.v = "ok" /\ sign.v = "ok" => Answer(white, sign.i, m, Verdicts(m))
  BY <1>3, MayCfws DEF Answer, Indices
<1>5. name.v = "ok" => Answer(equals, name.i, m, Verdicts(m))
  <2> HIDE DEF name, sign, white
  <2> QED
    BY <1>2, <1>3, <1>4, Sequel
<1>6. name.v = "ok" /\ equals.v = "ok" => Answer(value, equals.i, m, Verdicts(m)) /\ equals.i \in Indices(m)
  BY <1>5, MimeValueAnswer DEF Answer, Indices
<1> DEFINE last == With(value, <<name.val[1], value.val[1]>>)
           rest == IF equals.v = "ok" THEN last ELSE equals
<1>7. MimeParameter(m, i) = IF name.v = "ok" THEN rest ELSE name
  BY DEF MimeParameter, Then, AndThen
<1>8. name.v = "ok" /\ equals.v = "ok" => Answer(last, equals.i, m, Verdicts(m))
  BY <1>6, WithAnswer
<1> HIDE DEF name, sign, white, equals, value, last
<1>9. name.v = "ok" => Answer(rest, name.i, m, Verdicts(m))
  <2>1. rest = IF equals.v = "ok" THEN last ELSE equals
    OBVIOUS
  <2> HIDE DEF rest
  <2> QED
    BY <1>2, <1>5, <1>8, <2>1, Sequel
<1> HIDE DEF rest
<1> QED
  BY <1>1, <1>7, <1>9, Sequel

-----------------------------------------------------------------------------
(***************************************************************************)
(* Addresses, paths and message identifiers.                               *)
(***************************************************************************)
\* Two and three parsers, one after the other.
LEMMA PairAnswer ==
    ASSUME NEW m, Len(m) \in Nat, NEW V, NEW i \in Indices(m), NEW a, Answer(a, i, m, V), NEW b,
           a.v = "ok" /\ a.i \in Indices(m) => Answer(b, a.i, m, V)
    PROVE  /\ Answer(AndThen(a, b), i, m, V)
           /\ Advances(a, i) => Advances(AndThen(a, b), i)
           /\ (a.v = "ok" => Advances(b, a.i)) => Advances(AndThen(a, b), i)
<1>1. a.v = "ok" => Answer(b, a.i, m, V)
  BY DEF Answer, Indices
<1>2. AndThen(a, b) = IF a.v = "ok" THEN b ELSE a
  BY DEF AndThen
<1> QED
  BY <1>1, <1>2, Sequel

LEMMA TripleAnswer ==
    ASSUME NEW m, Len(m) \in Nat, NEW V, NEW i \in Indices(m), NEW a, Answer(a, i, m, V), NEW b,
           a.v = "ok" /\ a.i \in Indices(m) => Answer(b, a.i, m, V), NEW c,
           a.v = "ok" /\ b.v = "ok" /\ b.i \in Indices(m) => Answer(c, b.i, m, V)
    PROVE  /\ Answer(AndThen(a, AndThen(b, c)), i, m, V)
           /\ Advances(a, i) => Advances(AndThen(a, AndThen(b, c)), i)
<1>1. a.v = "ok" /\ a.i \in Indices(m) => Answer(AndThen(b, c), a.i, m, V)
  BY PairAnswer
<1> QED
  BY <1>1, PairAnswer

\* A parser after what may precede it.
LEMMA BehindCfws ==
    ASSUME NEW m, Len(m) \in Nat, NEW V, Verdicts(m) \subseteq V, NEW i \in Indices(m), NEW white,
           white = Opt(Cfws(m, i), i), NEW b,
           white.v = "ok" /\ white.i \in Indices(m) => Answer(b, white.i, m, V)
    PROVE  /\ Answer(AndThen(white, b), i, m, V)
           /\ (white.v = "ok" => Advances(b, white.i)) => Advances(AndThen(white, b), i)
<1>1. Answer(white, i, m, V)
  BY MayCfws, AnswerMore
<1> QED
  BY <1>1, PairAnswer

LEMMA LineAnswer ==
    ASSUME NEW m, Len(m) \in Nat, NEW V, Verdicts(m) \subseteq V, NEW r, Answer(r, 0, m, V)
    PROVE  Answer(Line(m, r), 0, m, V)
<1>1. 0 \in Indices(m)
  BY DEF Indices
<1>2. r.v = "ok" /\ r.i \in Indices(m) => Answer(With(UnstrictCrLf(m, r.i), r.val), r.i, m, V)
  BY UnstrictCrLfAnswer, WithAnswer, AnswerMore
<1> QED
  BY <1>1, <1>2, PairAnswer DEF Line

LEMMA WspAddrSpecAnswer ==
    ASSUME NEW m, Len(m) \in Nat, NEW i \in Indices(m)
    PROVE  Answer(WspAddrSpec(m, i), i, m, Verdicts(m)) /\ Advances(WspAddrSpec(m, i), i)
<1> DEFINE e == Span(m, i, AddrEnds)
<1>1. e # i => /\ Answer(Got(e, <<Packed(m, i, e)>>), i, m, Verdicts(m))
               /\ Advances(Got(e, <<Packed(m, i, e)>>), i)
  BY PartAnswer
<1>2. WspAddrSpec(m, i) = IF i >= Len(m) THEN More
                          ELSE IF e = i THEN Fail ELSE Got(e, <<Packed(m, i, e)>>)
  BY DEF WspAddrSpec
<1> HIDE DEF e
<1> QED
  BY <1>1, <1>2, Refusals

LEMMA AddrSpecAnswer ==
    ASSUME NEW m, Len(m) \in Nat, NEW i \in Indices(m)
    PROVE  Answer(AddrSpec(m, i), i, m, Verdicts(m))
<1> DEFINE white == Opt(Cfws(m, i), i)
           j == white.i
           n == Len(Undisclosed)
           spec == IF j + n <= Len(m) /\ Part(m, j, j + n) = Undisclosed
                   THEN Got(j + n, <<"">>) ELSE WspAddrSpec(m, j)
<1>1. white.v = "ok" /\ j \in Indices(m) => Answer(spec, j, m, Verdicts(m))
  <2> SUFFICES ASSUME j \in Indices(m) PROVE Answer(spec, j, m, Verdicts(m))
    OBVIOUS
  <2> HIDE DEF j, n
  <2>1. n \in Nat
    BY UndisclosedAssumption DEF n
  <2>2. j + n <= Len(m) => j + n \in Indices(m) /\ j + n >= j
    BY <2>1 DEF Indices
  <2>3. j + n <= Len(m) => Answer(Got(j + n, <<"">>), j, m, Verdicts(m))
    BY <2>2, ConstantAnswers, VerdictsAre
  <2> QED
    BY <2>3, WspAddrSpecAnswer
<1>2. AddrSpec(m, i) = AndThen(white, spec)
  BY DEF AddrSpec, AndThen, Then
<1> HIDE DEF white, spec
<1> QED
  BY <1>1, <1>2, BehindCfws DEF white

LEMMA AngleAnswer ==
    ASSUME NEW m, Len(m) \in Nat, NEW i \in Indices(m), NEW lower, Answer(lower, i, m, Verdicts(m)),
           NEW addr, lower.v = "ok" /\ lower.i \in Indices(m) => Answer(addr, lower.i, m, Verdicts(m)),
           NEW greater,
           lower.v = "ok" /\ addr.v = "ok" /\ addr.i \in Indices(m) => Answer(greater, addr.i, m, Verdicts(m))
    PROVE  /\ Answer(Angle(lower, addr, greater), i, m, Verdicts(m))
           /\ Advances(lower, i) => Advances(Angle(lower, addr, greater), i)
<1>1. lower.v = "ok" /\ addr.v = "ok" /\ addr.i \in Indices(m)
      => Answer(With(greater, addr.val), addr.i, m, Verdicts(m))
  BY WithAnswer
<1> QED
  BY <1>1, TripleAnswer DEF Angle

\* An identifier and an address in angle brackets are parsed alike.
LEMMA AngleAddrAnswer ==
    ASSUME NEW m, Len(m) \in Nat, NEW i \in Indices(m)
    PROVE  /\ Answer(AngleAddr(m, i), i, m, Verdicts(m)) /\ Advances(AngleAddr(m, i), i)
           /\ Answer(MsgId(m, i), i, m, Verdicts(m)) /\ Advances(MsgId(m, i), i)
<1> DEFINE white == Opt(Cfws(m, i), i)
           lower == UnstrictChar(m, white.i, "<")
           addr == AddrSpec(m, lower.i)
           greater == UnstrictChar(m, addr.i, ">")
           angle == Angle(lower, addr, greater)
<1>1. white.v = "ok" /\ white.i \in Indices(m) =>
        Answer(angle, white.i, m, Verdicts(m)) /\ Advances(angle, white.i)
  <2> SUFFICES ASSUME white.i \in Indices(m)
               PROVE  Answer(angle, white.i, m, Verdicts(m)) /\ Advances(angle, white.i)
    OBVIOUS
  <2> HIDE DEF white
  <2>1. Answer(lower, white.i, m, Verdicts(m)) /\ Advances(lower, white.i)
    BY UnstrictCharAnswer
  <2>2. lower.i \in Indices(m) => Answer(addr, lower.i, m, Verdicts(m))
    BY AddrSpecAnswer
  <2>3. addr.i \in Indices(m) => Answer(greater, addr.i, m, Verdicts(m))
    BY UnstrictCharAnswer
  <2> HIDE DEF lower, addr, greater
  <2> QED
    BY <2>1, <2>2, <2>3, AngleAnswer
<1>2. AngleAddr(m, i) = AndThen(white, angle)
  BY DEF AngleAddr, AndThen, Then
<1>3. MsgId(m, i) = AngleAddr(m, i)
  BY DEF AngleAddr, MsgId
<1>4. white = Opt(Cfws(m, i), i)
  OBVIOUS
<1>5. white.v = "ok" => white.i \in Indices(m)
  BY MayCfws
<1> HIDE DEF white, angle
<1> QED
  BY <1>1, <1>2, <1>3, <1>4, <1>5, BehindCfws

LEMMA MailboxAnswer ==
    ASSUME NEW m, Len(m) \in Nat, NEW i \in Indices(m)
    PROVE  Answer(Mailbox(m, i), i, m, Verdicts(m))
<1> DEFINE name == Opt(Phrase(m, i), i)
           angle == AngleAddr(m, name.i)
<1>1. Answer(name, i, m, Verdicts(m))
  BY PhraseAnswers, OptAnswer, VerdictsAre
<1>2. name.i \in Indices(m) => Answer(angle, name.i, m, Verdicts(m))
  BY AngleAddrAnswer
<1>3. NameAddr(m, i) = AndThen(name, angle)
  BY DEF NameAddr, Then, AndThen
<1> HIDE DEF name, angle
<1>4. Answer(NameAddr(m, i), i, m, Verdicts(m))
  BY <1>1, <1>2, <1>3, PairAnswer
<1> QED
  BY <1>4, AddrSpecAnswer, ElseAnswer DEF Mailbox

LEMMA MailboxListAnswer ==
    ASSUME NEW m, Len(m) \in Nat, NEW i \in Indices(m)
    PROVE  Answer(MailboxList(m, i), i, m, Verdicts(m))
<1> DEFINE p == [j \in Indices(m) |-> Mailbox(m, j)]
<1>1. Values(p, m, Verdicts(m))
  BY MailboxAnswer, VerdictsAre DEF Values
<1> HIDE DEF p
<1>2. Answer(StructList(m, i, ",", p), i, m, Verdicts(m))
  BY <1>1, StructListAnswer
<1> QED
  BY <1>2 DEF MailboxList, p

LEMMA GroupAnswer ==
    ASSUME NEW m, Len(m) \in Nat, NEW i \in Indices(m)
    PROVE  Answer(Group(m, i), i, m, VerdictsOrNull(m))
<1> DEFINE phrase == Phrase(m, i)
           char == UnstrictChar(m, phrase.i, ":")
           colon == AndThen(phrase, char)
           list == MailboxList(m, colon.i)
           none == Opt(Cfws(m, colon.i), colon.i)
           inner == Else(list, none)
           end == UnstrictChar(m, inner.i, ";")
           rest == IF end.v = "ok" THEN Got(end.i, FlattenSeq(inner.val))
                   ELSE IF list.v = "ok" THEN end ELSE Null
<1>1. Answer(colon, i, m, Verdicts(m))
  <2>1. Answer(phrase, i, m, Verdicts(m))
    BY PhraseAnswers
  <2>2. phrase.i \in Indices(m) => Answer(char, phrase.i, m, Verdicts(m))
    BY UnstrictCharAnswer
  <2> HIDE DEF phrase, char
  <2> QED
    BY <2>1, <2>2, PairAnswer
<1>2. colon.i \in Indices(m) => Answer(inner, colon.i, m, Verdicts(m))
  <2> SUFFICES ASSUME colon.i \in Indices(m) PROVE Answer(inner, colon.i, m, Verdicts(m))
    OBVIOUS
  <2> HIDE DEF colon
  <2>1. Answer(list, colon.i, m, Verdicts(m)) /\ Answer(none, colon.i, m, Verdicts(m))
    BY MailboxListAnswer, MayCfws
  <2> HIDE DEF list, none
  <2> QED
    BY <2>1, ElseAnswer
<1>3. inner.i \in Indices(m) => Answer(rest, inner.i, m, VerdictsOrNull(m))
  <2> SUFFICES ASSUME inner.i \in Indices(m) PROVE Answer(rest, inner.i, m, VerdictsOrNull(m))
    OBVIOUS
  <2> HIDE DEF inner
  <2>1. Answer(end, inner.i, m, VerdictsOrNull(m))
    BY UnstrictCharAnswer, VerdictsAre, AnswerMore
  <2>2. Answer(Null, inner.i, m, VerdictsOrNull(m))
    BY ConstantAnswers, VerdictsAre
  <2>3. end.v = "ok" => Got(end.i, FlattenSeq(inner.val)) = With(end, FlattenSeq(inner.val))
    BY DEF With
  <2> HIDE DEF end
  <2>4. Answer(With(end, FlattenSeq(inner.val)), inner.i, m, VerdictsOrNull(m))
    BY <2>1, WithAnswer
  <2> QED
    BY <2>1, <2>2, <2>3, <2>4
<1>4. Group(m, i) = AndThen(colon, AndThen(inner, rest))
  BY DEF Group, AndThen, Then
<1> HIDE DEF colon, inner, rest
<1> QED
  BY <1>1, <1>2, <1>3, <1>4, TripleAnswer, AnswerMore, VerdictsAre

LEMMA AddressListAnswer ==
    ASSUME NEW m, Len(m) \in Nat, NEW i \in Indices(m)
    PROVE  Answer(AddressList(m, i), i, m, VerdictsOrNull(m))
<1> DEFINE p == [j \in Indices(m) |-> Address(m, j)]
<1>1. ASSUME NEW j \in Indices(m) PROVE Answer(Address(m, j), j, m, VerdictsOrNull(m))
  <2>1. Answer(Mailbox(m, j), j, m, VerdictsOrNull(m))
    BY MailboxAnswer, VerdictsAre, AnswerMore
  <2> QED
    BY <2>1, GroupAnswer, ElseAnswer DEF Address
<1>2. Values(p, m, VerdictsOrNull(m))
  BY <1>1, VerdictsAre DEF Values
<1> HIDE DEF p
<1>3. Answer(StructList(m, i, ",", p), i, m, VerdictsOrNull(m))
  BY <1>2, StructListAnswer
<1> QED
  BY <1>3 DEF AddressList, p

\* smtp_domain_literal_parse: the characters between the brackets move forward.
LEMMA DomainLiteralAnswer ==
    ASSUME NEW m, Len(m) \in Nat, NEW i \in Indices(m)
    PROVE  Answer(DomainLiteral(m, i), i, m, Verdicts(m))
<1> DEFINE white == Opt(Cfws(m, i), i)
           bracket == UnstrictChar(m, white.i, "[")
           open == AndThen(white, bracket)
           Inner(j) == LET w == Opt(Cfws(m, j), j) IN AndThen(w, Dcontent(m, w.i))
           p == [k \in Indices(m) |-> Inner(k)]
           many == Many(p, open.i)
           content == AndThen(open, many)
           blank == Opt(Fws(m, content.i), content.i)
           last == AndThen(content, blank)
           close == UnstrictChar(m, last.i, "]")
<1>1. Answer(open, i, m, Verdicts(m))
  <2>1. white.i \in Indices(m) => Answer(bracket, white.i, m, Verdicts(m))
    BY UnstrictCharAnswer
  <2>2. white = Opt(Cfws(m, i), i)
    OBVIOUS
  <2> HIDE DEF white, bracket
  <2> QED
    BY <2>1, <2>2, BehindCfws
<1>2. ASSUME NEW j \in Indices(m)
      PROVE  Answer(Inner(j), j, m, Verdicts(m)) /\ Advances(Inner(j), j)
  <2> DEFINE w == Opt(Cfws(m, j), j)
  <2>1. w.i \in Indices(m) => Answer(Dcontent(m, w.i), w.i, m, Verdicts(m)) /\ Advances(Dcontent(m, w.i), w.i)
    BY DcontentAnswer
  <2>2. w = Opt(Cfws(m, j), j) /\ (w.v = "ok" => w.i \in Indices(m))
    BY MayCfws
  <2>3. Inner(j) = AndThen(w, Dcontent(m, w.i))
    OBVIOUS
  <2> HIDE DEF w, Inner
  <2> QED
    BY <2>1, <2>2, <2>3, BehindCfws
<1>3. Parses(p, m, Verdicts(m))
  <2> HIDE DEF Inner
  <2> QED
    BY <1>2, VerdictsAre DEF Parses
<1>4. open.i \in Indices(m) => Answer(many, open.i, m, Verdicts(m))
  <2> HIDE DEF p, open
  <2> QED
    BY <1>3, ManyAnswer
<1>5. Answer(content, i, m, Verdicts(m))
  <2> HIDE DEF open, many
  <2> QED
    BY <1>1, <1>4, PairAnswer
<1>6. content.i \in Indices(m) => Answer(blank, content.i, m, Verdicts(m))
  <2> HIDE DEF content
  <2> QED
    BY FwsAnswer, OptAnswer, VerdictsAre
<1>7. Answer(last, i, m, Verdicts(m))
  <2> HIDE DEF content, blank
  <2> QED
    BY <1>5, <1>6, PairAnswer
<1>8. last.i \in Indices(m) => Answer(close, last.i, m, Verdicts(m))
  BY UnstrictCharAnswer
<1>9. DomainLiteral(m, i) = AndThen(last, close)
  BY DEF DomainLiteral, AndThen, Then
<1> HIDE DEF last, close
<1> QED
  BY <1>7, <1>8, <1>9, PairAnswer

LEMMA WspMailboxAnswer ==
    ASSUME NEW m, Len(m) \in Nat, NEW i \in Indices(m)
    PROVE  Answer(WspMailbox(m, i), i, m, Verdicts(m))
<1>1. ASSUME NEW j \in Indices(m) PROVE Answer(WspAngleAddr(m, j), j, m, Verdicts(m))
  <2> DEFINE lower == WspUnstrictChar(m, j, "<")
             addr == WspAddrSpec(m, lower.i)
             greater == WspUnstrictChar(m, addr.i, ">")
  <2>1. Answer(lower, j, m, Verdicts(m))
    BY WspUnstrictCharAnswer
  <2>2. lower.i \in Indices(m) => Answer(addr, lower.i, m, Verdicts(m))
    BY WspAddrSpecAnswer
  <2>3. addr.i \in Indices(m) => Answer(greater, addr.i, m, Verdicts(m))
    BY WspUnstrictCharAnswer
  <2>4. WspAngleAddr(m, j) = Angle(lower, addr, greater)
    BY DEF WspAngleAddr
  <2> HIDE DEF lower, addr, greater
  <2> QED
    BY <2>1, <2>2, <2>3, <2>4, AngleAnswer
<1> DEFINE name == Opt(WspPhrase(m, i), i)
<1>2. Answer(name, i, m, Verdicts(m))
  BY PhraseAnswers, OptAnswer, VerdictsAre
<1>3. WspNameAddr(m, i) = AndThen(name, WspAngleAddr(m, name.i))
  BY DEF WspNameAddr, Then, AndThen
<1> HIDE DEF name
<1>4. Answer(WspNameAddr(m, i), i, m, Verdicts(m))
  BY <1>1, <1>2, <1>3, PairAnswer
<1> QED
  BY <1>4, WspAddrSpecAnswer, ElseAnswer DEF WspMailbox

LEMMA WspMailboxListAnswer ==
    ASSUME NEW m, Len(m) \in Nat, NEW i \in Indices(m)
    PROVE  Answer(WspMailboxList(m, i), i, m, Verdicts(m))
<1> DEFINE p == [j \in Indices(m) |-> WspMailbox(m, j)]
<1>1. Values(p, m, Verdicts(m))
  BY WspMailboxAnswer, VerdictsAre DEF Values
<1> HIDE DEF p
<1>2. Answer(StructList(m, i, ",", p), i, m, Verdicts(m))
  BY <1>1, StructListAnswer
<1> QED
  BY <1>2 DEF WspMailboxList, p

LEMMA AdlPathAnswer ==
    ASSUME NEW m, Len(m) \in Nat, NEW i \in Indices(m)
    PROVE  Answer(AdlPath(m, i), i, m, Verdicts(m))
<1> DEFINE lower == WspUnstrictChar(m, i, "<")
           route == WspUnstrictChar(m, lower.i, "@")
           colons == {j \in route.i..(Len(m) - 1) : Ch(m, j) = ":"}
           first == CHOOSE j \in colons : \A k \in colons : j <= k
           start == IF route.v # "ok" THEN lower.i ELSE 1 + first
           list == WspMailboxList(m, start)
           greater == WspUnstrictChar(m, list.i, ">")
           lost == lower.v # "ok" \/ (route.v = "ok" /\ colons = {})
<1>1. Answer(lower, i, m, Verdicts(m))
  BY WspUnstrictCharAnswer
<1>2. lower.v = "ok" => lower.i \in Indices(m) /\ i <= lower.i
  BY <1>1 DEF Answer, Indices
<1>3. lower.v = "ok" => Answer(route, lower.i, m, Verdicts(m))
  BY <1>2, WspUnstrictCharAnswer
<1>4. lower.v = "ok" /\ route.v = "ok" => route.i \in Indices(m) /\ lower.i <= route.i
  BY <1>3 DEF Answer, Indices
<1>5. ~lost => start \in Indices(m) /\ i <= start
  <2> HIDE DEF lower, route
  <2>1. CASE lower.v = "ok" /\ route.v # "ok"
    <3>1. start = lower.i
      BY <2>1
    <3> QED
      BY <1>2, <2>1, <3>1
  <2>2. CASE lower.v = "ok" /\ route.v = "ok" /\ colons # {}
    <3>1. colons \subseteq Nat /\ colons \subseteq route.i..(Len(m) - 1)
      BY <1>4, <2>2 DEF Indices
    <3>2. \E j \in colons : \A k \in colons : j <= k
      <4> HIDE DEF colons
      <4> QED
        BY <2>2, <3>1, LeastOf
    <3>3. first \in colons
      <4> HIDE DEF colons
      <4> QED
        BY <3>2
    <3>4. first \in route.i..(Len(m) - 1)
      BY <3>1, <3>3
    <3>5. start = 1 + first
      BY <2>2
    <3> HIDE DEF first, start, colons
    <3> QED
      BY <1>2, <1>4, <2>2, <3>4, <3>5 DEF Indices
  <2> QED
    BY <2>1, <2>2
<1>6. ~lost => Answer(list, i, m, Verdicts(m))
  <2> SUFFICES ASSUME ~lost PROVE Answer(list, i, m, Verdicts(m))
    OBVIOUS
  <2> HIDE DEF start, lost
  <2>1. Answer(list, start, m, Verdicts(m))
    BY <1>5, WspMailboxListAnswer
  <2> HIDE DEF list
  <2> QED
    BY <1>5, <2>1, AnswerLater
<1>7. ~lost /\ list.v = "ok" => Answer(With(greater, list.val[1]), i, m, Verdicts(m))
                                /\ With(greater, list.val[1]).v = greater.v
  <2> SUFFICES ASSUME ~lost, list.v = "ok"
               PROVE  Answer(With(greater, list.val[1]), i, m, Verdicts(m))
                      /\ With(greater, list.val[1]).v = greater.v
    OBVIOUS
  <2> HIDE DEF lost, list
  <2>1. list.i \in Indices(m) /\ i <= list.i
    BY <1>6 DEF Answer, Indices
  <2>2. Answer(greater, list.i, m, Verdicts(m))
    BY <2>1, WspUnstrictCharAnswer
  <2> HIDE DEF greater
  <2>3. Answer(greater, i, m, Verdicts(m))
    BY <2>1, <2>2, AnswerLater
  <2> QED
    BY <2>3, WithAnswer
<1>8. greater.v = "ok" => With(greater, list.val[1]) = Got(greater.i, list.val[1])
  BY DEF With
<1>9. AdlPath(m, i) = IF lost THEN Fail
                      ELSE IF list.v # "ok" THEN list
                      ELSE IF greater.v # "ok" \/ Len(list.val) # 1 THEN Fail
                      ELSE Got(greater.i, list.val[1])
  BY DEF AdlPath
<1> HIDE DEF lost, list, greater
<1> QED
  BY <1>6, <1>7, <1>8, <1>9, Refusals

LEMMA MailFromAnswer ==
    ASSUME NEW m, Len(m) \in Nat
    PROVE  Answer(MailFrom(m), 0, m, Verdicts(m))
<1> DEFINE blank == Opt(WspChar(m, 0), 0)
           path == Path(m, 0)
           stops == {Ch(m, j) : j \in 0..(Len(m) - 1)} \ {" "}
           e == Span(m, path.i, stops)
<1>1. 0 \in Indices(m)
  BY DEF Indices
<1>2. Answer(path, 0, m, Verdicts(m))
  <2>1. Answer(blank, 0, m, Verdicts(m))
    BY <1>1, WspCharAnswer, OptAnswer, VerdictsAre
  <2>2. blank.i \in Indices(m) => Answer(AdlPath(m, blank.i), blank.i, m, Verdicts(m))
    BY AdlPathAnswer
  <2>3. path = AndThen(blank, AdlPath(m, blank.i))
    BY DEF Path, AndThen, Then
  <2> HIDE DEF blank, path
  <2> QED
    BY <1>1, <2>1, <2>2, <2>3, PairAnswer
<1>3. path.v = "ok" => e \in Indices(m)
  <2> SUFFICES ASSUME path.v = "ok" PROVE e \in Indices(m)
    OBVIOUS
  <2>1. path.i \in Indices(m)
    BY <1>2 DEF Answer, Indices
  <2> HIDE DEF path, stops
  <2> QED
    BY <2>1, SpanEnds DEF Indices
<1>4. path.v = "ok" /\ e + 2 <= Len(m) => Answer(Got(e + 2, path.val), 0, m, Verdicts(m))
  <2> HIDE DEF path, e
  <2>1. path.v = "ok" /\ e + 2 <= Len(m) => e + 2 \in Indices(m) /\ e + 2 >= 0
    BY <1>3 DEF Indices
  <2> QED
    BY <2>1, ConstantAnswers, VerdictsAre
<1>5. MailFrom(m) = IF path.v # "ok" THEN path
                    ELSE IF e + 2 <= Len(m) /\ Part(m, e, e + 2) = "\r\n"
                         THEN Got(e + 2, path.val) ELSE Fail
  BY DEF MailFrom
<1> HIDE DEF path, e
<1> QED
  BY <1>2, <1>4, <1>5, Refusals

LEMMA ReturnPathAnswer ==
    ASSUME NEW m, Len(m) \in Nat, NEW i \in Indices(m)
    PROVE  Answer(ReturnPath(m, i), i, m, Verdicts(m))
<1> DEFINE white == Opt(Cfws(m, i), i)
           char == UnstrictChar(m, white.i, "<")
           lower == AndThen(white, char)
           addr == AddrSpec(m, lower.i)
           inner == Else(addr, Opt(Cfws(m, lower.i), lower.i))
           greater == UnstrictChar(m, inner.i, ">")
<1>1. Answer(lower, i, m, Verdicts(m))
  <2>1. white.i \in Indices(m) => Answer(char, white.i, m, Verdicts(m))
    BY UnstrictCharAnswer
  <2>2. white = Opt(Cfws(m, i), i)
    OBVIOUS
  <2> HIDE DEF white, char
  <2> QED
    BY <2>1, <2>2, BehindCfws
<1>2. lower.i \in Indices(m) => Answer(inner, lower.i, m, Verdicts(m))
  <2> HIDE DEF lower
  <2> QED
    BY AddrSpecAnswer, MayCfws, ElseAnswer
<1>3. inner.i \in Indices(m) => Answer(With(greater, addr.val), inner.i, m, Verdicts(m))
  <2> HIDE DEF inner, addr
  <2> QED
    BY UnstrictCharAnswer, WithAnswer
<1>4. ReturnPath(m, i) = AndThen(lower, AndThen(inner, With(greater, addr.val)))
  BY DEF ReturnPath, AndThen, Then
<1> HIDE DEF lower, inner, greater, addr
<1> QED
  BY <1>1, <1>2, <1>3, <1>4, TripleAnswer

LEMMA MarkAnswer ==
    ASSUME NEW m, Len(m) \in Nat, NEW i \in Indices(m), NEW r, Answer(r, i, m, Verdicts(m)), NEW c
    PROVE  Answer(Mark(m, r, c), i, m, Verdicts(m))
<1> DEFINE mark == Opt(UnstrictChar(m, r.i, c), r.i)
<1>1. r.i \in Indices(m) => Answer(mark, r.i, m, Verdicts(m))
  BY UnstrictCharAnswer, OptAnswer, VerdictsAre
<1>2. Mark(m, r, c) = AndThen(r, mark)
  BY DEF Mark, Then, AndThen
<1> HIDE DEF mark
<1> QED
  BY <1>1, <1>2, PairAnswer

LEMMA WordOrMarksAnswer ==
    ASSUME NEW m, Len(m) \in Nat, NEW j \in Indices(m)
    PROVE  Answer(WordOrMarks(m, j), j, m, Verdicts(m)) /\ Advances(WordOrMarks(m, j), j)
<1> DEFINE word == Opt(Word(m, j), j)
           some == Mark(m, Mark(m, Mark(m, word, ";"), ","), "+")
           all == Mark(m, Mark(m, Mark(m, some, ":"), "."), "@")
<1>1. Answer(word, j, m, Verdicts(m))
  BY WordAnswers, OptAnswer, VerdictsAre
<1>2. Answer(some, j, m, Verdicts(m))
  <2> HIDE DEF word
  <2> QED
    BY <1>1, MarkAnswer
<1>3. Answer(all, j, m, Verdicts(m))
  <2> HIDE DEF some
  <2> QED
    BY <1>2, MarkAnswer
<1>4. WordOrMarks(m, j) = IF all.v = "ok" /\ all.i = j THEN Fail ELSE all
  BY DEF WordOrMarks
<1> HIDE DEF all
<1>5. all.v = "ok" /\ all.i # j => Advances(all, j)
  BY <1>3 DEF Answer, Advances, Indices
<1> QED
  BY <1>3, <1>4, <1>5, Refusals DEF Advances

LEMMA UnwantedAnswer ==
    ASSUME NEW m, Len(m) \in Nat, NEW i \in Indices(m)
    PROVE  Answer(Unwanted(m, i), i, m, Verdicts(m))
<1> DEFINE p == [j \in Indices(m) |-> WordOrMarks(m, j)]
<1>1. Parses(p, m, Verdicts(m))
  BY WordOrMarksAnswer, VerdictsAre DEF Parses
<1>2. Unwanted(m, i) = AndThen(Many(p, i), Ok(i))
  BY DEF Unwanted
<1> HIDE DEF p
<1>3. Answer(Many(p, i), i, m, Verdicts(m))
  BY <1>1, ManyAnswer
<1>4. Answer(Ok(i), i, m, Verdicts(m))
  BY StandsStill, VerdictsAre
<1> QED
  BY <1>2, <1>3, <1>4 DEF AndThen

LEMMA UnstrictMsgIdAnswer ==
    ASSUME NEW m, Len(m) \in Nat, NEW i \in Indices(m)
    PROVE  Answer(UnstrictMsgId(m, i), i, m, Verdicts(m)) /\ Advances(UnstrictMsgId(m, i), i)
<1> DEFINE white == Opt(Cfws(m, i), i)
           before == AndThen(white, Unwanted(m, white.i))
           id == MsgId(m, before.i)
           last == With(Unwanted(m, id.i), id.val)
           rest == AndThen(id, last)
<1>1. Answer(before, i, m, Verdicts(m))
  <2>1. white.i \in Indices(m) => Answer(Unwanted(m, white.i), white.i, m, Verdicts(m))
    BY UnwantedAnswer
  <2>2. white = Opt(Cfws(m, i), i)
    OBVIOUS
  <2> HIDE DEF white
  <2> QED
    BY <2>1, <2>2, BehindCfws
<1>2. before.i \in Indices(m) => Answer(rest, before.i, m, Verdicts(m)) /\ Advances(rest, before.i)
  <2> SUFFICES ASSUME before.i \in Indices(m)
               PROVE  Answer(rest, before.i, m, Verdicts(m)) /\ Advances(rest, before.i)
    OBVIOUS
  <2> HIDE DEF before
  <2>1. Answer(id, before.i, m, Verdicts(m)) /\ Advances(id, before.i)
    BY AngleAddrAnswer
  <2> HIDE DEF id
  <2>2. id.i \in Indices(m) => Answer(last, id.i, m, Verdicts(m))
    BY UnwantedAnswer, WithAnswer
  <2> HIDE DEF last
  <2> QED
    BY <2>1, <2>2, PairAnswer
<1>3. before.v = "ok" => before.i \in Indices(m)
  BY <1>1 DEF Answer, Indices
<1>4. UnstrictMsgId(m, i) = AndThen(before, rest)
  BY DEF UnstrictMsgId, Then, AndThen
<1> HIDE DEF before, rest
<1> QED
  BY <1>1, <1>2, <1>3, <1>4, PairAnswer

LEMMA MsgIdListAnswer ==
    ASSUME NEW m, Len(m) \in Nat, NEW i \in Indices(m)
    PROVE  Answer(MsgIdList(m, i), i, m, Verdicts(m))
<1> DEFINE p == [j \in Indices(m) |-> UnstrictMsgId(m, j)]
<1>1. Parses(p, m, Verdicts(m))
  BY UnstrictMsgIdAnswer, VerdictsAre DEF Parses
<1>2. MsgIdList(m, i) = StructMultiple(p, i)
  BY DEF MsgIdList
<1> HIDE DEF p
<1> QED
  BY <1>1, <1>2, StructMultipleAnswer

\* The fields that hold addresses, identifiers or unstructured text.
LEMMA AddressFieldsAnswer ==
    ASSUME NEW m, Len(m) \in Nat
    PROVE  /\ \A r \in {From(m), Sender(m), ResentFrom(m), ResentMsgId(m), MessageId(m),
                        References(m), InReplyTo(m), Keywords(m), Return(m), Subject(m),
                        Comments(m), Received(m)} : Answer(r, 0, m, Verdicts(m))
           /\ \A r \in {To(m), ReplyTo(m), Cc(m), ResentTo(m), ResentCc(m), Bcc(m)} :
                 Answer(r, 0, m, VerdictsOrNull(m))
           /\ Answer(ResentSender(m), 0, m, Verdicts(m))
<1>1. 0 \in Indices(m) /\ Len(m) \in Indices(m) /\ 0 <= Len(m)
  BY DEF Indices
<1>2. Verdicts(m) \subseteq VerdictsOrNull(m) /\ Verdicts(m) \subseteq Verdicts(m)
  BY VerdictsAre
<1> DEFINE p == [j \in Indices(m) |-> Phrase(m, j)]
<1>3. Values(p, m, Verdicts(m))
  BY PhraseAnswers, VerdictsAre DEF Values
<1>4. Answer(StructList(m, 0, ",", p), 0, m, Verdicts(m))
  <2> HIDE DEF p
  <2> QED
    BY <1>1, <1>3, StructListAnswer
<1>5. /\ Answer(From(m), 0, m, Verdicts(m)) /\ Answer(ResentFrom(m), 0, m, Verdicts(m))
      /\ Answer(Sender(m), 0, m, Verdicts(m))
  BY <1>1, <1>2, MailboxListAnswer, MailboxAnswer, LineAnswer DEF From, ResentFrom, Sender
<1>6. /\ Answer(ResentMsgId(m), 0, m, Verdicts(m)) /\ Answer(MessageId(m), 0, m, Verdicts(m))
      /\ Answer(References(m), 0, m, Verdicts(m)) /\ Answer(InReplyTo(m), 0, m, Verdicts(m))
  BY <1>1, <1>2, AngleAddrAnswer, MsgIdListAnswer, LineAnswer DEF ResentMsgId, MessageId, References, InReplyTo
<1>7. /\ Answer(Keywords(m), 0, m, Verdicts(m)) /\ Answer(Return(m), 0, m, Verdicts(m))
  BY <1>1, <1>2, <1>4, ReturnPathAnswer, LineAnswer DEF Keywords, Return
<1>8. /\ Answer(Subject(m), 0, m, Verdicts(m)) /\ Answer(Comments(m), 0, m, Verdicts(m))
      /\ Answer(Received(m), 0, m, Verdicts(m))
  BY <1>1, <1>2, UnstructuredAnswer, LineAnswer DEF Subject, Comments, Received
<1>9. /\ Answer(To(m), 0, m, VerdictsOrNull(m)) /\ Answer(ReplyTo(m), 0, m, VerdictsOrNull(m))
      /\ Answer(Cc(m), 0, m, VerdictsOrNull(m)) /\ Answer(ResentTo(m), 0, m, VerdictsOrNull(m))
      /\ Answer(ResentCc(m), 0, m, VerdictsOrNull(m))
  BY <1>1, <1>2, AddressListAnswer, LineAnswer DEF To, ReplyTo, Cc, ResentTo, ResentCc
<1>10. Answer(Bcc(m), 0, m, VerdictsOrNull(m))
  <2>1. Answer(Opt(Cfws(m, 0), 0), 0, m, VerdictsOrNull(m))
    BY <1>1, <1>2, MayCfws, AnswerMore
  <2>2. Answer(Else(AddressList(m, 0), Opt(Cfws(m, 0), 0)), 0, m, VerdictsOrNull(m))
    BY <1>1, <2>1, AddressListAnswer, ElseAnswer
  <2>3. Answer(Line(m, Else(AddressList(m, 0), Opt(Cfws(m, 0), 0))), 0, m, VerdictsOrNull(m))
    BY <1>2, <2>2, LineAnswer
  <2>4. Answer(Null, 0, m, VerdictsOrNull(m))
    BY ConstantAnswers, VerdictsAre
  <2> QED
    BY <2>3, <2>4 DEF Bcc
<1>11. Answer(ResentSender(m), 0, m, Verdicts(m))
  <2>1. Answer(Mailbox(m, Len(m)), Len(m), m, Verdicts(m))
    BY <1>1, MailboxAnswer
  <2>2. Answer(Mailbox(m, Len(m)), 0, m, Verdicts(m))
    BY <1>1, <2>1, AnswerLater
  <2> QED
    BY <1>2, <2>2, LineAnswer DEF ResentSender
<1> QED
  BY <1>5, <1>6, <1>7, <1>8, <1>9, <1>10, <1>11

-----------------------------------------------------------------------------
(***************************************************************************)
(* Keywords, parameters and the MIME fields.                               *)
(***************************************************************************)
LEMMA QuadrupleAnswer ==
    ASSUME NEW m, Len(m) \in Nat, NEW V, NEW i \in Indices(m), NEW a, Answer(a, i, m, V), NEW b,
           a.v = "ok" /\ a.i \in Indices(m) => Answer(b, a.i, m, V), NEW c,
           a.v = "ok" /\ b.v = "ok" /\ b.i \in Indices(m) => Answer(c, b.i, m, V), NEW d,
           a.v = "ok" /\ b.v = "ok" /\ c.v = "ok" /\ c.i \in Indices(m) => Answer(d, c.i, m, V)
    PROVE  Answer(AndThen(a, AndThen(b, AndThen(c, d))), i, m, V)
<1>1. a.v = "ok" /\ a.i \in Indices(m) => Answer(AndThen(b, AndThen(c, d)), a.i, m, V)
  BY TripleAnswer
<1> QED
  BY <1>1, PairAnswer

LEMMA KeywordAnswer ==
    ASSUME NEW m, Len(m) \in Nat, NEW i \in Indices(m), NEW word, Len(word) \in Nat
    PROVE  Answer(Keyword(m, i, word), i, m, Verdicts(m))
<1> DEFINE n == Len(word)
<1>1. i + n > Len(m) \/ (i + n \in Indices(m) /\ i + n >= i)
  BY DEF Indices
<1>2. i + n \in Indices(m) /\ i + n >= i => Answer(Ok(i + n), i, m, Verdicts(m))
  BY ConstantAnswers, VerdictsAre
<1>3. Keyword(m, i, word) = IF i + n > Len(m) THEN More
                            ELSE IF Part(m, i, i + n) = word THEN Ok(i + n) ELSE Fail
  BY DEF Keyword
<1> HIDE DEF n
<1> QED
  BY <1>1, <1>2, <1>3, Refusals

\* A list of keywords.
Keys(words) == DOMAIN words \subseteq Nat /\ \A n \in DOMAIN words : Len(words[n]) \in Nat

LEMMA FirstKeywordAnswer ==
    ASSUME NEW m, Len(m) \in Nat, NEW i \in Indices(m), NEW words, Keys(words)
    PROVE  Answer(FirstKeyword(m, i, words), i, m, Verdicts(m))
<1> DEFINE tried == {n \in DOMAIN words : Keyword(m, i, words[n]).v # "parse"}
           first == CHOOSE n \in tried : \A k \in tried : n <= k
<1>1. CASE tried = {}
  <2>1. FirstKeyword(m, i, words) = Fail
    BY <1>1 DEF FirstKeyword
  <2> QED
    BY <2>1, Refusals
<1>2. CASE tried # {}
  <2>1. tried \subseteq Nat
    BY DEF Keys
  <2>2. first \in tried
    <3> HIDE DEF tried
    <3>1. \E n \in tried : \A k \in tried : n <= k
      BY <1>2, <2>1, LeastOf
    <3> QED
      BY <3>1
  <2>3. FirstKeyword(m, i, words) = With(Keyword(m, i, words[first]), <<words[first]>>)
    BY <1>2 DEF FirstKeyword
  <2>4. first \in DOMAIN words
    BY <2>2
  <2> HIDE DEF first
  <2>5. Answer(Keyword(m, i, words[first]), i, m, Verdicts(m))
    BY <2>4, KeywordAnswer DEF Keys
  <2> QED
    BY <2>3, <2>5, WithAnswer
<1> QED
  BY <1>1, <1>2

LEMMA KeysOfCode ==
    /\ Keys(Composite) /\ Keys(Discrete) /\ Keys(Dispositions) /\ Keys(Mechanisms)
    /\ Keys(Days) /\ Keys(Months)
<1>1. /\ DOMAIN Composite \subseteq Nat /\ DOMAIN Discrete \subseteq Nat /\ DOMAIN Dispositions \subseteq Nat
      /\ DOMAIN Mechanisms \subseteq Nat /\ DOMAIN Days \subseteq Nat /\ DOMAIN Months \subseteq Nat
  BY DEF Composite, Discrete, Dispositions, Mechanisms, Days, Months
<1> QED
  BY <1>1, KeywordsAssumption DEF Keys

LEMMA ParametersAnswer ==
    ASSUME NEW m, Len(m) \in Nat, NEW i \in Indices(m), NEW ends, NEW p, Values(p, m, Verdicts(m))
    PROVE  Answer(Parameters(m, i, ends, p), i, m, Verdicts(m))
<1> DEFINE items == Items(m, ";", p)
           turns == [j \in Indices(m) |-> IF UnstrictChar(m, j, ";").v \in ends THEN Ok(j)
                                          ELSE Turn(items[j], j, <<items[j].val>>)]
<1>1. Parses(items, m, Verdicts(m))
  BY ItemsParse
<1>2. Turns(turns, m, Verdicts(m))
  <2>1. DOMAIN turns = Indices(m)
    OBVIOUS
  <2>2. ASSUME NEW j \in Indices(m)
        PROVE  turns[j] = Ok(j) \/ turns[j] = Turn(items[j], j, <<items[j].val>>)
    OBVIOUS
  <2>3. ASSUME NEW j \in Indices(m) PROVE Ok(j).v # "again" /\ Answer(Ok(j), j, m, Verdicts(m))
    BY StandsStill, VerdictsAre, Constants
  <2> HIDE DEF turns, items
  <2> QED
    BY <1>1, <2>1, <2>2, <2>3, TurnAnswer DEF Turns
<1>3. Parameters(m, i, ends, p) = Loop(turns, i)
  <2>1. turns = [j \in Indices(m) |->
            LET semicolon == UnstrictChar(m, j, ";")
                r == AndThen(semicolon, p[semicolon.i])
            IN IF semicolon.v \in ends THEN Ok(j) ELSE Turn(r, j, <<r.val>>)]
    BY DEF Items
  <2> HIDE DEF turns
  <2> QED
    BY <2>1 DEF Parameters
<1> HIDE DEF turns
<1> QED
  BY <1>2, <1>3, LoopAnswer

LEMMA MimeTypeAnswer ==
    ASSUME NEW m, Len(m) \in Nat, NEW i \in Indices(m)
    PROVE  Answer(MimeType(m, i), i, m, Verdicts(m))
<1>1. Answer(CompositeType(m, i), i, m, Verdicts(m)) /\ Answer(FirstKeyword(m, i, Discrete), i, m, Verdicts(m))
  BY FirstKeywordAnswer, KeysOfCode DEF CompositeType
<1>2. Answer(With(Token(m, i), <<"extension">>), i, m, Verdicts(m))
  BY TokenAnswer, WithAnswer
<1> QED
  BY <1>1, <1>2, ElseAnswer DEF MimeType, DiscreteType

LEMMA SubtypeAnswer ==
    ASSUME NEW m, Len(m) \in Nat, NEW i \in Indices(m)
    PROVE  Answer(Subtype(m, i), i, m, Verdicts(m))
<1> DEFINE slash == UnstrictChar(m, i, "/")
           white == Opt(Cfws(m, slash.i), slash.i)
           after == AndThen(slash, white)
           token == Token(m, after.i)
<1>1. Answer(after, i, m, Verdicts(m))
  <2>1. Answer(slash, i, m, Verdicts(m))
    BY UnstrictCharAnswer
  <2>2. slash.i \in Indices(m) => Answer(white, slash.i, m, Verdicts(m))
    BY MayCfws
  <2> HIDE DEF slash, white
  <2> QED
    BY <2>1, <2>2, PairAnswer
<1>2. after.i \in Indices(m) => Answer(token, after.i, m, Verdicts(m))
  BY TokenAnswer
<1>3. Answer(Got(i, <<"unknown">>), i, m, Verdicts(m))
  <2>1. i >= i
    BY DEF Indices
  <2> QED
    BY <2>1, ConstantAnswers, VerdictsAre
<1>4. Subtype(m, i) = IF slash.v = "parse" THEN Got(i, <<"unknown">>) ELSE AndThen(after, token)
  BY DEF Subtype, AndThen, Then
<1> HIDE DEF slash, after, token
<1> QED
  BY <1>1, <1>2, <1>3, <1>4, PairAnswer

LEMMA ContentParametersAnswer ==
    ASSUME NEW m, Len(m) \in Nat, NEW i \in Indices(m)
    PROVE  Answer(ContentParameters(m, i), i, m, Verdicts(m))
<1> DEFINE p == [j \in Indices(m) |-> Then(Opt(Cfws(m, j), j), LAMBDA k : MimeParameter(m, k))]
<1>1. ASSUME NEW j \in Indices(m) PROVE Answer(p[j], j, m, Verdicts(m))
  <2> DEFINE white == Opt(Cfws(m, j), j)
  <2>1. white.i \in Indices(m) => Answer(MimeParameter(m, white.i), white.i, m, Verdicts(m))
    BY MimeParameterAnswer
  <2>2. p[j] = AndThen(white, MimeParameter(m, white.i))
    BY DEF Then, AndThen
  <2>3. white = Opt(Cfws(m, j), j)
    OBVIOUS
  <2> HIDE DEF white, p
  <2> QED
    BY <2>1, <2>2, <2>3, BehindCfws
<1>2. Values(p, m, Verdicts(m))
  <2>1. DOMAIN p = Indices(m)
    OBVIOUS
  <2> HIDE DEF p
  <2> QED
    BY <1>1, <2>1, VerdictsAre DEF Values
<1>3. ContentParameters(m, i) = Parameters(m, i, {"parse", "cont"}, p)
  BY DEF ContentParameters
<1> HIDE DEF p
<1> QED
  BY <1>2, <1>3, ParametersAnswer

LEMMA ContentTypeAnswer ==
    ASSUME NEW m, Len(m) \in Nat
    PROVE  Answer(ContentType(m), 0, m, Verdicts(m))
<1> DEFINE white == Cfws(m, 0)
           start == IF white.v = "ok" THEN white.i ELSE 0
           type == IF white.v = "spin" THEN white ELSE MimeType(m, start)
           subtype == Subtype(m, type.i)
           parms == ContentParameters(m, subtype.i)
           ending == UnstrictCrLf(m, parms.i)
           boundary == BoundaryOf(parms.val)
           body == BodyType(type.val[1], subtype.val[1], boundary)
           last == IF TooLong(type.val[1], boundary) THEN AndThen(ending, Fail) ELSE With(ending, body)
<1>1. 0 \in Indices(m)
  BY DEF Indices
<1>2. Answer(type, 0, m, Verdicts(m))
  <2>1. Answer(white, 0, m, Verdicts(m))
    BY <1>1, CfwsAnswer
  <2>2. start \in Indices(m) /\ 0 <= start
    BY <2>1 DEF Answer, Indices
  <2> HIDE DEF white, start
  <2>3. Answer(MimeType(m, start), 0, m, Verdicts(m))
    BY <1>1, <2>2, MimeTypeAnswer, AnswerLater
  <2> QED
    BY <2>1, <2>3
<1>3. type.i \in Indices(m) => Answer(subtype, type.i, m, Verdicts(m))
  <2> HIDE DEF type
  <2> QED
    BY SubtypeAnswer
<1>4. subtype.i \in Indices(m) => Answer(parms, subtype.i, m, Verdicts(m))
  <2> HIDE DEF subtype
  <2> QED
    BY ContentParametersAnswer
<1>5. parms.i \in Indices(m) => Answer(last, parms.i, m, Verdicts(m))
  <2> SUFFICES ASSUME parms.i \in Indices(m) PROVE Answer(last, parms.i, m, Verdicts(m))
    OBVIOUS
  <2>1. Answer(ending, parms.i, m, Verdicts(m))
    BY UnstrictCrLfAnswer
  <2> HIDE DEF parms, body, boundary, type, ending
  <2>2. Answer(With(ending, body), parms.i, m, Verdicts(m))
    BY <2>1, WithAnswer
  <2>3. Answer(AndThen(ending, Fail), parms.i, m, Verdicts(m))
    BY <2>1, Refusals, PairAnswer
  <2> QED
    BY <2>2, <2>3
<1>6. ContentType(m) = AndThen(type, AndThen(subtype, AndThen(parms, last)))
  BY DEF ContentType
<1> HIDE DEF type, subtype, parms, last
<1> QED
  BY <1>1, <1>2, <1>3, <1>4, <1>5, <1>6, QuadrupleAnswer

LEMMA DispositionTypeAnswer ==
    ASSUME NEW m, Len(m) \in Nat, NEW i \in Indices(m)
    PROVE  Answer(DispositionType(m, i), i, m, Verdicts(m))
<1> DEFINE white == Opt(Cfws(m, i), i)
           type == Else(FirstKeyword(m, white.i, Dispositions), With(Token(m, white.i), <<"extension">>))
<1>1. white.i \in Indices(m) => Answer(type, white.i, m, Verdicts(m))
  <2> HIDE DEF white
  <2> QED
    BY FirstKeywordAnswer, KeysOfCode, TokenAnswer, WithAnswer, ElseAnswer
<1>2. DispositionType(m, i) = AndThen(white, type)
  BY DEF DispositionType, Then, AndThen
<1>3. white = Opt(Cfws(m, i), i)
  OBVIOUS
<1> HIDE DEF white, type
<1> QED
  BY <1>1, <1>2, <1>3, BehindCfws

LEMMA KnownAnswer ==
    ASSUME NEW m, Len(m) \in Nat, NEW i \in Indices(m), NEW word, Len(word) \in Nat, NEW values,
           \A j \in Indices(m) : Answer(values[j], j, m, Verdicts(m))
    PROVE  Answer(Known(m, i, word, values), i, m, Verdicts(m))
<1> DEFINE key == Keyword(m, i, word)
           sign == UnstrictChar(m, key.i, "=")
           equals == AndThen(key, sign)
           last == With(values[equals.i], <<word>>)
<1>1. Answer(equals, i, m, Verdicts(m))
  <2>1. Answer(key, i, m, Verdicts(m))
    BY KeywordAnswer
  <2>2. key.i \in Indices(m) => Answer(sign, key.i, m, Verdicts(m))
    BY UnstrictCharAnswer
  <2> HIDE DEF key, sign
  <2> QED
    BY <2>1, <2>2, PairAnswer
<1>2. equals.i \in Indices(m) => Answer(last, equals.i, m, Verdicts(m))
  BY WithAnswer
<1>3. Known(m, i, word, values) = AndThen(equals, last)
  BY DEF Known, AndThen, Then
<1> HIDE DEF equals, last
<1> QED
  BY <1>1, <1>2, <1>3, PairAnswer

LEMMA GuessedAnswer ==
    ASSUME NEW m, Len(m) \in Nat, NEW i \in Indices(m)
    PROVE  Answer(Guessed(m, i), i, m, Verdicts(m))
<1> DEFINE value == [j \in Indices(m) |-> MimeValue(m, j)]
           string == [j \in Indices(m) |-> QuotedString(m, j)]
           number == [j \in Indices(m) |-> Number(m, j)]
<1>1. \A j \in Indices(m) : /\ Answer(value[j], j, m, Verdicts(m))
                            /\ Answer(string[j], j, m, Verdicts(m))
                            /\ Answer(number[j], j, m, Verdicts(m))
  BY MimeValueAnswer, WordAnswers, NumberAnswer
<1>2. \/ Guessed(m, i) = Fail
      \/ Guessed(m, i) = Known(m, i, "filename", value)
      \/ Guessed(m, i) = Known(m, i, "creation-date", string)
      \/ Guessed(m, i) = Known(m, i, "modification-date", string)
      \/ Guessed(m, i) = Known(m, i, "read-date", string)
      \/ Guessed(m, i) = Known(m, i, "size", number)
  BY DEF Guessed
<1> HIDE DEF value, string, number
<1> QED
  BY <1>1, <1>2, KnownAnswer, KeywordsAssumption, Refusals

LEMMA DispositionParmAnswer ==
    ASSUME NEW m, Len(m) \in Nat, NEW i \in Indices(m)
    PROVE  Answer(DispositionParm(m, i), i, m, Verdicts(m))
<1> DEFINE white == Opt(Cfws(m, i), i)
           parm == Else(Guessed(m, white.i), With(MimeParameter(m, white.i), <<"parameter">>))
<1>1. white.i \in Indices(m) => Answer(parm, white.i, m, Verdicts(m))
  <2> HIDE DEF white
  <2> QED
    BY GuessedAnswer, MimeParameterAnswer, WithAnswer, ElseAnswer
<1>2. DispositionParm(m, i) = AndThen(white, parm)
  BY DEF DispositionParm, Then, AndThen
<1>3. white = Opt(Cfws(m, i), i)
  OBVIOUS
<1> HIDE DEF white, parm
<1> QED
  BY <1>1, <1>2, <1>3, BehindCfws

LEMMA DispositionAnswer ==
    ASSUME NEW m, Len(m) \in Nat
    PROVE  Answer(Disposition(m), 0, m, Verdicts(m))
<1> DEFINE p == [j \in Indices(m) |-> DispositionParm(m, j)]
           type == DispositionType(m, 0)
           parms == Parameters(m, type.i, {"parse"}, p)
           named == With(parms, type.val \o FlattenSeq(parms.val))
           ending == With(UnstrictCrLf(m, named.i), named.val)
<1>1. 0 \in Indices(m)
  BY DEF Indices
<1>2. Answer(type, 0, m, Verdicts(m))
  BY <1>1, DispositionTypeAnswer
<1>3. Values(p, m, Verdicts(m))
  BY DispositionParmAnswer, VerdictsAre DEF Values
<1>4. type.i \in Indices(m) => Answer(named, type.i, m, Verdicts(m))
  <2> HIDE DEF type, p
  <2> QED
    BY <1>3, ParametersAnswer, WithAnswer
<1>5. named.i \in Indices(m) => Answer(ending, named.i, m, Verdicts(m))
  <2> HIDE DEF named
  <2> QED
    BY UnstrictCrLfAnswer, WithAnswer
<1>6. Disposition(m) = AndThen(type, AndThen(named, ending))
  BY DEF Disposition, Line
<1> HIDE DEF type, named, ending
<1> QED
  BY <1>1, <1>2, <1>4, <1>5, <1>6, TripleAnswer

LEMMA EncodingAnswer ==
    ASSUME NEW m, Len(m) \in Nat
    PROVE  Answer(Encoding(m), 0, m, Verdicts(m))
<1> DEFINE blank == Opt(WspChar(m, 0), 0)
           mechanism == Else(FirstKeyword(m, blank.i, Mechanisms), Token(m, blank.i))
           ending == With(UnstrictCrLf(m, mechanism.i), mechanism.val)
<1>1. 0 \in Indices(m)
  BY DEF Indices
<1>2. Answer(blank, 0, m, Verdicts(m))
  BY <1>1, WspCharAnswer, OptAnswer, VerdictsAre
<1>3. blank.i \in Indices(m) => Answer(mechanism, blank.i, m, Verdicts(m))
  <2> HIDE DEF blank
  <2> QED
    BY FirstKeywordAnswer, KeysOfCode, TokenAnswer, ElseAnswer
<1>4. mechanism.i \in Indices(m) => Answer(ending, mechanism.i, m, Verdicts(m))
  <2> HIDE DEF mechanism
  <2> QED
    BY UnstrictCrLfAnswer, WithAnswer
<1>5. Encoding(m) = AndThen(blank, AndThen(mechanism, ending))
  BY DEF Encoding, Line, AndThen, Then
<1> HIDE DEF blank, mechanism, ending
<1> QED
  BY <1>1, <1>2, <1>3, <1>4, <1>5, TripleAnswer

LEMMA VersionAnswer ==
    ASSUME NEW m, Len(m) \in Nat
    PROVE  Answer(Version(m), 0, m, Verdicts(m))
<1> DEFINE blank == Opt(WspChar(m, 0), 0)
           high == AndThen(blank, Number(m, blank.i))
           char == UnstrictChar(m, high.i, ".")
           point == AndThen(char, Opt(Cfws(m, char.i), char.i))
           low == With(Number(m, point.i), high.val \o Number(m, point.i).val)
           ending == With(UnstrictCrLf(m, low.i), low.val)
<1>1. 0 \in Indices(m)
  BY DEF Indices
<1>2. Answer(high, 0, m, Verdicts(m))
  <2>1. Answer(blank, 0, m, Verdicts(m))
    BY <1>1, WspCharAnswer, OptAnswer, VerdictsAre
  <2> HIDE DEF blank
  <2> QED
    BY <1>1, <2>1, NumberAnswer, PairAnswer
<1>3. high.i \in Indices(m) => Answer(point, high.i, m, Verdicts(m))
  <2> SUFFICES ASSUME high.i \in Indices(m) PROVE Answer(point, high.i, m, Verdicts(m))
    OBVIOUS
  <2> HIDE DEF high
  <2>1. Answer(char, high.i, m, Verdicts(m))
    BY UnstrictCharAnswer
  <2> HIDE DEF char
  <2> QED
    BY <2>1, MayCfws, PairAnswer
<1>4. point.i \in Indices(m) => Answer(low, point.i, m, Verdicts(m))
  <2> HIDE DEF point, high
  <2> QED
    BY NumberAnswer, WithAnswer
<1>5. low.i \in Indices(m) => Answer(ending, low.i, m, Verdicts(m))
  <2> HIDE DEF low
  <2> QED
    BY UnstrictCrLfAnswer, WithAnswer
<1>6. Version(m) = AndThen(high, AndThen(point, AndThen(low, ending)))
  BY DEF Version, Line, AndThen, Then
<1> HIDE DEF high, point, low, ending
<1> QED
  BY <1>1, <1>2, <1>3, <1>4, <1>5, <1>6, QuadrupleAnswer

LEMMA LanguageAnswer ==
    ASSUME NEW m, Len(m) \in Nat
    PROVE  Answer(Language(m), 0, m, Verdicts(m))
<1> DEFINE comma(j) == UnstrictChar(m, j, ",")
           tag(j) == AndThen(comma(j), Atom(m, comma(j).i))
           turn(j) == CASE tag(j).v = "ok" -> Again(tag(j).i, <<>>)
                        [] tag(j).v = "parse" -> Ok(IF comma(j).v = "ok" THEN comma(j).i ELSE j)
                        [] OTHER -> tag(j)
           turns == [j \in Indices(m) |-> turn(j)]
<1>1. ASSUME NEW j \in Indices(m)
      PROVE  \/ turns[j].v = "again" /\ turns[j].i \in (j + 1)..Len(m)
             \/ turns[j].v # "again" /\ Answer(turns[j], j, m, Verdicts(m))
  <2> DEFINE c == comma(j)
             atom == Atom(m, c.i)
             t == AndThen(c, atom)
             k == IF c.v = "ok" THEN c.i ELSE j
  <2>1. Answer(c, j, m, Verdicts(m)) /\ Advances(c, j)
    BY UnstrictCharAnswer
  <2>2. c.i \in Indices(m) => Answer(atom, c.i, m, Verdicts(m))
    BY WordAnswers
  <2>3. turns[j] = CASE t.v = "ok" -> Again(t.i, <<>>)
                     [] t.v = "parse" -> Ok(k)
                     [] OTHER -> t
    OBVIOUS
  <2>4. k \in Indices(m) /\ k >= j
    <3> HIDE DEF c
    <3> QED
      BY <2>1 DEF Answer, Indices
  <2>5. Answer(t, j, m, Verdicts(m)) /\ Advances(t, j)
    <3> HIDE DEF c, atom
    <3> QED
      BY <2>1, <2>2, PairAnswer
  <2> HIDE DEF turns, t, k
  <2>6. t.v = "ok" => Again(t.i, <<>>).v = "again" /\ Again(t.i, <<>>).i \in (j + 1)..Len(m)
    <3>1. t.v = "ok" => t.i \in (j + 1)..Len(m)
      BY <2>5 DEF Answer, Advances, Indices
    <3> QED
      BY <3>1, Constants
  <2>7. Answer(Ok(k), j, m, Verdicts(m)) /\ Ok(k).v # "again"
    BY <2>4, ConstantAnswers, VerdictsAre, Constants
  <2>8. t.v # "again"
    BY <2>5, VerdictsAre DEF Answer
  <2> QED
    BY <2>3, <2>5, <2>6, <2>7, <2>8
<1>2. Turns(turns, m, Verdicts(m))
  <2>1. DOMAIN turns = Indices(m)
    OBVIOUS
  <2> HIDE DEF turns
  <2> QED
    BY <1>1, <2>1 DEF Turns
<1>3. Language(m) = Line(m, Loop(turns, 0))
  BY DEF Language, Then, AndThen
<1>4. 0 \in Indices(m)
  BY DEF Indices
<1> HIDE DEF turns
<1>5. Answer(Loop(turns, 0), 0, m, Verdicts(m))
  BY <1>2, <1>4, LoopAnswer
<1> QED
  BY <1>3, <1>5, LineAnswer

LEMMA XTokenAnswer ==
    ASSUME NEW m, Len(m) \in Nat
    PROVE  Answer(XToken(m), 0, m, VerdictsOrNull(m))
<1> DEFINE name == Token(m, 0)
           colon == UnstrictChar(m, name.i, ":")
           body == Unstructured(m, colon.i)
           value == AndThen(colon, body)
           named == With(value, name.val)
<1>1. 0 \in Indices(m)
  BY DEF Indices
<1>2. Answer(name, 0, m, Verdicts(m))
  BY <1>1, TokenAnswer
<1>3. name.v = "ok" => Answer(named, 0, m, Verdicts(m))
  <2> SUFFICES ASSUME name.v = "ok" PROVE Answer(named, 0, m, Verdicts(m))
    OBVIOUS
  <2>1. name.i \in Indices(m) /\ 0 <= name.i
    BY <1>2 DEF Answer, Indices
  <2> HIDE DEF name
  <2>2. Answer(colon, name.i, m, Verdicts(m))
    BY <2>1, UnstrictCharAnswer
  <2>3. colon.i \in Indices(m) => Answer(body, colon.i, m, Verdicts(m))
    BY UnstructuredAnswer
  <2> HIDE DEF colon, body
  <2>4. Answer(value, name.i, m, Verdicts(m))
    BY <2>1, <2>2, <2>3, PairAnswer
  <2> HIDE DEF value
  <2> QED
    BY <1>1, <2>1, <2>4, WithAnswer, AnswerLater
<1>4. XToken(m) = IF name.v # "ok" THEN Null ELSE Line(m, named)
  BY DEF XToken, AndThen, Then
<1> HIDE DEF name, named
<1>5. Answer(Null, 0, m, VerdictsOrNull(m))
  BY ConstantAnswers, VerdictsAre
<1> QED
  BY <1>3, <1>4, <1>5, LineAnswer, AnswerMore, VerdictsAre

-----------------------------------------------------------------------------
(***************************************************************************)
(* Dates.                                                                  *)
(***************************************************************************)
LEMMA NamedAnswer ==
    ASSUME NEW m, Len(m) \in Nat, NEW i \in Indices(m), NEW names, Keys(names)
    PROVE  Answer(Named(m, i, names), i, m, Verdicts(m))
<1> DEFINE Tells(n, k) == \A o \in DOMAIN names :
                             o # n => SubSeq(names[o], 1, k) # SubSeq(names[n], 1, k)
           Letters(n) == CHOOSE k \in 1..3 : Tells(n, k) /\ \A l \in 1..(k - 1) : ~Tells(n, l)
           Seen(n) == /\ i + Letters(n) <= Len(m)
                      /\ Part(m, i, i + Letters(n)) = SubSeq(names[n], 1, Letters(n))
           hits == {n \in DOMAIN names : Seen(n)}
           hit == CHOOSE h \in hits : TRUE
<1>1. Named(m, i, names) = IF hits = {} THEN Fail ELSE With(Keyword(m, i, names[hit]), <<hit>>)
  BY DEF Named
<1>2. hits # {} => hit \in DOMAIN names
  OBVIOUS
<1> HIDE DEF hits, hit
<1>3. hits # {} => Answer(With(Keyword(m, i, names[hit]), <<hit>>), i, m, Verdicts(m))
  BY <1>2, KeywordAnswer, WithAnswer DEF Keys
<1> QED
  BY <1>1, <1>3, Refusals

LEMMA DateAnswer ==
    ASSUME NEW m, Len(m) \in Nat, NEW i \in Indices(m)
    PROVE  /\ Answer(DayOfWeek(m, i), i, m, Verdicts(m)) /\ Answer(Date(m, i), i, m, Verdicts(m))
<1>1. ASSUME NEW j \in Indices(m)
      PROVE  /\ Answer(DayOfWeek(m, j), j, m, Verdicts(m)) /\ Answer(MonthName(m, j), j, m, Verdicts(m))
             /\ Answer(CfwsNumber(m, j), j, m, Verdicts(m))
  <2> DEFINE white == Opt(Cfws(m, j), j)
  <2>1. /\ DayOfWeek(m, j) = AndThen(white, Named(m, white.i, Days))
        /\ MonthName(m, j) = AndThen(white, Named(m, white.i, Months))
        /\ CfwsNumber(m, j) = AndThen(white, Number(m, white.i))
    BY DEF DayOfWeek, MonthName, CfwsNumber, Then, AndThen
  <2>2. white = Opt(Cfws(m, j), j)
    OBVIOUS
  <2> HIDE DEF white
  <2>3. white.i \in Indices(m) => /\ Answer(Named(m, white.i, Days), white.i, m, Verdicts(m))
                                  /\ Answer(Named(m, white.i, Months), white.i, m, Verdicts(m))
                                  /\ Answer(Number(m, white.i), white.i, m, Verdicts(m))
    BY NamedAnswer, NumberAnswer, KeysOfCode
  <2> QED
    BY <2>1, <2>2, <2>3, BehindCfws
<1> DEFINE day == CfwsNumber(m, i)
           month == MonthName(m, day.i)
           year == CfwsNumber(m, month.i)
           last == With(year, day.val \o month.val \o year.val)
<1>2. Answer(day, i, m, Verdicts(m))
  BY <1>1
<1>3. day.i \in Indices(m) => Answer(month, day.i, m, Verdicts(m))
  BY <1>1
<1>4. month.i \in Indices(m) => Answer(last, month.i, m, Verdicts(m))
  <2> HIDE DEF month, day
  <2> QED
    BY <1>1, WithAnswer
<1>5. Date(m, i) = AndThen(day, AndThen(month, last))
  BY DEF Date
<1> HIDE DEF day, month, last
<1> QED
  BY <1>1, <1>2, <1>3, <1>4, <1>5, TripleAnswer

LEMMA TimeOfDayAnswer ==
    ASSUME NEW m, Len(m) \in Nat, NEW i \in Indices(m)
    PROVE  Answer(TimeOfDay(m, i), i, m, Verdicts(m))
<1> DEFINE hour == Number(m, i)
           colon == UnstrictChar(m, hour.i, ":")
           minute == Number(m, colon.i)
           more == UnstrictChar(m, minute.i, ":")
           second == IF more.v = "ok" THEN Number(m, more.i) ELSE Else(more, Got(minute.i, <<0>>))
           last == With(second, hour.val \o minute.val \o second.val)
<1>1. Answer(hour, i, m, Verdicts(m))
  BY NumberAnswer
<1>2. hour.i \in Indices(m) => Answer(colon, hour.i, m, Verdicts(m))
  BY UnstrictCharAnswer
<1>3. colon.i \in Indices(m) => Answer(minute, colon.i, m, Verdicts(m))
  BY NumberAnswer
<1>4. minute.i \in Indices(m) => Answer(last, minute.i, m, Verdicts(m))
  <2> SUFFICES ASSUME minute.i \in Indices(m) PROVE Answer(last, minute.i, m, Verdicts(m))
    OBVIOUS
  <2> HIDE DEF minute
  <2>1. Answer(more, minute.i, m, Verdicts(m))
    BY UnstrictCharAnswer
  <2>2. minute.i >= minute.i
    BY DEF Indices
  <2>3. Answer(Got(minute.i, <<0>>), minute.i, m, Verdicts(m))
    BY <2>2, ConstantAnswers, VerdictsAre
  <2> HIDE DEF more
  <2>4. more.i \in Indices(m) => Answer(Number(m, more.i), more.i, m, Verdicts(m))
    BY NumberAnswer
  <2>5. Answer(AndThen(more, Number(m, more.i)), minute.i, m, Verdicts(m))
    BY <2>1, <2>4, PairAnswer
  <2>6. second = IF more.v = "ok" THEN AndThen(more, Number(m, more.i)) ELSE Else(more, Got(minute.i, <<0>>))
    BY DEF AndThen
  <2> HIDE DEF second
  <2>7. Answer(second, minute.i, m, Verdicts(m))
    BY <2>1, <2>3, <2>5, <2>6, ElseAnswer
  <2> QED
    BY <2>7, WithAnswer
<1>5. TimeOfDay(m, i) = AndThen(hour, AndThen(colon, AndThen(minute, last)))
  BY DEF TimeOfDay
<1> HIDE DEF hour, colon, minute, last
<1> QED
  BY <1>1, <1>2, <1>3, <1>4, <1>5, QuadrupleAnswer

LEMMA ZoneAnswer ==
    ASSUME NEW m, Len(m) \in Nat, NEW i \in Indices(m)
    PROVE  Answer(Zone(m, i), i, m, Verdicts(m))
<1> DEFINE sign == Else(UnstrictChar(m, i, "+"), UnstrictChar(m, i, "-"))
           start == IF sign.v = "ok" THEN sign.i ELSE i
           number == Number(m, start)
<1>1. Answer(sign, i, m, Verdicts(m))
  BY UnstrictCharAnswer, ElseAnswer
<1>2. start \in Indices(m) /\ i <= start
  <2> HIDE DEF sign
  <2> QED
    BY <1>1 DEF Answer, Indices
<1>3. Answer(number, i, m, Verdicts(m))
  <2> HIDE DEF start
  <2> QED
    BY <1>2, NumberAnswer, AnswerLater
<1>4. i + 2 < Len(m) => \A x : Answer(Got(i + 3, x), i, m, Verdicts(m))
  <2>1. i + 2 < Len(m) => i + 3 \in Indices(m) /\ i + 3 >= i
    BY DEF Indices
  <2> QED
    BY <2>1, ConstantAnswers, VerdictsAre
<1>5. \/ Zone(m, i) \in {sign, Fail}
      \/ \E x : Zone(m, i) = With(number, x)
      \/ i + 2 < Len(m) /\ \E x : Zone(m, i) = Got(i + 3, x)
  <2> DEFINE first == Ch(m, i)
             letters == Part(m, i, i + 3)
             minus == UnstrictChar(m, i, "+").v = "parse" /\ sign.v = "ok"
             standard == letters = first \o "ST" /\ first # "G"
             daylight == letters = first \o "DT" /\ first # "G"
             gmt == Got(i + 3, <<0>>)
             st == Got(i + 3, <<American[first] * 100>>)
             dt == Got(i + 3, <<(American[first] + 1) * 100>>)
             named == CASE letters = "GMT" -> gmt [] standard -> st [] daylight -> dt [] OTHER -> Fail
             signed == With(number, IF minus THEN <<-number.val[1]>> ELSE number.val)
  <2>1. named = Fail \/ \E x : named = Got(i + 3, x)
    <3>1. \A y \in {gmt, st, dt} : \E x : y = Got(i + 3, x)
      OBVIOUS
    <3>2. named \in {gmt, st, dt, Fail}
      <4> HIDE DEF letters, standard, daylight, gmt, st, dt
      <4> QED
        OBVIOUS
    <3> HIDE DEF named, gmt, st, dt
    <3> QED
      BY <3>1, <3>2
  <2>2. Zone(m, i) = IF i + 2 < Len(m) /\ first \in {"G"} \cup DOMAIN American THEN named
                     ELSE IF sign.v \notin {"ok", "parse"} THEN sign ELSE signed
    BY DEF Zone
  <2>3. \E x : signed = With(number, x)
    OBVIOUS
  <2> HIDE DEF named, signed, sign
  <2> QED
    BY <2>1, <2>2, <2>3
<1> HIDE DEF sign, number
<1> QED
  BY <1>1, <1>3, <1>4, <1>5, WithAnswer, Refusals

LEMMA TimeAnswer ==
    ASSUME NEW m, Len(m) \in Nat, NEW i \in Indices(m)
    PROVE  Answer(Time(m, i), i, m, Verdicts(m))
<1> DEFINE white == Opt(Cfws(m, i), i)
           clock == AndThen(white, TimeOfDay(m, white.i))
           blank == Opt(Fws(m, clock.i), clock.i)
           zone == Else(Zone(m, blank.i), Got(blank.i, <<0>>))
           last == With(zone, clock.val \o zone.val)
<1>1. Answer(clock, i, m, Verdicts(m))
  <2>1. white = Opt(Cfws(m, i), i)
    OBVIOUS
  <2> HIDE DEF white
  <2> QED
    BY <2>1, TimeOfDayAnswer, BehindCfws
<1>2. clock.i \in Indices(m) => Answer(blank, clock.i, m, Verdicts(m))
  <2> HIDE DEF clock
  <2> QED
    BY FwsAnswer, OptAnswer, VerdictsAre
<1>3. blank.i \in Indices(m) => Answer(last, blank.i, m, Verdicts(m))
  <2> SUFFICES ASSUME blank.i \in Indices(m) PROVE Answer(last, blank.i, m, Verdicts(m))
    OBVIOUS
  <2> HIDE DEF blank, clock
  <2>1. blank.i >= blank.i
    BY DEF Indices
  <2>2. Answer(Got(blank.i, <<0>>), blank.i, m, Verdicts(m))
    BY <2>1, ConstantAnswers, VerdictsAre
  <2>3. Answer(zone, blank.i, m, Verdicts(m))
    BY <2>2, ZoneAnswer, ElseAnswer
  <2> HIDE DEF zone
  <2> QED
    BY <2>3, WithAnswer
<1>4. Time(m, i) = AndThen(clock, AndThen(blank, last))
  BY DEF Time, Then, AndThen
<1> HIDE DEF clock, blank, last
<1> QED
  BY <1>1, <1>2, <1>3, <1>4, TripleAnswer

LEMMA DateTimeAnswer ==
    ASSUME NEW m, Len(m) \in Nat, NEW i \in Indices(m)
    PROVE  Answer(DateTime(m, i), i, m, Verdicts(m))
<1> DEFINE name == DayOfWeek(m, i)
           comma == UnstrictChar(m, name.i, ",")
           start == IF name.v = "ok" THEN comma ELSE Opt(name, i)
           date == Date(m, start.i)
           blank == Fws(m, date.i)
           time == Time(m, blank.i)
           last == With(time, date.val \o time.val)
<1>1. Answer(start, i, m, Verdicts(m))
  <2>1. Answer(name, i, m, Verdicts(m))
    BY DateAnswer
  <2> HIDE DEF name
  <2>2. Answer(Opt(name, i), i, m, Verdicts(m))
    BY <2>1, OptAnswer, VerdictsAre
  <2>3. name.i \in Indices(m) => Answer(comma, name.i, m, Verdicts(m))
    BY UnstrictCharAnswer
  <2> HIDE DEF comma
  <2>4. Answer(AndThen(name, comma), i, m, Verdicts(m))
    BY <2>1, <2>3, PairAnswer
  <2>5. start = IF name.v = "ok" THEN AndThen(name, comma) ELSE Opt(name, i)
    BY DEF AndThen
  <2> HIDE DEF start
  <2> QED
    BY <2>2, <2>4, <2>5
<1>2. start.i \in Indices(m) => Answer(date, start.i, m, Verdicts(m))
  <2> HIDE DEF start
  <2> QED
    BY DateAnswer
<1>3. date.i \in Indices(m) => Answer(blank, date.i, m, Verdicts(m))
  <2> HIDE DEF date
  <2> QED
    BY FwsAnswer
<1>4. blank.i \in Indices(m) => Answer(last, blank.i, m, Verdicts(m))
  <2> HIDE DEF blank, date
  <2> QED
    BY TimeAnswer, WithAnswer
<1>5. DateTime(m, i) = AndThen(start, AndThen(date, AndThen(blank, last)))
  BY DEF DateTime
<1> HIDE DEF start, date, blank, last
<1> QED
  BY <1>1, <1>2, <1>3, <1>4, <1>5, QuadrupleAnswer

LEMMA DateFieldsAnswer ==
    ASSUME NEW m, Len(m) \in Nat
    PROVE  Answer(OrigDate(m), 0, m, Verdicts(m)) /\ Answer(ResentDate(m), 0, m, Verdicts(m))
<1> DEFINE date == DateTime(m, 0)
           rest == Terminal(m, date.i)
           ending == AndThen(rest, UnstrictCrLf(m, rest.i))
           last == With(ending, date.val)
<1>1. 0 \in Indices(m)
  BY DEF Indices
<1>2. Answer(date, 0, m, Verdicts(m))
  BY <1>1, DateTimeAnswer
<1>3. date.i \in Indices(m) => Answer(last, date.i, m, Verdicts(m))
  <2> SUFFICES ASSUME date.i \in Indices(m) PROVE Answer(last, date.i, m, Verdicts(m))
    OBVIOUS
  <2> HIDE DEF date
  <2>1. Answer(rest, date.i, m, Verdicts(m))
    BY TerminalAnswer
  <2> HIDE DEF rest
  <2>2. Answer(ending, date.i, m, Verdicts(m))
    BY <2>1, UnstrictCrLfAnswer, PairAnswer
  <2> HIDE DEF ending
  <2> QED
    BY <2>2, WithAnswer
<1>4. OrigDate(m) = AndThen(date, last)
  BY DEF OrigDate, IgnoreUnstructured, Then, AndThen
<1>5. Answer(ResentDate(m), 0, m, Verdicts(m))
  <2> HIDE DEF date
  <2> QED
    BY <1>2, LineAnswer DEF ResentDate, date
<1> HIDE DEF date, last
<1> QED
  BY <1>1, <1>2, <1>3, <1>4, <1>5, PairAnswer

-----------------------------------------------------------------------------
(***************************************************************************)
(* Every field.                                                            *)
(***************************************************************************)
\* The fields whose parsers free what they may not have got.
Freeing == {"to", "reply-to", "cc", "resent-to", "resent-cc", "bcc", "x-token"}

LEMMA ParseAnswer ==
    ASSUME NEW m, Len(m) \in Nat, NEW f \in AllFields
    PROVE  Answer(Parse(f, m), 0, m, IF f \in Freeing THEN VerdictsOrNull(m) ELSE Verdicts(m))
<1>1. 0 \in Indices(m)
  BY DEF Indices
<1>2. /\ Answer(ContentType(m), 0, m, Verdicts(m)) /\ Answer(Encoding(m), 0, m, Verdicts(m))
      /\ Answer(Disposition(m), 0, m, Verdicts(m)) /\ Answer(MailFrom(m), 0, m, Verdicts(m))
      /\ Answer(Version(m), 0, m, Verdicts(m)) /\ Answer(Language(m), 0, m, Verdicts(m))
      /\ Answer(XToken(m), 0, m, VerdictsOrNull(m))
      /\ Answer(OrigDate(m), 0, m, Verdicts(m)) /\ Answer(ResentDate(m), 0, m, Verdicts(m))
  BY ContentTypeAnswer, EncodingAnswer, DispositionAnswer, MailFromAnswer, VersionAnswer,
     LanguageAnswer, XTokenAnswer, DateFieldsAnswer
<1>3. /\ Answer(Fws(m, 0), 0, m, Verdicts(m)) /\ Answer(Comment(m, 0), 0, m, Verdicts(m))
      /\ Answer(QuotedString(m, 0), 0, m, Verdicts(m)) /\ Answer(DomainLiteral(m, 0), 0, m, Verdicts(m))
      /\ Answer(StrCrLf(m, 0), 0, m, Verdicts(m)) /\ Answer(WspUnstrictCrLf(m, 0), 0, m, Verdicts(m))
  BY <1>1, FwsAnswer, CommentAnswer, WordAnswers, DomainLiteralAnswer, StrCrLfAnswer, WspUnstrictCrLfAnswer
<1>4. CASE f \in Fields
  BY <1>2, <1>4, AddressFieldsAnswer DEF Fields, Freeing, Parse
<1>5. CASE f \in LibraryFields
  BY <1>2, <1>5, AddressFieldsAnswer DEF LibraryFields, Freeing, Parse
<1>6. CASE f \in Lexical
  BY <1>3, <1>6 DEF Lexical, Freeing, Parse
<1> QED
  BY <1>4, <1>5, <1>6 DEF AllFields

-----------------------------------------------------------------------------
(***************************************************************************)
(* What is kept between two calls: the answers are those of the parser to  *)
(* all that has arrived, now or at some time before.                       *)
(***************************************************************************)
Sent ==
    /\ field \in AllFields /\ text \in Seq(STRING) /\ pieces \in 0..MaxPieces
    /\ line = NoLine => field \in DOMAIN Alphabet
    /\ line # NoLine => /\ line \in Texts /\ field = line.field
                        /\ Len(text) <= Len(Whole) /\ text = SubSeq(Whole, 1, Len(text))
Called == now = Parse(field, text) \/ (now = None /\ text = <<>> /\ said = None)
Said == said # None => \E n \in 0..Len(text) : said = Parse(field, SubSeq(text, 1, n)) /\ said.v # "cont"
FieldsInv == Sent /\ Called /\ Said

LEMMA LibraryIs ==
    ASSUME Parser = Library, NEW f \in AllFields, NEW m \in Seq(STRING)
    PROVE  Parser[f][m] = Parse(f, m)
  BY DEF Library

LEMMA NoLineIsNone == NoLine \notin Texts
<1>1. NoLine.field = "none" /\ "none" \notin AllFields
  BY DEF NoLine, AllFields, Fields, LibraryFields, Lexical
<1> QED
  BY <1>1, TextsAssumption

LEMMA SpeltChars ==
    ASSUME NEW s, Spelt(s)
    PROVE  /\ Chars(s) \in Seq(STRING) /\ Len(Chars(s)) = Len(s)
           /\ \A k \in 1..Len(s) : Chars(Chars(s)[k]) = <<Chars(s)[k]>>
<1> DEFINE c == Chars(s)
           n == Len(s)
<1>1. n \in Nat /\ DOMAIN c = 1..n /\ \A k \in 1..n : c[k] \in STRING
  BY DEF Spelt, Chars
<1>2. c = [k \in 1..n |-> c[k]]
  BY DEF Chars
<1> HIDE DEF c, n
<1>3. c \in Seq(STRING) /\ Len(c) = n
  BY <1>1, <1>2
<1> QED
  BY <1>3 DEF c, n, Spelt

\* The text grows by characters.
LEMMA TextGrows ==
    ASSUME NEW piece, Send(piece), Sent,
           \/ line = NoLine /\ piece \in Alphabet[field]
           \/ line # NoLine /\ text # Whole /\ piece = Ch(Whole, Len(text))
    PROVE  /\ text' \in Seq(STRING) /\ Len(text) <= Len(text')
           /\ text = SubSeq(text', 1, Len(text))
           /\ line # NoLine => Len(text') <= Len(Whole) /\ text' = SubSeq(Whole, 1, Len(text'))
<1>1. text' = text \o Chars(piece)
  BY DEF Send
<1>2. CASE line = NoLine
  <2>1. Chars(piece) \in Seq(STRING)
    BY <1>2, AlphabetAssumption, SpeltChars DEF Sent
  <2> QED
    BY <1>1, <1>2, <2>1 DEF Sent
<1>3. CASE line # NoLine
  <2>1. Spelt(line.text \o Rest)
    BY <1>3, TextsAssumption DEF Sent
  <2>2. Whole \in Seq(STRING) /\ \A k \in 1..Len(Whole) : Chars(Whole[k]) = <<Whole[k]>>
    BY <2>1, SpeltChars DEF Whole, Spelt
  <2> HIDE DEF Whole
  <2>3. Len(text) \in Nat /\ Len(text) < Len(Whole) /\ text = SubSeq(Whole, 1, Len(text))
    <3>1. Len(text) = Len(Whole) => text = Whole
      BY <1>3, <2>2 DEF Sent
    <3> QED
      BY <1>3, <2>2, <3>1 DEF Sent
  <2>4. Chars(piece) = <<Whole[Len(text) + 1]>>
    BY <1>3, <2>2, <2>3 DEF Ch
  <2>5. text' = SubSeq(Whole, 1, Len(text) + 1) /\ Len(text') = Len(text) + 1
    BY <1>1, <2>2, <2>3, <2>4 DEF Sent
  <2> QED
    BY <2>2, <2>3, <2>5
<1> QED
  BY <1>2, <1>3

LEMMA SentStep ==
    ASSUME Parser = Library, FieldsInv, [Next]_vars
    PROVE  FieldsInv'
<1> USE DEF FieldsInv
<1>1. ASSUME NEW piece, Send(piece), pieces' \in 0..MaxPieces,
             \/ line = NoLine /\ piece \in Alphabet[field]
             \/ line # NoLine /\ text # Whole /\ piece = Ch(Whole, Len(text))
      PROVE  FieldsInv'
  <2>1. /\ text' \in Seq(STRING) /\ Len(text) <= Len(text')
        /\ text = SubSeq(text', 1, Len(text))
        /\ line # NoLine => Len(text') <= Len(Whole) /\ text' = SubSeq(Whole, 1, Len(text'))
    BY <1>1, TextGrows
  <2>2. /\ UNCHANGED <<field, line>> /\ now' = Parse(field, text')
        /\ said' = said \/ (said' = now' /\ now'.v # "cont")
    <3>1. UNCHANGED <<field, line>> /\ now' = Parser[field][text']
      BY <1>1 DEF Send
    <3>2. said' = said \/ (said' = now' /\ now'.v # "cont")
      BY <1>1 DEF Send, Deliver
    <3> QED
      BY <2>1, <3>1, <3>2, LibraryIs DEF Sent
  <2>3. Whole' = Whole
    BY <2>2 DEF Whole
  <2>4. Sent'
    BY <1>1, <2>1, <2>2, <2>3 DEF Sent
  <2>5. Called'
    BY <2>2 DEF Called
  <2>6. Said'
    <3>1. CASE said' = said
      <4> SUFFICES ASSUME said # None
                   PROVE  \E n \in 0..Len(text') : said = Parse(field, SubSeq(text', 1, n)) /\ said.v # "cont"
        BY <2>2, <3>1 DEF Said
      <4>1. PICK n \in 0..Len(text) : said = Parse(field, SubSeq(text, 1, n)) /\ said.v # "cont"
        BY DEF Said
      <4>2. n \in 0..Len(text') /\ SubSeq(text, 1, n) = SubSeq(text', 1, n)
        BY <2>1 DEF Sent
      <4> QED
        BY <4>1, <4>2
    <3>2. CASE said' = now' /\ now'.v # "cont"
      <4>1. Len(text') \in 0..Len(text') /\ text' = SubSeq(text', 1, Len(text'))
        BY <2>1
      <4> QED
        BY <2>2, <3>2, <4>1 DEF Said
    <3> QED
      BY <2>2, <3>1, <3>2
  <2> QED
    BY <2>4, <2>5, <2>6
<1>2. CASE SendLine
  <2>1. line # NoLine /\ text # Whole /\ Send(Ch(Whole, Len(text))) /\ pieces' \in 0..MaxPieces
    BY <1>2 DEF SendLine, Sent
  <2> QED
    BY <1>1, <2>1
<1>3. CASE SendAny
  <2>1. PICK p \in Alphabet[field] : Send(p)
    BY <1>3 DEF SendAny
  <2>2. line = NoLine /\ pieces' \in 0..MaxPieces
    BY <1>3, MaxPiecesAssumption DEF SendAny, Sent
  <2> QED
    BY <1>1, <2>1, <2>2
<1>4. CASE Push
  <2>1. /\ UNCHANGED <<field, line, text, pieces, now>> /\ said = None
        /\ said' = said \/ (said' = now /\ now.v # "cont")
    BY <1>4 DEF Push, Deliver
  <2>2. Sent' /\ Called'
    BY <2>1 DEF Sent, Called, Whole
  <2>3. Said'
    <3>1. Len(text) \in 0..Len(text) /\ text = SubSeq(text, 1, Len(text))
      BY DEF Sent
    <3>2. said' # None => said' = Parse(field, text) /\ said'.v # "cont"
      BY <2>1 DEF Called
    <3> QED
      BY <2>1, <3>1, <3>2 DEF Said
  <2> QED
    BY <2>2, <2>3
<1>5. CASE UNCHANGED vars
  BY <1>5 DEF vars, Sent, Called, Said, Whole
<1> QED
  BY <1>2, <1>3, <1>4, <1>5 DEF Next

\* FieldsInv is inductive: what has arrived, what the parser answers to it, and
\* what it said when it first answered.
LEMMA FieldsSent == ASSUME Parser = Library PROVE Spec => []FieldsInv
<1>1. Init => FieldsInv
  <2> SUFFICES ASSUME Init PROVE FieldsInv
    OBVIOUS
  <2>1. text = <<>> /\ pieces = 0 /\ now = None /\ said = None
    BY DEF Init
  <2>2. 0 \in 0..MaxPieces
    BY MaxPiecesAssumption
  <2>3. CASE line \in Texts /\ field = line.field
    <3>1. Spelt(line.text \o Rest)
      BY <2>3, TextsAssumption
    <3>2. Whole \in Seq(STRING)
      BY <3>1, SpeltChars DEF Whole
    <3>3. text \in Seq(STRING) /\ Len(text) = 0 /\ text = SubSeq(Whole, 1, 0) /\ 0 <= Len(Whole)
      BY <2>1, <3>2
    <3>4. line # NoLine
      BY <2>3, NoLineIsNone
    <3> QED
      BY <2>1, <2>2, <2>3, <3>3, <3>4, TextsAssumption DEF FieldsInv, Sent, Called, Said
  <2>4. CASE line = NoLine /\ field \in DOMAIN Alphabet
    BY <2>1, <2>2, <2>4, AlphabetAssumption DEF FieldsInv, Sent, Called, Said
  <2> QED
    BY <2>3, <2>4 DEF Init
<1>2. FieldsInv /\ [Next]_vars => FieldsInv'
  BY SentStep
<1> QED
  BY <1>1, <1>2, PTL DEF Spec

\* What was said is the parser's answer to a beginning of the text.
LEMMA SaidAnswer ==
    ASSUME FieldsInv, said # None
    PROVE  /\ said.v \in (IF field \in Freeing THEN VerdictsOrNull(text) ELSE Verdicts(text)) \ {"cont"}
           /\ said.i \in 0..Len(text)
<1>1. PICK n \in 0..Len(text) : said = Parse(field, SubSeq(text, 1, n)) /\ said.v # "cont"
  BY DEF FieldsInv, Said
<1> DEFINE m == SubSeq(text, 1, n)
<1>2. Len(m) = n /\ n \in Nat /\ \A k \in 0..(n - 1) : Ch(m, k) = Ch(text, k)
  BY DEF FieldsInv, Sent, Ch
<1>3. Opens(m) => Opens(text)
  <2>1. \A k \in 0..(n - 1) : k \in 0..(Len(text) - 1)
    BY DEF FieldsInv, Sent
  <2> HIDE DEF m
  <2> QED
    BY <1>2, <2>1 DEF Opens
<1>4. Verdicts(m) \subseteq Verdicts(text) /\ VerdictsOrNull(m) \subseteq VerdictsOrNull(text)
  BY <1>3 DEF Verdicts, VerdictsOrNull
<1>5. Answer(said, 0, m, IF field \in Freeing THEN VerdictsOrNull(m) ELSE Verdicts(m))
  BY <1>1, <1>2, ParseAnswer DEF FieldsInv, Sent
<1>6. said.i \in 0..Len(text)
  <2> HIDE DEF m
  <2> QED
    BY <1>2, <1>5 DEF Answer, FieldsInv, Sent
<1> HIDE DEF m
<1> QED
  BY <1>1, <1>4, <1>5, <1>6 DEF Answer

\* Texts are sequences of characters, answers those the parsers give, and an
\* index left is one of the text's.
THEOREM FieldsTyped == ASSUME Parser = Library PROVE Spec => []TypeOK
<1>1. FieldsInv => TypeOK
  <2> SUFFICES ASSUME FieldsInv PROVE TypeOK
    OBVIOUS
  <2>1. /\ field \in AllFields /\ line \in Texts \cup {NoLine} /\ text \in Seq(STRING)
        /\ pieces \in 0..MaxPieces
    BY DEF FieldsInv, Sent
  <2>2. now.v \in {"none", "ok", "parse", "cont", "spin", "null"}
    <3>1. Len(text) \in Nat
      BY <2>1
    <3>2. CASE now = Parse(field, text)
      BY <2>1, <3>1, <3>2, ParseAnswer DEF Answer, Verdicts, VerdictsOrNull
    <3>3. CASE now = None
      BY <3>3 DEF None
    <3> QED
      BY <3>2, <3>3 DEF FieldsInv, Called
  <2>3. said.v \in {"none", "ok", "parse", "spin", "null"} /\ said.i \in 0..Len(text)
    <3>1. CASE said = None
      BY <2>1, <3>1 DEF None
    <3>2. CASE said # None
      BY <3>2, SaidAnswer DEF Verdicts, VerdictsOrNull
    <3> QED
      BY <3>1, <3>2
  <2> QED
    BY <2>1, <2>2, <2>3 DEF TypeOK
<1>2. Spec => []FieldsInv
  BY FieldsSent
<1> QED
  BY <1>1, <1>2, PTL

\* Returns, whatever the client sends: where no comment opens, every loop of
\* every parser ends, those of the lists of addresses and of X- fields included.
\* What these seven fields may do besides is free what they have not got; no other
\* field does.
THEOREM ParsersReturn ==
    ASSUME Parser = Library
    PROVE  Spec => [](~Opens(text) => said.v # "spin" /\ (field \notin Freeing => Returns))
<1>1. FieldsInv => (~Opens(text) => said.v # "spin" /\ (field \notin Freeing => Returns))
  <2> SUFFICES ASSUME FieldsInv, ~Opens(text)
               PROVE  said.v # "spin" /\ (field \notin Freeing => Returns)
    OBVIOUS
  <2>1. CASE said = None
    BY <2>1 DEF None, Returns
  <2>2. CASE said # None
    <3>1. "spin" \notin VerdictsOrNull(text) /\ Verdicts(text) \subseteq VerdictsOrNull(text)
          /\ "null" \notin Verdicts(text)
      BY VerdictsAre
    <3> QED
      BY <2>2, <3>1, SaidAnswer DEF Returns
  <2> QED
    BY <2>1, <2>2
<1>2. Spec => []FieldsInv
  BY FieldsSent
<1> QED
  BY <1>1, <1>2, PTL

-----------------------------------------------------------------------------
(***************************************************************************)
(* Folding white space is that of the grammar.                             *)
(***************************************************************************)
\* White space ends where something else stands, and asks for more where the
\* text does.
IsBlankEnd(m, i, e) ==
    /\ e \in i..Len(m)
    /\ \A k \in i..(e - 1) : Ch(m, k) \in Wsp
    /\ e < Len(m) => Ch(m, e) \notin Wsp

LEMMA WspsIs ==
    ASSUME NEW m, Len(m) \in Nat, NEW i \in Indices(m)
    PROVE  \E e \in i..Len(m) : IsBlankEnd(m, i, e) /\ Wsps(m, i) = IF e = Len(m) THEN More ELSE Ok(e)
<1> DEFINE n == Len(m)
           t == [j \in DOMAIN EachWsp(m) |-> LET r == EachWsp(m)[j] IN Turn(r, j, <<>>)]
           Right(j) == \E e \in j..n : /\ IsBlankEnd(m, j, e)
                                       /\ Loop(t, j) = IF e = n THEN More ELSE Ok(e)
           Bad == {j \in Indices(m) : ~Right(j)}
<1>1. \A j : Wsps(m, j) = Loop(t, j)
  BY DEF Wsps, Many
<1>2. /\ DOMAIN t = 0..n
      /\ \A j \in 0..n : t[j] = IF j = n THEN More
                                ELSE IF Ch(m, j) \in Wsp THEN Again(j + 1, <<>>) ELSE Ok(j)
  <2>1. DOMAIN t = 0..n /\ \A j \in 0..n : t[j] = Turn(WspChar(m, j), j, <<>>)
    BY DEF EachWsp, Indices
  <2>2. ASSUME NEW j \in 0..n
        PROVE  t[j] = IF j = n THEN More ELSE IF Ch(m, j) \in Wsp THEN Again(j + 1, <<>>) ELSE Ok(j)
    <3>1. t[j] = Turn(WspChar(m, j), j, <<>>)
      BY <2>1
    <3> HIDE DEF t
    <3>2. CASE j = n
      <4>1. WspChar(m, j) = More
        BY <3>2 DEF WspChar
      <4> QED
        BY <3>1, <3>2, <4>1 DEF Turn, More
    <3>3. CASE j # n /\ Ch(m, j) \in Wsp
      <4>1. ~(j >= n) /\ j + 1 # j
        BY <3>3
      <4>2. WspChar(m, j) = Ok(j + 1)
        BY <3>3, <4>1 DEF WspChar
      <4>3. Ok(j + 1).v = "ok" /\ Ok(j + 1).i # j /\ Ok(j + 1).i = j + 1
        BY <4>1, Constants
      <4> HIDE DEF n
      <4> QED
        BY <3>1, <3>3, <4>2, <4>3 DEF Turn
    <3>4. CASE j # n /\ Ch(m, j) \notin Wsp
      <4>1. ~(j >= n)
        BY <3>4
      <4>2. WspChar(m, j) = Fail
        BY <3>4, <4>1 DEF WspChar
      <4> QED
        BY <3>1, <3>4, <4>2 DEF Turn, Fail
    <3> QED
      BY <3>2, <3>3, <3>4
  <2> QED
    BY <2>1, <2>2
<1> HIDE DEF t
<1>3. Forward(t, n)
  <2>1. ASSUME NEW j \in 0..n, t[j].v = "again" PROVE t[j].i \in (j + 1)..n
    <3>1. j # n /\ t[j] = Again(j + 1, <<>>)
      BY <1>2, <2>1, Constants
    <3> QED
      BY <3>1, Constants
  <2> QED
    BY <1>2, <2>1 DEF Forward
<1>4. Bad = {}
  <2> SUFFICES ASSUME Bad # {} PROVE FALSE
    OBVIOUS
  <2>1. PICK j \in Bad : \A k \in Bad : k <= j
    <3>1. Bad \subseteq 0..n
      BY DEF Indices
    <3> HIDE DEF Bad
    <3> QED
      BY <3>1, LastOf
  <2>2. j \in 0..n /\ ~Right(j)
    BY DEF Indices
  <2>3. Loop(t, j) = IF t[j].v = "again" THEN Before(t[j].val, Loop(t, t[j].i)) ELSE t[j]
    BY <1>3, <2>2, LoopTurn
  <2>4. CASE j = n
    <3>1. Loop(t, j) = More
      BY <1>2, <2>2, <2>3, <2>4, Constants
    <3>2. IsBlankEnd(m, j, n) /\ n \in j..n
      BY <2>2, <2>4 DEF IsBlankEnd
    <3> QED
      BY <2>2, <3>1, <3>2
  <2>5. CASE j # n /\ Ch(m, j) \notin Wsp
    <3>1. Loop(t, j) = Ok(j)
      BY <1>2, <2>2, <2>3, <2>5, Constants
    <3>2. IsBlankEnd(m, j, j) /\ j \in j..n
      BY <2>2, <2>5 DEF IsBlankEnd
    <3> QED
      BY <2>2, <2>5, <3>1, <3>2
  <2>6. CASE j # n /\ Ch(m, j) \in Wsp
    <3>1. t[j] = Again(j + 1, <<>>)
      BY <1>2, <2>2, <2>6
    <3>2. t[j].v = "again" /\ t[j].i = j + 1 /\ t[j].val = <<>>
      BY <3>1 DEF Again
    <3>3. Loop(t, j) = Before(<<>>, Loop(t, j + 1))
      BY <2>3, <3>2
    <3>4. j + 1 \in Indices(m) /\ ~(j + 1 <= j)
      BY <2>2, <2>6 DEF Indices
    <3>5. Right(j + 1)
      BY <2>1, <3>4
    <3>6. PICK e \in (j + 1)..n : IsBlankEnd(m, j + 1, e) /\ Loop(t, j + 1) = IF e = n THEN More ELSE Ok(e)
      BY <3>5
    <3>7. Before(<<>>, More) = More /\ Before(<<>>, Ok(e)) = Ok(e)
      <4>1. <<>> \o <<>> = <<>>
        OBVIOUS
      <4> QED
        BY <4>1 DEF Before, More, Ok, Got
    <3>8. Loop(t, j) = IF e = n THEN More ELSE Ok(e)
      BY <3>3, <3>6, <3>7
    <3>9. IsBlankEnd(m, j, e)
      <4>1. \A k \in j..(e - 1) : k = j \/ k \in (j + 1)..(e - 1)
        BY <2>2, <3>6
      <4> QED
        BY <2>2, <2>6, <3>6, <4>1 DEF IsBlankEnd
    <3>10. e \in j..n
      BY <2>2, <3>6
    <3> QED
      BY <2>2, <3>8, <3>9, <3>10
  <2> QED
    BY <2>4, <2>5, <2>6
<1>5. Right(i)
  BY <1>4
<1> QED
  BY <1>1, <1>5

\* A line break: a return and a line feed, or a line feed alone.
LEMMA CrLfIs ==
    ASSUME NEW m, Len(m) \in Nat, NEW i \in Indices(m)
    PROVE  CrLf(m, i) =
             IF i = Len(m) THEN More
             ELSE IF Ch(m, i) = "\r"
                  THEN IF i + 1 = Len(m) THEN More
                       ELSE IF Ch(m, i + 1) = "\n" THEN Ok(i + 2) ELSE Fail
             ELSE IF Ch(m, i) = "\n" THEN Ok(i + 1) ELSE Fail
<1> DEFINE n == Len(m)
           a == Opt(Char(m, i, "\r"), i)
           b == Char(m, a.i, "\n")
<1>1. CrLf(m, i) = IF a.v = "ok" THEN b ELSE a
  BY DEF CrLf, Then
<1>2. i \in 0..n
  BY DEF Indices
<1>3. CASE i = n
  <2>1. Char(m, i, "\r") = More
    BY <1>2, <1>3 DEF Char
  <2>2. a = More
    BY <2>1 DEF Opt, Else, More
  <2> HIDE DEF a, b
  <2> QED
    BY <1>1, <1>3, <2>2, Constants
<1>4. CASE i # n /\ Ch(m, i) = "\r"
  <2>1. ~(i >= n) /\ i + 1 \in 0..n
    BY <1>2, <1>4
  <2>2. a = Ok(i + 1)
    BY <1>4, <2>1 DEF Char, Opt, Else, Ok
  <2>3. b = Char(m, i + 1, "\n") /\ a.v = "ok"
    BY <2>2, Constants
  <2>4. CASE i + 1 = n
    <3>1. b = More
      BY <2>1, <2>3, <2>4 DEF Char
    <3> HIDE DEF a, b
    <3> QED
      BY <1>1, <1>4, <2>3, <2>4, <3>1
  <2>5. CASE i + 1 # n
    <3>1. ~(i + 1 >= n) /\ i + 1 + 1 = i + 2
      BY <1>2, <2>1, <2>5
    <3>2. b = IF Ch(m, i + 1) = "\n" THEN Ok(i + 2) ELSE Fail
      BY <2>3, <3>1 DEF Char
    <3> HIDE DEF a, b
    <3> QED
      BY <1>1, <1>4, <2>3, <2>5, <3>2
  <2> QED
    BY <2>4, <2>5
<1>5. CASE i # n /\ Ch(m, i) # "\r"
  <2>1. ~(i >= n)
    BY <1>2, <1>5
  <2>2. a = Ok(i)
    BY <1>5, <2>1 DEF Char, Opt, Else, Fail
  <2>3. b = Char(m, i, "\n") /\ a.v = "ok"
    BY <2>2, Constants
  <2>4. b = IF Ch(m, i) = "\n" THEN Ok(i + 1) ELSE Fail
    BY <2>1, <2>3 DEF Char
  <2> HIDE DEF a, b
  <2> QED
    BY <1>1, <1>5, <2>3, <2>4
<1> QED
  BY <1>3, <1>4, <1>5

\* FWS = [*WSP CRLF] 1*WSP, for every text: what smtp_fws_parse accepts is the
\* longest beginning of that form, and where it refuses there is none.
LEMMA FwsRight ==
    ASSUME Len(text) \in Nat, now = Fws(text, 0)
    PROVE  FwsIsLongest
<1> DEFINE m == text
           n == Len(m)
           Blank(i, j) == \A k \in i..(j - 1) : At(m, k, Wsp)
           Break(j) == At(m, j, {"\n"}) \/ (At(m, j, {"\r"}) /\ At(m, j + 1, {"\n"}))
           Behind(j) == IF At(m, j, {"\r"}) THEN j + 2 ELSE j + 1
           IsFws(k) == \/ k > 0 /\ Blank(0, k)
                       \/ \E j \in 0..(k - 1) : /\ Blank(0, j) /\ Break(j)
                                                /\ Behind(j) < k /\ Blank(Behind(j), k)
           ends == {k \in 1..n : IsFws(k)}
           Right == CASE now.v = "ok" -> now.i \in ends /\ \A k \in ends : k <= now.i
                      [] now.v = "parse" -> ends = {}
                      [] now.v = "cont" -> TRUE
<1>1. SUFFICES Right
  BY DEF FwsIsLongest
<1>2. 0 \in Indices(m) /\ n \in Nat
  BY DEF Indices
<1>3. PICK e \in 0..n : IsBlankEnd(m, 0, e) /\ Wsps(m, 0) = IF e = n THEN More ELSE Ok(e)
  BY <1>2, WspsIs
<1>4. \A k \in 0..(e - 1) : k < n /\ Ch(m, k) \in Wsp
  BY <1>3 DEF IsBlankEnd
<1> DEFINE ending == CrLf(m, e)
           folded == Wsps(m, ending.i)
           unfolded == IF e > 0 THEN Ok(e) ELSE Fail
<1>5. CASE e = n
  <2>1. now = More
    <3>1. Wsps(m, 0) = More
      BY <1>3, <1>5
    <3> QED
      BY <3>1 DEF Fws, Then, More
  <2> HIDE DEF ends
  <2> QED
    BY <2>1, Constants
<1>6. CASE e # n
  <2>1. e < n /\ Ch(m, e) \notin Wsp /\ e \in Indices(m)
    BY <1>3, <1>6 DEF IsBlankEnd, Indices
  <2>2. now = IF ending.v = "parse" \/ (ending.v = "ok" /\ folded = Ok(ending.i)) THEN unfolded
              ELSE AndThen(ending, folded)
    <3>1. Wsps(m, 0) = Ok(e) /\ Ok(e).v = "ok" /\ Ok(e).i = e
      BY <1>3, <1>6, Constants
    <3> QED
      BY <3>1 DEF Fws, Then
  <2>3. ending = IF Ch(m, e) = "\r"
               THEN IF e + 1 = n THEN More
                    ELSE IF Ch(m, e + 1) = "\n" THEN Ok(e + 2) ELSE Fail
               ELSE IF Ch(m, e) = "\n" THEN Ok(e + 1) ELSE Fail
    BY <1>6, <2>1, CrLfIs
  <2>4. ASSUME NEW k \in Nat, Blank(0, k) PROVE k <= e
    <3>1. ~At(m, e, Wsp)
      BY <2>1 DEF At
    <3>2. ~(k <= e) => e \in 0..(k - 1)
      BY <1>3
    <3> QED
      BY <2>4, <3>1, <3>2
  <2>5. ASSUME NEW k \in Nat, k <= e PROVE Blank(0, k)
    BY <1>3, <1>4, <2>5 DEF At
  <2>6. ASSUME NEW j \in Nat, Blank(0, j), Break(j) PROVE j = e
    <3>1. j <= e
      BY <2>4, <2>6
    <3>2. j < e => Ch(m, j) \in Wsp
      BY <1>4
    <3>3. Ch(m, j) \in {"\n", "\r"}
      BY <2>6 DEF At
    <3>4. ~(j < e)
      BY <3>2, <3>3 DEF Wsp
    <3> QED
      BY <1>3, <3>1, <3>4
  <2>7. Break(e) <=> ending.v = "ok"
    BY <2>1, <2>3, Constants DEF At
  <2>8. ending.v = "ok" => ending.i = Behind(e) /\ ending.i \in (e + 1)..n
    <3>1. CASE Ch(m, e) = "\r"
      <4>1. At(m, e, {"\r"})
        BY <2>1, <3>1 DEF At
      <4>2. ending.v = "ok" => ending = Ok(e + 2) /\ e + 1 # n
        BY <2>3, <3>1, Constants
      <4> HIDE DEF ending
      <4> QED
        BY <1>3, <2>1, <4>1, <4>2, Constants
    <3>2. CASE Ch(m, e) # "\r"
      <4>1. ~At(m, e, {"\r"})
        BY <3>2 DEF At
      <4>2. ending.v = "ok" => ending = Ok(e + 1)
        BY <2>3, <3>2, Constants
      <4> HIDE DEF ending
      <4> QED
        BY <1>3, <2>1, <4>1, <4>2, Constants
    <3> QED
      BY <3>1, <3>2
  <2>9. ASSUME \A k \in ends : k <= e PROVE now = unfolded => Right
    <3>1. ASSUME e > 0 PROVE e \in ends
      <4>1. Blank(0, e) /\ e \in 1..n
        BY <1>3, <2>5, <3>1
      <4> QED
        BY <4>1
    <3>2. CASE e > 0
      <4>1. unfolded = Ok(e) /\ Ok(e).v = "ok" /\ Ok(e).i = e
        BY <3>2, Constants
      <4> HIDE DEF ends
      <4> QED
        BY <2>9, <3>1, <3>2, <4>1
    <3>3. CASE ~(e > 0)
      <4>1. unfolded = Fail /\ Fail.v = "parse"
        BY <3>3, Constants
      <4>2. ends = {}
        <5>1. e = 0 /\ ends \subseteq 1..n
          BY <1>3, <3>3
        <5> HIDE DEF ends
        <5> QED
          BY <2>9, <5>1
      <4> HIDE DEF ends
      <4> QED
        BY <4>1, <4>2
    <3> QED
      BY <3>2, <3>3
  <2>10. CASE ending.v = "parse"
    <3>1. now = unfolded
      BY <2>2, <2>10
    <3>2. ASSUME NEW k \in ends PROVE k <= e
      <4>1. k \in 1..n /\ k \in Nat
        OBVIOUS
      <4>2. CASE Blank(0, k)
        BY <2>4, <4>1, <4>2
      <4>3. CASE \E j \in 0..(k - 1) : Blank(0, j) /\ Break(j)
        BY <2>6, <2>7, <2>10, <4>3
      <4> QED
        BY <4>2, <4>3
    <3> HIDE DEF ends
    <3> QED
      BY <2>9, <3>1, <3>2
  <2>11. CASE ending.v = "cont"
    <3>1. now = ending
      BY <2>2, <2>11 DEF AndThen
    <3> HIDE DEF ends, ending
    <3> QED
      BY <2>11, <3>1
  <2>12. CASE ending.v = "ok"
    <3> DEFINE b == ending.i
    <3>1. b = Behind(e) /\ b \in (e + 1)..n /\ b \in Indices(m) /\ Break(e)
      BY <1>3, <2>7, <2>8, <2>12 DEF Indices
    <3> HIDE DEF b
    <3>2. PICK f \in b..n : IsBlankEnd(m, b, f) /\ Wsps(m, b) = IF f = n THEN More ELSE Ok(f)
      BY <3>1, WspsIs
    <3>3. folded = Wsps(m, b)
      BY DEF b
    <3>4. now = IF folded = Ok(b) THEN unfolded ELSE folded
      <4>1. now = IF folded = Ok(b) THEN unfolded ELSE AndThen(ending, folded)
        BY <2>2, <2>12 DEF b
      <4>2. AndThen(ending, folded) = folded
        BY <2>12 DEF AndThen
      <4> QED
        BY <4>1, <4>2
    <3>5. ASSUME NEW k \in ends PROVE k <= e \/ (b < k /\ Blank(b, k))
      <4>1. k \in 1..n /\ k \in Nat
        OBVIOUS
      <4>2. CASE Blank(0, k)
        BY <2>4, <4>1, <4>2
      <4>3. CASE \E j \in 0..(k - 1) : Blank(0, j) /\ Break(j) /\ Behind(j) < k /\ Blank(Behind(j), k)
        <5>1. PICK j \in 0..(k - 1) : Blank(0, j) /\ Break(j) /\ Behind(j) < k /\ Blank(Behind(j), k)
          BY <4>3
        <5>2. j = e
          BY <2>6, <5>1
        <5> QED
          BY <3>1, <5>1, <5>2
      <4> QED
        BY <4>2, <4>3
    <3>6. ASSUME NEW k \in Nat, b < k, Blank(b, k) PROVE k <= f /\ b < f
      <4>1. ~(k <= f) => f \in b..(k - 1) /\ f < n
        <5>1. ~(k <= f) => f \in b..(k - 1)
          BY <3>2, <3>6
        <5>2. f \in b..(k - 1) => At(m, f, Wsp)
          BY <3>6
        <5> QED
          BY <5>1, <5>2 DEF At
      <4>2. f < n => ~At(m, f, Wsp)
        BY <3>2 DEF IsBlankEnd, At
      <4>3. f \in b..(k - 1) => At(m, f, Wsp)
        BY <3>6
      <4> QED
        BY <3>1, <3>2, <3>6, <4>1, <4>2, <4>3
    <3>7. CASE f = n
      <4>1. folded = More /\ More # Ok(b)
        BY <3>2, <3>3, <3>7, Constants
      <4> HIDE DEF ends, folded, ending
      <4> QED
        BY <3>4, <4>1, Constants
    <3>8. CASE f # n /\ f = b
      <4>1. now = unfolded
        BY <3>2, <3>3, <3>4, <3>8
      <4>2. \A k \in ends : k <= e
        <5>1. \A k \in ends : k \in Nat
          OBVIOUS
        <5>2. ASSUME NEW k \in ends, b < k, Blank(b, k) PROVE FALSE
          <6>1. b < f
            BY <3>6, <5>1, <5>2
          <6> QED
            BY <3>1, <3>8, <6>1
        <5> HIDE DEF ends, Blank
        <5> QED
          BY <3>5, <5>2
      <4> HIDE DEF ends, ending
      <4> QED
        BY <2>9, <4>1, <4>2
    <3>9. CASE f # n /\ f # b
      <4>1. folded = Ok(f) /\ Ok(f).v = "ok" /\ Ok(f).i = f /\ Ok(b).i = b
        BY <3>2, <3>3, <3>9, Constants
      <4>2. now = Ok(f)
        BY <3>4, <3>9, <4>1
      <4>3. \A k \in b..(f - 1) : k < n /\ Ch(m, k) \in Wsp
        BY <3>1, <3>2 DEF IsBlankEnd
      <4>4. f \in ends
        <5>1. e \in 0..(f - 1) /\ Behind(e) < f /\ f \in 1..n
          BY <1>3, <3>1, <3>2, <3>9
        <5>2. Blank(b, f)
          BY <4>3 DEF At
        <5>3. Blank(0, e)
          BY <1>3, <2>5
        <5> QED
          BY <3>1, <5>1, <5>2, <5>3
      <4>5. \A k \in ends : k <= f
        <5>1. \A k \in ends : k \in Nat
          OBVIOUS
        <5>2. e <= f
          BY <1>3, <3>1, <3>2
        <5> HIDE DEF ends
        <5> QED
          BY <1>3, <3>2, <3>5, <3>6, <5>1, <5>2
      <4> HIDE DEF ends
      <4> QED
        BY <4>1, <4>2, <4>4, <4>5
    <3> QED
      BY <3>7, <3>8, <3>9
  <2>13. ending.v \in {"ok", "parse", "cont"}
    BY <2>3, Constants
  <2> QED
    BY <2>10, <2>11, <2>12, <2>13
<1> QED
  BY <1>5, <1>6

-----------------------------------------------------------------------------
(***************************************************************************)
(* Comments are those of the grammar.                                      *)
(***************************************************************************)
\* How deep in comments a text is after each of its characters.
Nesting(m) ==
    CHOOSE d : d = [k \in 0..Len(m) |->
        IF k = 0 THEN [deep |-> 0, quoted |-> FALSE]
        ELSE LET c == Ch(m, k - 1)
                 p == d[k - 1]
             IN IF p.deep < 0 \/ (k > 1 /\ p.deep = 0) THEN [deep |-> -1, quoted |-> FALSE]
                ELSE IF p.quoted THEN [deep |-> p.deep, quoted |-> FALSE]
                ELSE CASE c = "(" -> [deep |-> p.deep + 1, quoted |-> FALSE]
                       [] c = ")" -> [deep |-> p.deep - 1, quoted |-> FALSE]
                       [] OTHER -> [deep |-> IF p.deep = 0 THEN -1 ELSE p.deep, quoted |-> c = "\\"]]

LEMMA DeepIs == \A m : Deep(m) = [k \in 0..Len(m) |-> Nesting(m)[k].deep]
  BY DEF Deep, Nesting

\* How deep it is behind the k-th character c, when it was at p in front of it.
Deeper(p, c, k) ==
    IF p.deep < 0 \/ (k > 1 /\ p.deep = 0) THEN [deep |-> -1, quoted |-> FALSE]
    ELSE IF p.quoted THEN [deep |-> p.deep, quoted |-> FALSE]
    ELSE CASE c = "(" -> [deep |-> p.deep + 1, quoted |-> FALSE]
           [] c = ")" -> [deep |-> p.deep - 1, quoted |-> FALSE]
           [] OTHER -> [deep |-> IF p.deep = 0 THEN -1 ELSE p.deep, quoted |-> c = "\\"]

LEMMA NestingDefined ==
    ASSUME NEW m, Len(m) \in Nat
    PROVE  /\ Nesting(m)[0] = [deep |-> 0, quoted |-> FALSE]
           /\ \A k \in 1..Len(m) : Nesting(m)[k] = Deeper(Nesting(m)[k - 1], Ch(m, k - 1), k)
<1> DEFINE n == Len(m)
           Body(g, j) == IF j = 0 THEN [deep |-> 0, quoted |-> FALSE]
                         ELSE Deeper(g[j - 1], Ch(m, j - 1), j)
           Solves(g, k) == g = [j \in 0..n |-> g[j]] /\ \A j \in 0..k : g[j] = Body(g, j)
           Unsolved == {k \in 0..n : ~ \E g : Solves(g, k)}
<1>1. Unsolved = {}
  <2> SUFFICES ASSUME Unsolved # {} PROVE FALSE
    OBVIOUS
  <2>1. PICK k \in Unsolved : \A l \in Unsolved : k <= l
    <3>1. Unsolved \subseteq Nat
      OBVIOUS
    <3> HIDE DEF Unsolved
    <3> QED
      BY <3>1, LeastOf
  <2>2. CASE k = 0
    <3>1. Solves([j \in 0..n |-> Body(<<>>, 0)], k)
      BY <2>2
    <3> QED
      BY <3>1, <2>1
  <2>3. CASE k # 0
    <3>1. k - 1 \in 0..n /\ ~(k <= k - 1) /\ k \in 0..n /\ k \in Nat
      BY <2>1, <2>3
    <3>2. PICK g : Solves(g, k - 1)
      BY <2>1, <3>1
    <3> DEFINE h == [j \in 0..n |-> IF j = k THEN Body(g, k) ELSE g[j]]
    <3>3. ASSUME NEW j \in 0..k PROVE h[j] = Body(h, j)
      <4>1. j \in 0..n /\ (j - 1 \in 0..n \/ j = 0) /\ j - 1 # k
        BY <3>1
      <4>2. j # 0 => h[j - 1] = g[j - 1]
        BY <4>1
      <4>3. Body(h, j) = Body(g, j)
        <5> HIDE DEF h
        <5> QED
          BY <4>2
      <4>4. CASE j = k
        <5>1. h[j] = Body(g, j)
          BY <4>1, <4>4
        <5> HIDE DEF h, Body
        <5> QED
          BY <4>3, <5>1
      <4>5. CASE j # k
        <5>1. j \in 0..(k - 1)
          BY <4>5, <3>1
        <5>2. h[j] = g[j] /\ g[j] = Body(g, j)
          BY <3>2, <4>1, <4>5, <5>1
        <5> HIDE DEF h, Body
        <5> QED
          BY <4>3, <5>2
      <4> QED
        BY <4>4, <4>5
    <3>4. h = [j \in 0..n |-> h[j]]
      OBVIOUS
    <3>5. Solves(h, k)
      <4> HIDE DEF h
      <4> QED
        BY <3>3, <3>4
    <3> QED
      BY <3>5, <2>1
  <2> QED
    BY <2>2, <2>3
<1>2. PICK g : Solves(g, n)
  <2>1. n \in 0..n
    OBVIOUS
  <2> QED
    BY <1>1, <2>1
<1>3. g = [j \in 0..n |-> Body(g, j)]
  BY <1>2
<1>4. Nesting(m) = [j \in 0..n |-> Body(Nesting(m), j)]
  BY <1>3 DEF Nesting, Deeper
<1>5. \A k \in 1..n : k \in 0..n /\ k # 0
  OBVIOUS
<1>6. 0 \in 0..n
  OBVIOUS
<1> QED
  BY <1>4, <1>5, <1>6

Depth(p) == p = [deep |-> p.deep, quoted |-> p.quoted] /\ p.deep \in Int /\ p.quoted \in BOOLEAN

LEMMA DepthOf == \A x \in Int, q \in BOOLEAN : Depth([deep |-> x, quoted |-> q])
  BY DEF Depth

LEMMA DeeperDepth ==
    ASSUME NEW p, Depth(p), NEW c, NEW k \in Nat
    PROVE  Depth(Deeper(p, c, k))
<1>1. CASE p.deep < 0 \/ (k > 1 /\ p.deep = 0)
  <2>1. Deeper(p, c, k) = [deep |-> -1, quoted |-> FALSE]
    BY <1>1 DEF Deeper
  <2> QED
    BY <2>1 DEF Depth
<1>2. CASE ~(p.deep < 0 \/ (k > 1 /\ p.deep = 0)) /\ p.quoted
  <2>1. Deeper(p, c, k) = [deep |-> p.deep, quoted |-> FALSE]
    BY <1>2 DEF Deeper
  <2> QED
    BY <2>1 DEF Depth
<1>3. CASE ~(p.deep < 0 \/ (k > 1 /\ p.deep = 0)) /\ ~p.quoted
  <2>1. c = "(" => Deeper(p, c, k) = [deep |-> p.deep + 1, quoted |-> FALSE]
    BY <1>3 DEF Deeper
  <2>2. c = ")" => Deeper(p, c, k) = [deep |-> p.deep - 1, quoted |-> FALSE]
    BY <1>3 DEF Deeper
  <2>3. c \notin {"(", ")"} =>
          Deeper(p, c, k) = [deep |-> IF p.deep = 0 THEN -1 ELSE p.deep, quoted |-> c = "\\"]
    BY <1>3 DEF Deeper
  <2>4. CASE c = "("
    <3>1. p.deep + 1 \in Int
      BY DEF Depth
    <3> QED
      BY <2>1, <2>4, <1>3, <3>1, DepthOf
  <2>5. CASE c = ")"
    <3>1. p.deep - 1 \in Int
      BY DEF Depth
    <3> QED
      BY <2>2, <2>5, <1>3, <3>1, DepthOf
  <2>6. CASE c \notin {"(", ")"}
    <3> DEFINE x == IF p.deep = 0 THEN -1 ELSE p.deep
               q == c = "\\"
    <3>1. x \in Int /\ q \in BOOLEAN
      BY DEF Depth
    <3>2. Deeper(p, c, k) = [deep |-> x, quoted |-> q]
      BY <2>3, <2>6
    <3> HIDE DEF x, q
    <3> QED
      BY <3>1, <3>2 DEF Depth
  <2> QED
    BY <2>4, <2>5, <2>6
<1> QED
  BY <1>1, <1>2, <1>3

LEMMA NestingDepth ==
    ASSUME NEW m, Len(m) \in Nat, NEW k \in 0..Len(m)
    PROVE  Depth(Nesting(m)[k])
<1> DEFINE Bad == {l \in 0..Len(m) : ~Depth(Nesting(m)[l])}
<1>1. Bad = {}
  <2> SUFFICES ASSUME Bad # {} PROVE FALSE
    OBVIOUS
  <2>1. PICK l \in Bad : \A j \in Bad : l <= j
    <3>1. Bad \subseteq Nat
      OBVIOUS
    <3> HIDE DEF Bad
    <3> QED
      BY <3>1, LeastOf
  <2>2. CASE l = 0
    <3>1. Depth(Nesting(m)[0])
      <4>1. 0 \in Int /\ FALSE \in BOOLEAN
        OBVIOUS
      <4>2. Depth([deep |-> 0, quoted |-> FALSE])
        BY <4>1, DepthOf
      <4> QED
        BY <4>2, NestingDefined
    <3> QED
      BY <2>1, <2>2, <3>1
  <2>3. CASE l # 0
    <3>1. l \in 1..Len(m) /\ l \in Nat /\ l - 1 \in 0..Len(m) /\ ~(l <= l - 1)
      BY <2>3
    <3>2. Depth(Nesting(m)[l - 1])
      BY <2>1, <3>1
    <3>3. Nesting(m)[l] = Deeper(Nesting(m)[l - 1], Ch(m, l - 1), l)
      BY <3>1, NestingDefined
    <3> QED
      BY <2>1, <3>1, <3>2, <3>3, DeeperDepth
  <2> QED
    BY <2>2, <2>3
<1> QED
  BY <1>1

\* Once a text cannot begin a comment, or is behind one, it stays so.
LEMMA AstrayForEver ==
    ASSUME NEW m, Len(m) \in Nat, NEW k \in 1..Len(m), Nesting(m)[k].deep <= 0
    PROVE  \A l \in (k + 1)..Len(m) : Nesting(m)[l].deep = -1
<1> DEFINE Bad == {l \in (k + 1)..Len(m) : Nesting(m)[l].deep # -1}
<1>1. Bad = {}
  <2> SUFFICES ASSUME Bad # {} PROVE FALSE
    OBVIOUS
  <2>1. PICK l \in Bad : \A j \in Bad : l <= j
    <3>1. Bad \subseteq Nat
      OBVIOUS
    <3> HIDE DEF Bad
    <3> QED
      BY <3>1, LeastOf
  <2>2. l \in 1..Len(m) /\ l > 1 /\ l - 1 \in 0..Len(m) /\ ~(l <= l - 1) /\ (l - 1 = k \/ l - 1 \in (k + 1)..Len(m))
    OBVIOUS
  <2>3. Nesting(m)[l - 1].deep <= 0
    BY <2>1, <2>2
  <2>4. Nesting(m)[l - 1].deep < 0 \/ Nesting(m)[l - 1].deep = 0
    <3>1. Nesting(m)[l - 1].deep \in Int
      BY <2>2, NestingDepth DEF Depth
    <3> QED
      BY <2>3, <3>1
  <2>5. Nesting(m)[l] = Deeper(Nesting(m)[l - 1], Ch(m, l - 1), l)
    BY <2>2, NestingDefined
  <2>6. Nesting(m)[l] = [deep |-> -1, quoted |-> FALSE]
    BY <2>2, <2>4, <2>5 DEF Deeper
  <2> QED
    BY <2>6
<1> QED
  BY <1>1

\* Inside a comment of depth D: what a character does.
LEMMA DeeperInside ==
    ASSUME NEW m, Len(m) \in Nat, NEW D \in Nat \ {0}, NEW k \in 0..(Len(m) - 1),
           NEW q \in BOOLEAN, Nesting(m)[k] = [deep |-> D, quoted |-> q]
    PROVE  /\ q => Nesting(m)[k + 1] = [deep |-> D, quoted |-> FALSE]
           /\ ~q /\ Ch(m, k) = "(" => Nesting(m)[k + 1] = [deep |-> D + 1, quoted |-> FALSE]
           /\ ~q /\ Ch(m, k) = ")" => Nesting(m)[k + 1] = [deep |-> D - 1, quoted |-> FALSE]
           /\ ~q /\ Ch(m, k) = "\\" => Nesting(m)[k + 1] = [deep |-> D, quoted |-> TRUE]
           /\ ~q /\ Ch(m, k) \notin {"(", ")", "\\"} => Nesting(m)[k + 1] = [deep |-> D, quoted |-> FALSE]
           /\ Nesting(m)[k + 1].deep >= D - 1
<1> DEFINE p == Nesting(m)[k]
           c == Ch(m, k)
<1>1. k + 1 \in 1..Len(m) /\ (k + 1) - 1 = k
  OBVIOUS
<1>2. Nesting(m)[k + 1] = Deeper(p, c, k + 1)
  BY <1>1, NestingDefined
<1>3. ~(p.deep < 0 \/ (k + 1 > 1 /\ p.deep = 0)) /\ p.deep = D /\ p.quoted = q /\ D # 0
  OBVIOUS
<1> HIDE DEF p, c
<1>4. q => Deeper(p, c, k + 1) = [deep |-> D, quoted |-> FALSE]
  BY <1>3 DEF Deeper
<1>5. ~q /\ c = "(" => Deeper(p, c, k + 1) = [deep |-> D + 1, quoted |-> FALSE]
  BY <1>3 DEF Deeper
<1>6. ~q /\ c = ")" => Deeper(p, c, k + 1) = [deep |-> D - 1, quoted |-> FALSE]
  BY <1>3 DEF Deeper
<1>7. ~q /\ c \notin {"(", ")"} => Deeper(p, c, k + 1) = [deep |-> D, quoted |-> c = "\\"]
  BY <1>3 DEF Deeper
<1>8. c = "\\" => c \notin {"(", ")"} /\ (c = "\\") = TRUE
  OBVIOUS
<1>9. c \notin {"(", ")", "\\"} => c \notin {"(", ")"} /\ (c = "\\") = FALSE
  OBVIOUS
<1>10. ~q /\ c = "\\" => Deeper(p, c, k + 1) = [deep |-> D, quoted |-> TRUE]
  BY <1>7, <1>8
<1>11. ~q /\ c \notin {"(", ")", "\\"} => Deeper(p, c, k + 1) = [deep |-> D, quoted |-> FALSE]
  BY <1>7, <1>9
<1>12. Deeper(p, c, k + 1).deep \in {D, D + 1, D - 1}
  <2>1. q \/ (~q /\ c = "(") \/ (~q /\ c = ")") \/ (~q /\ c \notin {"(", ")"})
    OBVIOUS
  <2> QED
    BY <1>4, <1>5, <1>6, <1>7, <2>1
<1>13. Deeper(p, c, k + 1).deep >= D - 1
  BY <1>12
<1> QED
  BY <1>2, <1>4, <1>5, <1>6, <1>10, <1>11, <1>13 DEF c

\* Texts without line breaks.
Unbroken(m) == \A k \in 0..(Len(m) - 1) : Ch(m, k) \notin {"\r", "\n"}

LEMMA WhiteIs ==
    ASSUME NEW m, Len(m) \in Nat, Unbroken(m), NEW i \in Indices(m)
    PROVE  \E e \in i..Len(m) : /\ IsBlankEnd(m, i, e)
                                /\ Opt(Fws(m, i), i) = IF e = Len(m) THEN More ELSE Ok(e)
<1>1. PICK e \in i..Len(m) : IsBlankEnd(m, i, e) /\ Wsps(m, i) = IF e = Len(m) THEN More ELSE Ok(e)
  BY WspsIs
<1>2. CASE e = Len(m)
  <2>1. Wsps(m, i) = More
    BY <1>1, <1>2
  <2>2. Fws(m, i) = More
    BY <2>1 DEF Fws, Then, More
  <2>3. Opt(Fws(m, i), i) = More
    BY <2>2 DEF Opt, Else, More
  <2> QED
    BY <1>1, <1>2, <2>3
<1>3. CASE e # Len(m)
  <2>1. e \in 0..(Len(m) - 1) /\ e \in Indices(m) /\ i \in Nat
    BY <1>1, <1>3 DEF Indices
  <2>2. Ch(m, e) \notin {"\r", "\n"}
    BY <2>1 DEF Unbroken
  <2>3. CrLf(m, e) = Fail
    BY <1>3, <2>1, <2>2, CrLfIs
  <2>4. Wsps(m, i) = Ok(e) /\ Ok(e).v = "ok" /\ Ok(e).i = e /\ CrLf(m, e).v = "parse"
    BY <1>1, <1>3, <2>3, Constants
  <2>5. Fws(m, i) = IF e > i THEN Ok(e) ELSE Fail
    BY <2>4 DEF Fws, Then
  <2>6. Opt(Ok(e), i) = Ok(e) /\ Opt(Fail, i) = Ok(i)
    BY DEF Opt, Else, Ok, Fail
  <2>7. ~(e > i) => e = i
    BY <1>1, <2>1
  <2> QED
    BY <1>1, <1>3, <2>5, <2>6, <2>7
<1> QED
  BY <1>2, <1>3

\* A turn inside a comment, its white space ended at the character c at e.
LEMMA InsideIs ==
    ASSUME NEW m, Len(m) \in Nat, NEW j \in Indices(m), NEW e \in j..(Len(m) - 1),
           Opt(Fws(m, j), j) = Ok(e), NEW c, c = Ch(m, e),
           NEW in, in = Inside(m)
    PROVE  /\ c \notin NotCtext => in[j] = in[e + 1]
           /\ c \in NotCtext /\ e + 1 = Len(m) => in[j] = IF e = j THEN Spin ELSE in[e]
           /\ c = "\\" /\ e + 1 < Len(m) => in[j] = in[e + 2]
           /\ c = ")" /\ e + 1 < Len(m) => in[j] = Ok(e + 1)
           /\ c \in NotCtext \ {"(", ")", "\\"} /\ e + 1 < Len(m) => in[j] = Fail
           /\ c = "(" /\ e + 1 < Len(m) =>
                /\ in[e + 1].v = "ok" /\ in[e + 1].i # j => in[j] = in[in[e + 1].i]
                /\ in[e + 1].v = "cont" => in[j] = IF e = j THEN Spin ELSE in[e]
                /\ in[e + 1].v = "spin" => in[j] = in[e + 1]
                /\ in[e + 1].v = "parse" => in[j] = Fail
<1> DEFINE open == Char(m, e, "(")
           nested == IF open.v = "ok" THEN in[open.i] ELSE open
           content == Ccontent(m, e, nested)
           pair == Else(QuotedPair(m, e), nested)
<1>1. ~(e >= Len(m)) /\ e \in Nat /\ j \in Nat
  BY DEF Indices
<1>2. open = IF c = "(" THEN Ok(e + 1) ELSE Fail
  BY <1>1 DEF Char
<1>3. nested = IF c = "(" THEN in[e + 1] ELSE Fail
  <2> HIDE DEF open
  <2> QED
    BY <1>2, Constants
<1>4. in[j] = IF content.v = "parse" THEN Char(m, e, ")")
              ELSE IF content.v = "ok" THEN IF content.i = j THEN Spin ELSE in[content.i]
              ELSE content
  <2>1. in[j] = CommentTurn(m, in, j)
    <3> DEFINE g == Inside(m)
    <3>1. g = [l \in Indices(m) |-> CommentTurn(m, g, l)]
      BY InsideDefined
    <3> HIDE DEF g
    <3>2. g[j] = CommentTurn(m, g, j)
      BY <3>1
    <3> QED
      BY <3>2 DEF g
  <2>2. Ok(e).v = "ok" /\ Ok(e).i = e
    BY Constants
  <2>3. Then(Ok(e), LAMBDA k : Char(m, k, ")")) = Char(m, e, ")")
    BY <2>2 DEF Then
  <2> DEFINE Nested(k) == Then(Char(m, k, "("), LAMBDA l : in[l])
             whole == Then(Ok(e), LAMBDA k : Ccontent(m, k, Nested(k)))
  <2>4. whole = content
    <3>1. whole = Ccontent(m, e, Nested(e))
      BY <2>2 DEF Then
    <3>2. Nested(e) = nested
      BY DEF Then
    <3> QED
      BY <3>1, <3>2
  <2>5. CommentTurn(m, in, j) =
          CASE whole.v = "parse" -> Then(Ok(e), LAMBDA k : Char(m, k, ")"))
            [] whole.v = "ok" -> IF whole.i = j THEN Spin ELSE in[whole.i]
            [] OTHER -> whole
    BY DEF CommentTurn
  <2> HIDE DEF whole, content
  <2> QED
    BY <2>1, <2>3, <2>4, <2>5
<1>5. content = IF c \notin NotCtext THEN Ok(e + 1) ELSE IF pair.v = "cont" THEN Ok(e) ELSE pair
  BY <1>1 DEF Ccontent
<1> HIDE DEF open, nested, content
<1>6. ASSUME c \notin NotCtext PROVE in[j] = in[e + 1]
  <2>1. content = Ok(e + 1) /\ e + 1 # j
    BY <1>1, <1>5, <1>6
  <2> QED
    BY <1>4, <2>1, Constants
<1>7. ASSUME content = Ok(e) PROVE in[j] = IF e = j THEN Spin ELSE in[e]
  BY <1>4, <1>7, Constants
<1>8. ASSUME c \in NotCtext, e + 1 = Len(m) PROVE in[j] = IF e = j THEN Spin ELSE in[e]
  <2>1. QuotedPair(m, e) = More
    BY <1>1, <1>8 DEF QuotedPair
  <2>2. pair = More
    BY <2>1 DEF Else, More
  <2> HIDE DEF pair
  <2> QED
    BY <1>5, <1>7, <1>8, <2>2, Constants
<1>9. ASSUME c = "\\", e + 1 < Len(m) PROVE in[j] = in[e + 2]
  <2>1. ~(e + 1 >= Len(m)) /\ e + 2 # j
    BY <1>1, <1>9
  <2>2. QuotedPair(m, e) = Got(e + 2, <<Ch(m, e + 1)>>)
    BY <1>9, <2>1 DEF QuotedPair
  <2>3. pair = Got(e + 2, <<Ch(m, e + 1)>>)
    BY <2>2 DEF Else, Got
  <2>4. c \in NotCtext
    BY <1>9 DEF NotCtext
  <2>5. content.v = "ok" /\ content.i = e + 2
    <3> HIDE DEF pair
    <3> QED
      BY <1>5, <2>3, <2>4, Constants
  <2> QED
    BY <1>4, <2>1, <2>5
<1>10. ASSUME c \in NotCtext, c # "\\", e + 1 < Len(m)
       PROVE  content = IF nested.v = "cont" THEN Ok(e) ELSE nested
  <2>1. ~(e + 1 >= Len(m))
    BY <1>1, <1>10
  <2>2. QuotedPair(m, e) = Fail
    BY <1>10, <2>1 DEF QuotedPair
  <2>3. pair = nested
    BY <2>2 DEF Else, Fail
  <2> HIDE DEF pair
  <2> QED
    BY <1>5, <1>10, <2>3
<1>11. ASSUME c = ")", e + 1 < Len(m) PROVE in[j] = Ok(e + 1)
  <2>1. nested = Fail
    BY <1>3, <1>11
  <2>2. c \in NotCtext /\ c # "\\"
    BY <1>11 DEF NotCtext
  <2>4. content = Fail
    BY <1>10, <1>11, <2>1, <2>2, Constants
  <2>3. Char(m, e, ")") = Ok(e + 1)
    BY <1>1, <1>11 DEF Char
  <2> QED
    BY <1>4, <2>3, <2>4, Constants
<1>12. ASSUME c = "(", e + 1 < Len(m)
       PROVE  /\ in[e + 1].v = "ok" /\ in[e + 1].i # j => in[j] = in[in[e + 1].i]
              /\ in[e + 1].v = "cont" => in[j] = IF e = j THEN Spin ELSE in[e]
              /\ in[e + 1].v = "spin" => in[j] = in[e + 1]
              /\ in[e + 1].v = "parse" => in[j] = Fail
  <2>1. nested = in[e + 1]
    BY <1>3, <1>12
  <2>2. c \in NotCtext /\ c # "\\"
    BY <1>12 DEF NotCtext
  <2>3. content = IF in[e + 1].v = "cont" THEN Ok(e) ELSE in[e + 1]
    BY <1>10, <1>12, <2>1, <2>2
  <2>4. Char(m, e, ")") = Fail
    BY <1>1, <1>12 DEF Char
  <2> QED
    BY <1>4, <1>7, <2>3, <2>4
<1>13. ASSUME c \in NotCtext \ {"(", ")", "\\"}, e + 1 < Len(m) PROVE in[j] = Fail
  <2>1. nested = Fail
    BY <1>3, <1>13
  <2>2. content = Fail
    BY <1>10, <1>13, <2>1, Constants
  <2>3. Char(m, e, ")") = Fail
    BY <1>1, <1>13 DEF Char
  <2> QED
    BY <1>4, <2>2, <2>3, Constants
<1> QED
  BY <1>6, <1>8, <1>9, <1>11, <1>12, <1>13

\* White space changes nothing of how deep a text is.
LEMMA BlanksKeep ==
    ASSUME NEW m, Len(m) \in Nat, NEW D \in Nat \ {0}, NEW j \in 0..Len(m),
           Nesting(m)[j] = [deep |-> D, quoted |-> FALSE],
           NEW e \in j..Len(m), \A k \in j..(e - 1) : Ch(m, k) \in Wsp
    PROVE  \A l \in j..e : Nesting(m)[l] = [deep |-> D, quoted |-> FALSE]
<1> DEFINE Bad == {l \in j..e : Nesting(m)[l] # [deep |-> D, quoted |-> FALSE]}
<1>1. Bad = {}
  <2> SUFFICES ASSUME Bad # {} PROVE FALSE
    OBVIOUS
  <2>1. PICK l \in Bad : \A k \in Bad : l <= k
    <3>1. Bad \subseteq Nat
      OBVIOUS
    <3> HIDE DEF Bad
    <3> QED
      BY <3>1, LeastOf
  <2>2. l # j
    BY <2>1
  <2>3. l - 1 \in j..e /\ ~(l <= l - 1) /\ l - 1 \in j..(e - 1) /\ l - 1 \in 0..(Len(m) - 1) /\ (l - 1) + 1 = l
    BY <2>2
  <2>4. Nesting(m)[l - 1] = [deep |-> D, quoted |-> FALSE]
    BY <2>1, <2>3
  <2>5. Ch(m, l - 1) \notin {"(", ")", "\\"}
    <3>1. Ch(m, l - 1) \in Wsp
      BY <2>3
    <3> QED
      BY <3>1 DEF Wsp
  <2>6. Nesting(m)[(l - 1) + 1] = [deep |-> D, quoted |-> FALSE]
    BY <2>3, <2>4, <2>5, DeeperInside
  <2> QED
    BY <2>1, <2>3, <2>6
<1> QED
  BY <1>1

\* The answer from j on, where the text is D deep: the comment's end, or
\* nothing where it has no end but the text's.
Closes(m, j, D) ==
    LET r == Inside(m)[j]
    IN /\ r.v \in {"ok", "cont", "spin"}
       /\ r.v = "ok" =>
            /\ r.i \in (j + 1)..(Len(m) - 1)
            /\ Nesting(m)[r.i] = [deep |-> D - 1, quoted |-> FALSE]
            /\ \A l \in j..(r.i - 1) : Nesting(m)[l].deep >= D
       /\ r.v # "ok" =>
            /\ \A l \in j..(Len(m) - 1) : Nesting(m)[l].deep >= D
            /\ Nesting(m)[Len(m)].deep >= D - 1

LEMMA ClosesLater ==
    ASSUME NEW m, Len(m) \in Nat, NEW D \in Nat \ {0}, NEW j \in 1..Len(m), NEW x \in (j + 1)..Len(m),
           \A l \in j..(x - 1) : Nesting(m)[l].deep >= D,
           Closes(m, x, D), Inside(m)[j] = Inside(m)[x]
    PROVE  Closes(m, j, D)
<1> DEFINE r == Inside(m)[x]
           N == Nesting(m)
<1>1. /\ r.v \in {"ok", "cont", "spin"}
      /\ r.v = "ok" => /\ r.i \in (x + 1)..(Len(m) - 1)
                       /\ N[r.i] = [deep |-> D - 1, quoted |-> FALSE]
                       /\ \A l \in x..(r.i - 1) : N[l].deep >= D
      /\ r.v # "ok" => /\ \A l \in x..(Len(m) - 1) : N[l].deep >= D
                       /\ N[Len(m)].deep >= D - 1
  BY DEF Closes
<1>2. \A l \in j..(x - 1) : N[l].deep >= D
  OBVIOUS
<1> HIDE DEF r, N
<1>3. r.v = "ok" => r.i \in (j + 1)..(Len(m) - 1) /\ \A l \in j..(r.i - 1) : N[l].deep >= D
  <2> SUFFICES ASSUME r.v = "ok"
               PROVE  r.i \in (j + 1)..(Len(m) - 1) /\ \A l \in j..(r.i - 1) : N[l].deep >= D
    OBVIOUS
  <2>1. r.i \in (x + 1)..(Len(m) - 1)
    BY <1>1
  <2>2. \A l \in j..(r.i - 1) : l \in j..(x - 1) \/ l \in x..(r.i - 1)
    BY <2>1
  <2> QED
    BY <1>1, <1>2, <2>1, <2>2
<1>4. r.v # "ok" => \A l \in j..(Len(m) - 1) : N[l].deep >= D
  <2>1. \A l \in j..(Len(m) - 1) : l \in j..(x - 1) \/ l \in x..(Len(m) - 1)
    OBVIOUS
  <2> QED
    BY <1>1, <1>2, <2>1
<1> QED
  BY <1>1, <1>3, <1>4 DEF Closes, r, N

LEMMA InsideCloses ==
    ASSUME NEW m, Len(m) \in Nat, Unbroken(m)
    PROVE  \A j \in 1..Len(m), D \in Nat \ {0} :
              Nesting(m)[j] = [deep |-> D, quoted |-> FALSE] => Closes(m, j, D)
<1> DEFINE n == Len(m)
           in == Inside(m)
           N == Nesting(m)
           Stands(j, D) == N[j] = [deep |-> D, quoted |-> FALSE]
           Bad == {j \in 1..n : \E D \in Nat \ {0} : Stands(j, D) /\ ~Closes(m, j, D)}
<1>1. Bad = {}
  <2> SUFFICES ASSUME Bad # {} PROVE FALSE
    OBVIOUS
  <2>1. PICK j \in Bad : \A k \in Bad : k <= j
    <3>1. Bad \subseteq 0..n
      OBVIOUS
    <3> HIDE DEF Bad
    <3> QED
      BY <3>1, LastOf
  <2>2. PICK D \in Nat \ {0} : Stands(j, D) /\ ~Closes(m, j, D)
    BY <2>1
  <2>3. j \in 1..n /\ j \in Indices(m) /\ j \in 0..n
    BY DEF Indices
  <2>4. ASSUME NEW x \in (j + 1)..n, NEW E \in Nat \ {0}, Stands(x, E) PROVE Closes(m, x, E)
    <3>1. x \in 1..n /\ ~(x <= j)
      BY <2>3
    <3> QED
      BY <2>1, <2>4, <3>1
  <2>5. PICK e \in j..n : IsBlankEnd(m, j, e) /\ Opt(Fws(m, j), j) = IF e = n THEN More ELSE Ok(e)
    BY <2>3, WhiteIs
  <2>6. \A l \in j..e : Stands(l, D)
    <3>1. \A k \in j..(e - 1) : Ch(m, k) \in Wsp
      BY <2>5 DEF IsBlankEnd
    <3> QED
      BY <2>2, <2>3, <3>1, BlanksKeep
  <2>7. \A l \in j..e : N[l].deep >= D
    BY <2>6
  <2>8. ASSUME NEW x \in (j + 1)..n, \A l \in j..(x - 1) : N[l].deep >= D, Stands(x, D), in[j] = in[x]
        PROVE  FALSE
    <3>1. Closes(m, x, D)
      BY <2>4, <2>8
    <3>2. Closes(m, j, D)
      BY <2>3, <2>8, <3>1, ClosesLater
    <3> QED
      BY <2>2, <3>2
  <2>9. ASSUME in[j].v \in {"cont", "spin"}, \A l \in j..(n - 1) : N[l].deep >= D, N[n].deep >= D - 1
        PROVE  FALSE
    BY <2>2, <2>9 DEF Closes
  <2>10. CASE e = n
    <3>1. in[j] = More
      <4> DEFINE g == Inside(m)
      <4>1. g = [l \in Indices(m) |-> CommentTurn(m, g, l)]
        BY InsideDefined
      <4> HIDE DEF g
      <4>2. g[j] = CommentTurn(m, g, j)
        BY <2>3, <4>1
      <4>3. Opt(Fws(m, j), j) = More
        BY <2>5, <2>10
      <4>4. CommentTurn(m, g, j) = More
        BY <4>3 DEF CommentTurn, Then, More
      <4> QED
        BY <4>2, <4>4 DEF g
    <3>2. \A l \in j..(n - 1) : N[l].deep >= D
      BY <2>7, <2>10
    <3>3. N[n].deep >= D - 1
      <4>1. N[n].deep = D
        BY <2>3, <2>6, <2>10
      <4> QED
        BY <4>1
    <3> QED
      BY <2>9, <3>1, <3>2, <3>3, Constants
  <2>11. CASE e # n
    <3> DEFINE c == Ch(m, e)
    <3>1. e \in j..(n - 1) /\ e \in 0..(n - 1) /\ Opt(Fws(m, j), j) = Ok(e) /\ Stands(e, D) /\ e + 1 \in (j + 1)..n
      <4>1. Opt(Fws(m, j), j) = Ok(e)
        BY <2>5, <2>11
      <4>2. e \in j..e
        BY <2>3
      <4>3. e \in j..(n - 1) /\ e \in 0..(n - 1) /\ e + 1 \in (j + 1)..n
        BY <2>3, <2>5, <2>11
      <4> QED
        BY <2>6, <4>1, <4>2, <4>3
    <3>2. c \notin Wsp /\ c \notin {"\r", "\n"}
      BY <2>5, <3>1 DEF IsBlankEnd, Unbroken
    <3>3. /\ c \notin NotCtext => in[j] = in[e + 1]
          /\ c \in NotCtext /\ e + 1 = n => in[j] = IF e = j THEN Spin ELSE in[e]
          /\ c = "\\" /\ e + 1 < n => in[j] = in[e + 2]
          /\ c = ")" /\ e + 1 < n => in[j] = Ok(e + 1)
          /\ c = "(" /\ e + 1 < n =>
               /\ in[e + 1].v = "ok" /\ in[e + 1].i # j => in[j] = in[in[e + 1].i]
               /\ in[e + 1].v = "cont" => in[j] = IF e = j THEN Spin ELSE in[e]
               /\ in[e + 1].v = "spin" => in[j] = in[e + 1]
      BY <2>3, <3>1, InsideIs
    <3>4. /\ c = "(" => Stands(e + 1, D + 1)
          /\ c = ")" => Stands(e + 1, D - 1)
          /\ c = "\\" => N[e + 1] = [deep |-> D, quoted |-> TRUE]
          /\ c \notin {"(", ")", "\\"} => Stands(e + 1, D)
          /\ N[e + 1].deep >= D - 1
      <4>1. N[e] = [deep |-> D, quoted |-> FALSE] /\ FALSE \in BOOLEAN
        BY <3>1
      <4>2. Nesting(m)[e] = [deep |-> D, quoted |-> FALSE]
        BY <4>1
      <4>3. /\ Ch(m, e) = "(" => Nesting(m)[e + 1] = [deep |-> D + 1, quoted |-> FALSE]
            /\ Ch(m, e) = ")" => Nesting(m)[e + 1] = [deep |-> D - 1, quoted |-> FALSE]
            /\ Ch(m, e) = "\\" => Nesting(m)[e + 1] = [deep |-> D, quoted |-> TRUE]
            /\ Ch(m, e) \notin {"(", ")", "\\"} => Nesting(m)[e + 1] = [deep |-> D, quoted |-> FALSE]
            /\ Nesting(m)[e + 1].deep >= D - 1
        <5>1. e \in 0..(Len(m) - 1)
          BY <3>1
        <5> HIDE DEF N, Stands, c
        <5>2. Ch(m, e) = "(" => Nesting(m)[e + 1] = [deep |-> D + 1, quoted |-> FALSE]
          BY <4>1, <4>2, <5>1, DeeperInside
        <5>3. Ch(m, e) = ")" => Nesting(m)[e + 1] = [deep |-> D - 1, quoted |-> FALSE]
          BY <4>1, <4>2, <5>1, DeeperInside
        <5>4. Ch(m, e) = "\\" => Nesting(m)[e + 1] = [deep |-> D, quoted |-> TRUE]
          BY <4>1, <4>2, <5>1, DeeperInside
        <5>5. Ch(m, e) \notin {"(", ")", "\\"} => Nesting(m)[e + 1] = [deep |-> D, quoted |-> FALSE]
          BY <4>1, <4>2, <5>1, DeeperInside
        <5>6. Nesting(m)[e + 1].deep >= D - 1
          BY <4>1, <4>2, <5>1, DeeperInside
        <5> QED
          BY <5>2, <5>3, <5>4, <5>5, <5>6
      <4> QED
        BY <4>3
    <3> HIDE DEF in, N, c
    <3>5. CASE c \notin NotCtext
      <4>1. Stands(e + 1, D)
        BY <3>4, <3>5 DEF NotCtext
      <4>2. \A l \in j..((e + 1) - 1) : N[l].deep >= D
        BY <2>7, <3>1
      <4> HIDE DEF Stands
      <4> QED
        BY <2>8, <3>1, <3>3, <3>5, <4>1, <4>2
    <3>6. ASSUME in[j] = IF e = j THEN Spin ELSE in[e],
                 \A l \in j..(n - 1) : N[l].deep >= D, N[n].deep >= D - 1
          PROVE  FALSE
      <4>1. CASE e = j
        <5>1. in[j].v = "spin"
          BY <3>6, <4>1, Constants
        <5> QED
          BY <2>9, <3>6, <5>1
      <4>2. CASE e # j
        <5>1. e \in (j + 1)..n /\ in[j] = in[e]
          BY <3>1, <3>6, <4>2
        <5>2. \A l \in j..(e - 1) : N[l].deep >= D
          BY <2>7, <3>1
        <5> HIDE DEF Stands
        <5> QED
          BY <2>8, <3>1, <5>1, <5>2
      <4> QED
        BY <4>1, <4>2
    <3>7. CASE c \in NotCtext /\ e + 1 = n
      <4>1. \A l \in j..(n - 1) : N[l].deep >= D
        BY <2>7, <3>1, <3>7
      <4>2. N[n].deep >= D - 1
        BY <3>4, <3>7
      <4> QED
        BY <3>3, <3>6, <3>7, <4>1, <4>2
    <3>8. CASE c = "\\" /\ e + 1 < n
      <4>1. N[e + 1] = [deep |-> D, quoted |-> TRUE]
        BY <3>4, <3>8
      <4>2. e + 1 \in 0..(n - 1) /\ (e + 1) + 1 = e + 2 /\ e + 2 \in (j + 1)..n
        BY <3>1, <3>8
      <4>3. Stands(e + 2, D)
        <5>1. TRUE \in BOOLEAN
          OBVIOUS
        <5>2. N[(e + 1) + 1] = [deep |-> D, quoted |-> FALSE]
          BY <4>1, <4>2, <5>1, DeeperInside DEF N
        <5> QED
          BY <4>2, <5>2
      <4>4. \A l \in j..((e + 2) - 1) : N[l].deep >= D
        <5>1. \A l \in j..((e + 2) - 1) : l \in j..e \/ l = e + 1
          BY <3>1
        <5>2. N[e + 1].deep >= D
          BY <4>1
        <5> QED
          BY <2>7, <5>1, <5>2
      <4> HIDE DEF Stands
      <4> QED
        BY <2>8, <3>3, <3>8, <4>2, <4>3, <4>4
    <3>9. CASE c = ")" /\ e + 1 < n
      <4>1. in[j] = Ok(e + 1)
        BY <3>3, <3>9
      <4>2. in[j].v = "ok" /\ in[j].i = e + 1
        BY <4>1, Constants
      <4>3. e + 1 \in (j + 1)..(n - 1)
        BY <3>1, <3>9
      <4>4. N[e + 1] = [deep |-> D - 1, quoted |-> FALSE]
        BY <3>4, <3>9
      <4>5. \A l \in j..((e + 1) - 1) : N[l].deep >= D
        BY <2>7, <3>1
      <4>6. Closes(m, j, D)
        BY <4>2, <4>3, <4>4, <4>5 DEF Closes, in, N
      <4> QED
        BY <2>2, <4>6
    <3>10. CASE c = "(" /\ e + 1 < n
      <4> DEFINE r == in[e + 1]
      <4>1. D + 1 \in Nat \ {0} /\ (D + 1) - 1 = D
        OBVIOUS
      <4>2. Closes(m, e + 1, D + 1)
        <5>1. Stands(e + 1, D + 1)
          BY <3>4, <3>10
        <5> HIDE DEF Stands
        <5> QED
          BY <2>4, <3>1, <4>1, <5>1
      <4>3. /\ r.v \in {"ok", "cont", "spin"}
            /\ r.v = "ok" =>
                 /\ r.i \in (e + 2)..(n - 1)
                 /\ Stands(r.i, D)
                 /\ \A l \in (e + 1)..(r.i - 1) : N[l].deep >= D + 1
            /\ r.v # "ok" =>
                 /\ \A l \in (e + 1)..(n - 1) : N[l].deep >= D + 1
                 /\ N[n].deep >= D
        <5>1. (e + 1) + 1 = e + 2
          BY <3>1
        <5> QED
          BY <4>1, <4>2, <5>1 DEF Closes, in, N
      <4> HIDE DEF r
      <4>4. ASSUME NEW l \in 0..n, N[l].deep >= D + 1 PROVE N[l].deep >= D
        <5>1. N[l].deep \in Int
          BY NestingDepth DEF Depth, N
        <5> QED
          BY <4>4, <5>1
      <4>5. CASE r.v = "ok"
        <5>1. r.i \in (j + 1)..n /\ r.i # j
          BY <3>1, <4>3, <4>5
        <5>2. in[j] = in[r.i]
          BY <3>3, <3>10, <4>5, <5>1 DEF r
        <5>3. \A l \in j..(r.i - 1) : N[l].deep >= D
          <6>1. r.i \in (e + 2)..(n - 1)
            BY <4>3, <4>5
          <6>2. \A l \in j..(r.i - 1) : l \in 0..n /\ (l \in j..e \/ l \in (e + 1)..(r.i - 1))
            BY <2>3, <3>1, <6>1
          <6> QED
            BY <2>7, <4>3, <4>4, <4>5, <6>2
        <5> HIDE DEF Stands
        <5> QED
          BY <2>8, <4>3, <4>5, <5>1, <5>2, <5>3
      <4>6. CASE r.v # "ok"
        <5>1. \A l \in j..(n - 1) : N[l].deep >= D
          <6>1. \A l \in j..(n - 1) : l \in 0..n /\ (l \in j..e \/ l \in (e + 1)..(n - 1))
            BY <2>3, <3>1
          <6> QED
            BY <2>7, <4>3, <4>4, <4>6, <6>1
        <5>2. N[n].deep >= D - 1
          <6>1. n \in 0..n
            OBVIOUS
          <6>2. N[n].deep \in Int
            BY <6>1, NestingDepth DEF Depth, N
          <6> QED
            BY <4>3, <4>6, <6>2
        <5>3. CASE r.v = "cont"
          BY <3>3, <3>6, <3>10, <5>1, <5>2, <5>3 DEF r
        <5>4. CASE r.v = "spin"
          <6>1. in[j].v = "spin"
            BY <3>3, <3>10, <5>4 DEF r
          <6> QED
            BY <2>9, <5>1, <5>2, <6>1
        <5> QED
          BY <4>3, <4>6, <5>3, <5>4
      <4> QED
        BY <4>5, <4>6
    <3>11. c \in NotCtext => c \in {"(", ")", "\\"}
      BY <3>2 DEF NotCtext, Wsp
    <3>12. e + 1 = n \/ e + 1 < n
      BY <3>1
    <3> QED
      BY <3>5, <3>7, <3>8, <3>9, <3>10, <3>11, <3>12
  <2> QED
    BY <2>10, <2>11
<1> QED
  BY <1>1

\* comment = "(" *([FWS] ccontent) [FWS] ")", for every text without line
\* breaks: smtp_comment_parse answers where the comment has closed as often as
\* it opened, and refuses nothing else than a text that does not begin with one.
LEMMA CommentRight ==
    ASSUME Len(text) \in Nat, Unbroken(text), now = Comment(text, 0)
    PROVE  CommentIsBalanced
<1> DEFINE m == text
           n == Len(m)
           N == Nesting(m)
           ends == {k \in 1..n : Deep(m)[k] = 0}
<1>1. SUFFICES /\ now.v = "ok" => ends = {now.i}
               /\ now.v = "parse" => ends = {}
               /\ ends # {} => now.v = "ok" \/ ends = {n}
  BY DEF CommentIsBalanced
<1>2. ends = {k \in 1..n : N[k].deep = 0}
  <2>1. \A k \in 1..n : k \in 0..n
    OBVIOUS
  <2>2. \A k \in 1..n : Deep(m)[k] = N[k].deep
    BY <2>1, DeepIs
  <2> QED
    BY <2>2
<1> HIDE DEF ends
<1>3. now = IF n = 0 THEN More ELSE IF Ch(m, 0) = "(" THEN Inside(m)[1] ELSE Fail
  <2>1. now = Then(Char(m, 0, "("), LAMBDA j : Inside(m)[j])
    BY CommentIs
  <2>2. now = IF Char(m, 0, "(").v = "ok" THEN Inside(m)[Char(m, 0, "(").i] ELSE Char(m, 0, "(")
    BY <2>1 DEF Then
  <2>3. Char(m, 0, "(") = IF n = 0 THEN More ELSE IF Ch(m, 0) = "(" THEN Ok(0 + 1) ELSE Fail
    <3>1. 0 >= n <=> n = 0
      OBVIOUS
    <3> QED
      BY <3>1 DEF Char
  <2>4. 0 + 1 = 1
    OBVIOUS
  <2> QED
    BY <2>2, <2>3, <2>4, Constants
<1>4. CASE n = 0
  <2>1. ends = {}
    BY <1>2, <1>4
  <2> QED
    BY <1>3, <1>4, <2>1, Constants
<1>5. CASE n # 0
  <2>1. 1 \in 1..n /\ 1 - 1 = 0 /\ ~(1 > 1) /\ 1 \in Nat
    BY <1>5
  <2>2. N[1] = Deeper([deep |-> 0, quoted |-> FALSE], Ch(m, 0), 1)
    BY <2>1, NestingDefined
  <2>3. CASE Ch(m, 0) # "("
    <3>1. N[1].deep = -1
      <4> DEFINE p == [deep |-> 0, quoted |-> FALSE]
      <4>1. ~(p.deep < 0) /\ p.deep = 0 /\ ~p.quoted
        OBVIOUS
      <4> HIDE DEF p
      <4>2. CASE Ch(m, 0) = ")"
        <5>1. Deeper(p, Ch(m, 0), 1) = [deep |-> p.deep - 1, quoted |-> FALSE]
          BY <2>1, <4>1, <4>2 DEF Deeper
        <5> QED
          BY <2>2, <4>1, <5>1 DEF p
      <4>3. CASE Ch(m, 0) # ")"
        <5>1. Deeper(p, Ch(m, 0), 1).deep = -1
          BY <2>1, <2>3, <4>1, <4>3 DEF Deeper
        <5> QED
          BY <2>2, <5>1 DEF p
      <4> QED
        BY <4>2, <4>3
    <3>2. \A k \in 2..n : N[k].deep = -1
      BY <2>1, <3>1, AstrayForEver
    <3>3. ends = {}
      <4>1. \A k \in 1..n : k = 1 \/ k \in 2..n
        OBVIOUS
      <4> QED
        BY <1>2, <3>1, <3>2, <4>1
    <3> QED
      BY <1>3, <1>5, <2>3, <3>3, Constants
  <2>4. CASE Ch(m, 0) = "("
    <3>1. N[1] = [deep |-> 1, quoted |-> FALSE]
      <4> DEFINE p == [deep |-> 0, quoted |-> FALSE]
      <4>1. ~(p.deep < 0) /\ p.deep = 0 /\ ~p.quoted /\ p.deep + 1 = 1
        OBVIOUS
      <4> HIDE DEF p
      <4>2. Deeper(p, Ch(m, 0), 1) = [deep |-> p.deep + 1, quoted |-> FALSE]
        BY <2>1, <2>4, <4>1 DEF Deeper
      <4> QED
        BY <2>2, <4>1, <4>2 DEF p
    <3>2. Closes(m, 1, 1)
      <4>1. 1 \in Nat \ {0}
        OBVIOUS
      <4> QED
        BY <2>1, <3>1, <4>1, InsideCloses
    <3>3. now = Inside(m)[1]
      BY <1>3, <1>5, <2>4
    <3>4. /\ now.v \in {"ok", "cont", "spin"}
          /\ now.v = "ok" => /\ now.i \in 2..(n - 1) /\ N[now.i] = [deep |-> 1 - 1, quoted |-> FALSE]
                             /\ \A l \in 1..(now.i - 1) : N[l].deep >= 1
          /\ now.v # "ok" => \A l \in 1..(n - 1) : N[l].deep >= 1
      BY <3>2, <3>3 DEF Closes
    <3>5. \A l \in 1..n : N[l].deep >= 1 => N[l].deep # 0
      OBVIOUS
    <3>6. CASE now.v = "ok"
      <4>1. now.i \in 1..n /\ N[now.i].deep = 0 /\ N[now.i].deep <= 0
        BY <3>4, <3>6
      <4>2. \A k \in (now.i + 1)..n : N[k].deep = -1
        BY <4>1, AstrayForEver
      <4>3. \A k \in 1..n : k \in 1..(now.i - 1) \/ k = now.i \/ k \in (now.i + 1)..n
        BY <4>1
      <4>4. \A k \in 1..n : N[k].deep = 0 <=> k = now.i
        BY <3>4, <3>5, <3>6, <4>1, <4>2, <4>3
      <4>5. ends = {now.i}
        BY <1>2, <4>1, <4>4
      <4> QED
        BY <3>6, <4>5
    <3>7. CASE now.v # "ok"
      <4>1. \A k \in 1..n : k = n \/ k \in 1..(n - 1)
        OBVIOUS
      <4>2. ends \subseteq {n}
        BY <1>2, <3>4, <3>5, <3>7, <4>1
      <4> QED
        BY <3>4, <3>7, <4>2
    <3> QED
      BY <3>6, <3>7
  <2> QED
    BY <2>3, <2>4
<1> QED
  BY <1>4, <1>5

\* AsInGrammar for texts of every length: what the parser of folding white space
\* answers is the longest beginning of that form, and what that of comments does,
\* in a text without line breaks, is where the parentheses are balanced.
THEOREM GrammarFollowed ==
    ASSUME Parser = Library
    PROVE  Spec => []((field = "comment" => Unbroken(text)) => AsInGrammar)
<1>1. FieldsInv => ((field = "comment" => Unbroken(text)) => AsInGrammar)
  <2> SUFFICES ASSUME FieldsInv, field = "comment" => Unbroken(text) PROVE AsInGrammar
    OBVIOUS
  <2>1. Len(text) \in Nat /\ (now = Parse(field, text) \/ now.v = "none")
    BY DEF FieldsInv, Sent, Called, None
  <2>2. CommentIsBalanced
    <3>1. CASE field = "comment" /\ now.v # "none"
      <4>1. now = Comment(text, 0)
        BY <2>1, <3>1 DEF Parse
      <4> QED
        BY <2>1, <3>1, <4>1, CommentRight
    <3> QED
      BY <3>1 DEF CommentIsBalanced
  <2>3. FwsIsLongest
    <3>1. CASE field = "fws" /\ now.v # "none"
      <4>1. now = Fws(text, 0)
        BY <2>1, <3>1 DEF Parse
      <4> QED
        BY <2>1, <4>1, FwsRight
    <3> QED
      BY <3>1 DEF FwsIsLongest
  <2> QED
    BY <2>2, <2>3 DEF AsInGrammar
<1>2. Spec => []FieldsInv
  BY FieldsSent
<1> QED
  BY <1>1, <1>2, PTL

-----------------------------------------------------------------------------
(***************************************************************************)
(* Answers that do not change when the text goes on.                       *)
(***************************************************************************)
\* m2 is m, or goes on behind it.
Begins(m, m2) ==
    /\ Len(m) \in Nat /\ Len(m2) \in Nat /\ Len(m) <= Len(m2)
    /\ \A k \in 0..(Len(m) - 1) : Ch(m, k) = Ch(m2, k)
    /\ \A i, j \in Indices(m) : SubSeq(m, i + 1, j) = SubSeq(m2, i + 1, j)

\* r is the answer to a text of length n, s the one to a text that goes on.
\* Where r is nothing to go on with, s may be anything; otherwise a parser keeps
\* to its answer, or keeps to it unless it has come to the end of the text, or
\* keeps to it and does not come to the end of the text.
Undecided(r) == r.v \in {"cont", "spin", "null"}
Firm(r, s) == Undecided(r) \/ s = r
Kept(r, s, n) == Undecided(r) \/ s = r \/ (r.v = "ok" /\ r.i = n)
Settled(r, s, n) == Undecided(r) \/ (s = r /\ (r.v = "ok" => r.i # n))

LEMMA SettledIsFirm ==
    \A r, s, n : (Settled(r, s, n) => Firm(r, s)) /\ (Firm(r, s) => Kept(r, s, n))
  BY DEF Settled, Firm, Kept

\* One parser behind another.
LEMMA FollowFirm ==
    ASSUME NEW n, NEW a, NEW a2, NEW b, NEW b2, Kept(a, a2, n), a.v = "ok" /\ a.i = n => Undecided(b),
           a2 = a /\ a.v = "ok" => Firm(b, b2),
           NEW r, r = AndThen(a, b), NEW s, s = AndThen(a2, b2)
    PROVE  Firm(r, s) /\ (Undecided(a) => Undecided(r))
<1>1. CASE a.v # "ok"
  <2>1. r = a /\ (a2 = a => s = a)
    BY <1>1 DEF AndThen
  <2> QED
    BY <1>1, <2>1 DEF Kept, Firm, Settled
<1>2. CASE a.v = "ok"
  <2>1. r = b /\ (a2 = a => s = b2) /\ ~Undecided(a)
    BY <1>2 DEF AndThen, Undecided
  <2>2. a2 = a \/ Undecided(r)
    BY <1>2, <2>1 DEF Kept
  <2> QED
    BY <1>2, <2>1, <2>2 DEF Kept, Firm, Settled
<1> QED
  BY <1>1, <1>2

LEMMA FollowKept ==
    ASSUME NEW n, NEW a, NEW a2, NEW b, NEW b2, Kept(a, a2, n), a.v = "ok" /\ a.i = n => Undecided(b),
           a2 = a /\ a.v = "ok" => Kept(b, b2, n),
           NEW r, r = AndThen(a, b), NEW s, s = AndThen(a2, b2)
    PROVE  Kept(r, s, n) /\ (Undecided(a) => Undecided(r))
<1>1. CASE a.v # "ok"
  <2>1. r = a /\ (a2 = a => s = a)
    BY <1>1 DEF AndThen
  <2> QED
    BY <1>1, <2>1 DEF Kept, Firm, Settled
<1>2. CASE a.v = "ok"
  <2>1. r = b /\ (a2 = a => s = b2) /\ ~Undecided(a)
    BY <1>2 DEF AndThen, Undecided
  <2>2. a2 = a \/ Undecided(r)
    BY <1>2, <2>1 DEF Kept
  <2> QED
    BY <1>2, <2>1, <2>2 DEF Kept, Firm, Settled
<1> QED
  BY <1>1, <1>2

LEMMA FollowSettled ==
    ASSUME NEW n, NEW a, NEW a2, NEW b, NEW b2, Kept(a, a2, n), a.v = "ok" /\ a.i = n => Undecided(b),
           a2 = a /\ a.v = "ok" => Settled(b, b2, n),
           NEW r, r = AndThen(a, b), NEW s, s = AndThen(a2, b2)
    PROVE  Settled(r, s, n) /\ (Undecided(a) => Undecided(r))
<1>1. CASE a.v # "ok"
  <2>1. r = a /\ (a2 = a => s = a)
    BY <1>1 DEF AndThen
  <2> QED
    BY <1>1, <2>1 DEF Kept, Firm, Settled
<1>2. CASE a.v = "ok"
  <2>1. r = b /\ (a2 = a => s = b2) /\ ~Undecided(a)
    BY <1>2 DEF AndThen, Undecided
  <2>2. a2 = a \/ Undecided(r)
    BY <1>2, <2>1 DEF Kept
  <2> QED
    BY <1>2, <2>1, <2>2 DEF Kept, Firm, Settled
<1> QED
  BY <1>1, <1>2

LEMMA OptSettled ==
    ASSUME NEW n, NEW r, NEW s, Settled(r, s, n), NEW i, i = n => Undecided(r)
    PROVE  Settled(Opt(r, i), Opt(s, i), n) /\ (i = n => Undecided(Opt(r, i)))
  BY DEF Settled, Opt, Else, Undecided, Ok

LEMMA ElseKept ==
    ASSUME NEW n, NEW a, NEW a2, NEW b, NEW b2, Kept(a, a2, n)
    PROVE  /\ (a2 = a /\ a.v = "parse" => Kept(b, b2, n)) => Kept(Else(a, b), Else(a2, b2), n)
           /\ Undecided(a) => Undecided(Else(a, b))
           /\ Firm(a, a2) /\ (a2 = a /\ a.v = "parse" => Firm(b, b2)) => Firm(Else(a, b), Else(a2, b2))
<1>1. CASE a.v = "parse"
  <2>1. Else(a, b) = b /\ a2 = a /\ Else(a2, b2) = b2 /\ ~Undecided(a)
    BY <1>1 DEF Else, Kept, Undecided
  <2> QED
    BY <1>1, <2>1
<1>2. CASE a.v # "parse"
  <2>1. Else(a, b) = a /\ (a2 = a => Else(a2, b2) = a)
    BY <1>2 DEF Else
  <2> QED
    BY <2>1 DEF Kept, Firm
<1> QED
  BY <1>1, <1>2

LEMMA WithKept ==
    ASSUME NEW n, NEW r, NEW s, NEW x, NEW y, s = r => y = x
    PROVE  /\ Firm(r, s) => Firm(With(r, x), With(s, y))
           /\ Kept(r, s, n) => Kept(With(r, x), With(s, y), n)
           /\ Settled(r, s, n) => Settled(With(r, x), With(s, y), n)
           /\ Undecided(r) => Undecided(With(r, x))
  BY DEF With, Firm, Kept, Settled, Undecided, Got

LEMMA BeforeKept ==
    ASSUME NEW n, NEW r, NEW s, NEW x
    PROVE  /\ Firm(r, s) => Firm(Before(x, r), Before(x, s))
           /\ Settled(r, s, n) => Settled(Before(x, r), Before(x, s), n)
           /\ Undecided(r) => Undecided(Before(x, r))
           /\ Before(x, r).v = r.v /\ (r.v = "ok" => Before(x, r).i = r.i)
  BY DEF Before, Firm, Settled, Undecided, Got

-----------------------------------------------------------------------------
(***************************************************************************)
(* Loops.                                                                  *)
(***************************************************************************)
\* Turns that keep to what they answer, unless they come to the end of the text.
Turning(t, t2, n) ==
    /\ \A j \in 0..n : \/ Undecided(t[j])
                       \/ t2[j] = t[j]
                       \/ t[j].v = "again" /\ t[j].i = n
    /\ Undecided(t[n])

LEMMA LoopFirm ==
    ASSUME NEW n \in Nat, NEW n2 \in Nat, n <= n2, NEW t, NEW t2, Forward(t, n), Forward(t2, n2),
           Turning(t, t2, n), NEW i \in 0..n
    PROVE  Firm(Loop(t, i), Loop(t2, i)) /\ Undecided(Loop(t, n))
<1> DEFINE Bad == {j \in 0..n : ~Firm(Loop(t, j), Loop(t2, j))}
<1>1. Undecided(Loop(t, n))
  <2>1. t[n].v # "again" /\ n \in 0..n
    BY DEF Turning, Undecided
  <2>2. Loop(t, n) = t[n]
    BY <2>1, LoopTurn
  <2> QED
    BY <2>2 DEF Turning
<1>2. Bad = {}
  <2> SUFFICES ASSUME Bad # {} PROVE FALSE
    OBVIOUS
  <2>1. PICK j \in Bad : \A k \in Bad : k <= j
    <3>1. Bad \subseteq 0..n
      OBVIOUS
    <3> HIDE DEF Bad
    <3> QED
      BY <3>1, LastOf
  <2>2. j \in 0..n /\ j \in 0..n2 /\ ~Firm(Loop(t, j), Loop(t2, j))
    OBVIOUS
  <2>3. Loop(t, j) = IF t[j].v = "again" THEN Before(t[j].val, Loop(t, t[j].i)) ELSE t[j]
    BY <2>2, LoopTurn
  <2>4. Loop(t2, j) = IF t2[j].v = "again" THEN Before(t2[j].val, Loop(t2, t2[j].i)) ELSE t2[j]
    BY <2>2, LoopTurn
  <2>5. CASE Undecided(t[j])
    <3>1. Loop(t, j) = t[j]
      BY <2>3, <2>5 DEF Undecided
    <3> QED
      BY <2>2, <2>5, <3>1 DEF Firm
  <2>6. CASE t2[j] = t[j] /\ t[j].v # "again"
    <3>1. Loop(t, j) = t[j] /\ Loop(t2, j) = t[j]
      BY <2>3, <2>4, <2>6
    <3> QED
      BY <2>2, <3>1 DEF Firm
  <2>7. CASE t2[j] = t[j] /\ t[j].v = "again"
    <3> DEFINE k == t[j].i
    <3>1. k \in (j + 1)..n
      BY <2>2, <2>7 DEF Forward
    <3>2. k \in 0..n /\ ~(k <= j)
      BY <2>2, <3>1
    <3>3. Firm(Loop(t, k), Loop(t2, k))
      BY <2>1, <3>2
    <3>4. Loop(t, j) = Before(t[j].val, Loop(t, k)) /\ Loop(t2, j) = Before(t[j].val, Loop(t2, k))
      BY <2>3, <2>4, <2>7
    <3> HIDE DEF k
    <3> QED
      BY <2>2, <3>3, <3>4, BeforeKept
  <2>8. CASE t[j].v = "again" /\ t[j].i = n
    <3>1. Loop(t, j) = Before(t[j].val, Loop(t, n))
      BY <2>3, <2>8
    <3> QED
      BY <1>1, <2>2, <3>1, BeforeKept DEF Firm
  <2> QED
    BY <2>2, <2>5, <2>6, <2>7, <2>8 DEF Turning
<1> QED
  BY <1>1, <1>2

\* An answer of a loop is that of one of its turns.
LEMMA LoopEnds ==
    ASSUME NEW n \in Nat, NEW t, Forward(t, n), NEW i \in 0..n, Loop(t, i).v = "ok"
    PROVE  \E j \in 0..n : t[j].v = "ok" /\ t[j].i = Loop(t, i).i
<1> DEFINE Ended(k) == \E j \in 0..n : t[j].v = "ok" /\ t[j].i = Loop(t, k).i
           Bad == {k \in 0..n : Loop(t, k).v = "ok" /\ ~Ended(k)}
<1>1. Bad = {}
  <2> SUFFICES ASSUME Bad # {} PROVE FALSE
    OBVIOUS
  <2>1. PICK j \in Bad : \A k \in Bad : k <= j
    <3>1. Bad \subseteq 0..n
      OBVIOUS
    <3> HIDE DEF Bad
    <3> QED
      BY <3>1, LastOf
  <2>2. j \in 0..n /\ Loop(t, j).v = "ok" /\ ~Ended(j)
    OBVIOUS
  <2>3. Loop(t, j) = IF t[j].v = "again" THEN Before(t[j].val, Loop(t, t[j].i)) ELSE t[j]
    BY <2>2, LoopTurn
  <2>4. CASE t[j].v # "again"
    BY <2>2, <2>3, <2>4
  <2>5. CASE t[j].v = "again"
    <3> DEFINE k == t[j].i
    <3>1. k \in (j + 1)..n
      BY <2>2, <2>5 DEF Forward
    <3>2. k \in 0..n /\ ~(k <= j)
      BY <2>2, <3>1
    <3>3. Loop(t, j) = Before(t[j].val, Loop(t, k))
      BY <2>3, <2>5
    <3>4. Loop(t, k).v = "ok" /\ Loop(t, k).i = Loop(t, j).i
      BY <2>2, <3>3, BeforeKept
    <3>5. k \notin Bad
      BY <2>1, <3>2
    <3>6. Ended(k)
      BY <3>2, <3>4, <3>5
    <3>7. Ended(j)
      BY <3>4, <3>6
    <3> QED
      BY <2>2, <3>7
  <2> QED
    BY <2>4, <2>5
<1> QED
  BY <1>1

\* What is tried at each index keeps to its answer, unless it comes to the end
\* of the text; at the end nothing is decided.
Steady(p, p2, m) ==
    /\ \A j \in Indices(m) : Kept(p[j], p2[j], Len(m))
    /\ Undecided(p[Len(m)])

LEMMA TurnKept ==
    ASSUME NEW n, NEW r, NEW s, Kept(r, s, n), NEW j, NEW x, NEW y, s = r => y = x
    PROVE  LET t == Turn(r, j, x)
           IN /\ \/ Undecided(t)
                 \/ Turn(s, j, y) = t
                 \/ t.v = "again" /\ t.i = n
              /\ Undecided(r) => Undecided(t)
              /\ t.v = "ok" => r.v = "parse" /\ t.i = j
<1>1. CASE r.v = "parse"
  <2>1. s = r
    BY <1>1 DEF Kept, Undecided
  <2>2. Turn(r, j, x) = Ok(j) /\ Turn(s, j, y) = Ok(j)
    BY <1>1, <2>1 DEF Turn
  <2> QED
    BY <1>1, <2>2, Constants DEF Undecided
<1>2. CASE r.v = "ok" /\ r.i = j
  <2>1. Turn(r, j, x) = Spin
    BY <1>2 DEF Turn
  <2> QED
    BY <2>1, Constants DEF Undecided
<1>3. CASE r.v = "ok" /\ r.i # j
  <2>1. Turn(r, j, x) = Again(r.i, x)
    BY <1>3 DEF Turn
  <2>2. s = r => Turn(s, j, y) = Again(r.i, x)
    BY <1>3 DEF Turn
  <2> QED
    BY <1>3, <2>1, <2>2, Constants DEF Kept, Undecided
<1>4. CASE r.v \notin {"parse", "ok"}
  <2>1. Turn(r, j, x) = r /\ (s = r => Turn(s, j, y) = r)
    BY <1>4 DEF Turn
  <2> QED
    BY <1>4, <2>1 DEF Kept
<1> QED
  BY <1>1, <1>2, <1>3, <1>4

\* What both texts have at an index of the first.
LEMMA Within ==
    ASSUME NEW m, NEW m2, Begins(m, m2), NEW i \in Indices(m)
    PROVE  /\ Len(m) \in Nat /\ Len(m2) \in Nat /\ Len(m) \in Indices(m) /\ i \in Indices(m2)
           /\ i # Len(m) => /\ i < Len(m) /\ ~(i >= Len(m)) /\ i < Len(m2) /\ ~(i >= Len(m2))
                            /\ Ch(m2, i) = Ch(m, i) /\ i + 1 \in Indices(m)
           /\ i = Len(m) => i >= Len(m)
  BY DEF Begins, Indices

LEMMA TurnsSettled ==
    ASSUME NEW m, NEW m2, Begins(m, m2), NEW V, NEW W, NEW p, NEW p2,
           Parses(p, m, V), Parses(p2, m2, W), Steady(p, p2, m),
           NEW t, NEW t2, DOMAIN t = Indices(m), DOMAIN t2 = Indices(m2), NEW x, NEW y,
           \A j \in Indices(m) : t[j] = Turn(p[j], j, x[j]),
           \A j \in Indices(m2) : t2[j] = Turn(p2[j], j, y[j]),
           \A j \in Indices(m) : p2[j] = p[j] => y[j] = x[j],
           NEW i \in Indices(m)
    PROVE  /\ Settled(Loop(t, i), Loop(t2, i), Len(m)) /\ Undecided(Loop(t, Len(m)))
           /\ Loop(t, i).v = "ok" => Loop(t, i).i \in Indices(m) /\ p[Loop(t, i).i].v = "parse"
<1> DEFINE n == Len(m)
<1>1. n \in Nat /\ Len(m2) \in Nat /\ n <= Len(m2) /\ n \in Indices(m) /\ Indices(m) \subseteq Indices(m2)
  BY DEF Begins, Indices
<1>2. Forward(t, n)
  BY <1>1, TurnAnswer DEF Forward, Indices
<1>3. Forward(t2, Len(m2))
  <2>1. \A j \in Indices(m2) : t2[j].v = "again" => t2[j].i \in (j + 1)..Len(m2)
    BY <1>1, TurnAnswer
  <2> QED
    BY <2>1 DEF Forward, Indices
<1>4. ASSUME NEW j \in Indices(m)
      PROVE  /\ Undecided(t[j]) \/ t2[j] = t[j] \/ (t[j].v = "again" /\ t[j].i = n)
             /\ Undecided(p[j]) => Undecided(t[j])
             /\ t[j].v = "ok" => p[j].v = "parse" /\ t[j].i = j
  <2>1. Kept(p[j], p2[j], n) /\ j \in Indices(m2)
    BY <1>1 DEF Steady
  <2>2. t[j] = Turn(p[j], j, x[j]) /\ t2[j] = Turn(p2[j], j, y[j]) /\ (p2[j] = p[j] => y[j] = x[j])
    BY <2>1
  <2> QED
    BY <2>1, <2>2, TurnKept
<1>5. Turning(t, t2, n)
  BY <1>1, <1>4 DEF Turning, Steady, Indices
<1>6. Firm(Loop(t, i), Loop(t2, i)) /\ Undecided(Loop(t, n))
  BY <1>1, <1>2, <1>3, <1>5, LoopFirm DEF Indices
<1>7. Loop(t, i).v = "ok" => Loop(t, i).i \in Indices(m) /\ p[Loop(t, i).i].v = "parse"
  <2> SUFFICES ASSUME Loop(t, i).v = "ok" PROVE Loop(t, i).i \in Indices(m) /\ p[Loop(t, i).i].v = "parse"
    OBVIOUS
  <2>1. PICK j \in 0..n : t[j].v = "ok" /\ t[j].i = Loop(t, i).i
    BY <1>1, <1>2, LoopEnds DEF Indices
  <2>2. j \in Indices(m)
    BY DEF Indices
  <2> QED
    BY <1>4, <2>1, <2>2
<1>8. Loop(t, i).v = "ok" => Loop(t, i).i # n
  BY <1>7 DEF Steady, Undecided
<1> QED
  BY <1>6, <1>7, <1>8 DEF Firm, Settled

LEMMA ManySettled ==
    ASSUME NEW m, NEW m2, Begins(m, m2), NEW V, NEW W, NEW p, NEW p2,
           Parses(p, m, V), Parses(p2, m2, W), Steady(p, p2, m), NEW i \in Indices(m)
    PROVE  /\ Settled(Many(p, i), Many(p2, i), Len(m)) /\ Undecided(Many(p, Len(m)))
           /\ Many(p, i).v = "ok" => Many(p, i).i \in Indices(m) /\ p[Many(p, i).i].v = "parse"
<1> DEFINE t == [j \in DOMAIN p |-> LET r == p[j] IN Turn(r, j, <<>>)]
           t2 == [j \in DOMAIN p2 |-> LET r == p2[j] IN Turn(r, j, <<>>)]
           x == [j \in Indices(m) |-> <<>>]
           y == [j \in Indices(m2) |-> <<>>]
<1>1. \A k : Many(p, k) = Loop(t, k) /\ Many(p2, k) = Loop(t2, k)
  BY DEF Many
<1>2. DOMAIN t = Indices(m) /\ DOMAIN t2 = Indices(m2)
  BY DEF Parses
<1>3. \A j \in Indices(m) : t[j] = Turn(p[j], j, x[j])
  BY DEF Parses
<1>4. \A j \in Indices(m2) : t2[j] = Turn(p2[j], j, y[j])
  BY DEF Parses
<1>5. \A j \in Indices(m) : p2[j] = p[j] => y[j] = x[j]
  BY Within
<1> HIDE DEF t, t2, x, y
<1>6. /\ Settled(Loop(t, i), Loop(t2, i), Len(m)) /\ Undecided(Loop(t, Len(m)))
      /\ Loop(t, i).v = "ok" => Loop(t, i).i \in Indices(m) /\ p[Loop(t, i).i].v = "parse"
  BY <1>2, <1>3, <1>4, <1>5, TurnsSettled
<1> QED
  BY <1>1, <1>6

LEMMA Many1Settled ==
    ASSUME NEW m, NEW m2, Begins(m, m2), NEW V, NEW W, NEW p, NEW p2,
           Parses(p, m, V), Parses(p2, m2, W), Steady(p, p2, m), NEW i \in Indices(m)
    PROVE  Settled(Many1(p, i), Many1(p2, i), Len(m)) /\ Undecided(Many1(p, Len(m)))
<1> DEFINE n == Len(m)
           rest(k) == Many(p, k)
<1>1. \A k : /\ Many1(p, k) = AndThen(p[k], Many(p, p[k].i))
             /\ Many1(p2, k) = AndThen(p2[k], Many(p2, p2[k].i))
  BY DEF Many1, Then, AndThen
<1>2. Kept(p[i], p2[i], n) /\ Undecided(p[n])
  BY DEF Steady
<1>3. p[i].v = "ok" => p[i].i \in Indices(m)
  BY DEF Parses, Answer, Indices
<1>4. p[i].v = "ok" /\ p[i].i = n => Undecided(Many(p, p[i].i))
  BY <1>3, ManySettled
<1>5. p2[i] = p[i] /\ p[i].v = "ok" => Settled(Many(p, p[i].i), Many(p2, p2[i].i), n)
  BY <1>3, ManySettled
<1>6. Settled(Many1(p, i), Many1(p2, i), n)
  BY <1>1, <1>2, <1>4, <1>5, FollowSettled
<1>7. Undecided(Many1(p, n))
  BY <1>1, <1>2 DEF AndThen, Undecided
<1> QED
  BY <1>6, <1>7

LEMMA StructMultipleSettled ==
    ASSUME NEW m, NEW m2, Begins(m, m2), NEW V, NEW W, NEW p, NEW p2,
           Parses(p, m, V), Parses(p2, m2, W), Steady(p, p2, m), NEW i \in Indices(m)
    PROVE  /\ Firm(StructMultiple(p, i), StructMultiple(p2, i))
           /\ Undecided(StructMultiple(p, Len(m)))
           /\ StructMultiple(p, i).v = "ok" => StructMultiple(p, i).i # Len(m)
<1> DEFINE t == [j \in DOMAIN p |-> LET r == p[j] IN Turn(r, j, <<r.val>>)]
           t2 == [j \in DOMAIN p2 |-> LET r == p2[j] IN Turn(r, j, <<r.val>>)]
           x == [j \in Indices(m) |-> <<p[j].val>>]
           y == [j \in Indices(m2) |-> <<p2[j].val>>]
           n == Len(m)
<1>1. \A k : /\ StructMultiple(p, k) = IF p[k].v = "ok" THEN Loop(t, k) ELSE p[k]
             /\ StructMultiple(p2, k) = IF p2[k].v = "ok" THEN Loop(t2, k) ELSE p2[k]
  BY DEF StructMultiple
<1>2. DOMAIN t = Indices(m) /\ DOMAIN t2 = Indices(m2)
  BY DEF Parses
<1>3. \A j \in Indices(m) : t[j] = Turn(p[j], j, x[j])
  BY DEF Parses
<1>4. \A j \in Indices(m2) : t2[j] = Turn(p2[j], j, y[j])
  BY DEF Parses
<1>5. \A j \in Indices(m) : p2[j] = p[j] => y[j] = x[j]
  BY Within
<1> HIDE DEF t, t2, x, y
<1>6. /\ Settled(Loop(t, i), Loop(t2, i), n) /\ Undecided(Loop(t, n))
      /\ Loop(t, i).v = "ok" => p[Loop(t, i).i].v = "parse"
  BY <1>2, <1>3, <1>4, <1>5, TurnsSettled
<1>7. Kept(p[i], p2[i], n) /\ Undecided(p[n])
  BY DEF Steady
<1>8. Undecided(StructMultiple(p, n))
  BY <1>1, <1>7 DEF Undecided
<1>9. CASE p[i].v # "ok"
  <2>1. StructMultiple(p, i) = p[i] /\ (p2[i] = p[i] => StructMultiple(p2, i) = p[i])
    BY <1>1, <1>9
  <2> QED
    BY <1>7, <1>8, <1>9, <2>1 DEF Kept, Firm
<1>10. CASE p[i].v = "ok" /\ p2[i] = p[i]
  BY <1>1, <1>6, <1>8, <1>10 DEF Settled, Firm, Undecided
<1>11. CASE p[i].v = "ok" /\ p[i].i = n /\ p2[i] # p[i]
  <2>1. t[i] = Turn(p[i], i, x[i])
    BY <1>3
  <2>2. i # n
    BY <1>7, <1>11 DEF Undecided
  <2>3. t[i] = Again(n, x[i])
    BY <1>11, <2>1, <2>2 DEF Turn
  <2>4. Forward(t, n) /\ n \in Nat /\ i \in 0..n
    BY <1>2, <1>3, TurnAnswer DEF Forward, Indices, Begins
  <2>5. Loop(t, i) = Before(x[i], Loop(t, n))
    <3>1. t[i].v = "again" /\ t[i].i = n /\ t[i].val = x[i]
      BY <2>3 DEF Again
    <3> QED
      BY <2>4, <3>1, LoopTurn
  <2>6. Undecided(StructMultiple(p, i))
    BY <1>1, <1>6, <1>11, <2>5, BeforeKept
  <2> QED
    BY <1>8, <2>6 DEF Firm, Undecided
<1> QED
  BY <1>7, <1>8, <1>9, <1>10, <1>11 DEF Kept, Undecided

-----------------------------------------------------------------------------
(***************************************************************************)
(* Characters, white space and comments.                                   *)
(***************************************************************************)
LEMMA CharFirm ==
    ASSUME NEW m, NEW m2, Begins(m, m2), NEW i \in Indices(m), NEW c
    PROVE  Firm(Char(m, i, c), Char(m2, i, c)) /\ (i = Len(m) => Undecided(Char(m, i, c)))
<1>1. CASE i = Len(m)
  BY <1>1, Within, Constants DEF Char, Firm, Undecided
<1>2. CASE i # Len(m)
  BY <1>2, Within DEF Char, Firm
<1> QED
  BY <1>1, <1>2

LEMMA WspCharFirm ==
    ASSUME NEW m, NEW m2, Begins(m, m2), NEW i \in Indices(m)
    PROVE  Firm(WspChar(m, i), WspChar(m2, i)) /\ (i = Len(m) => Undecided(WspChar(m, i)))
<1>1. CASE i = Len(m)
  BY <1>1, Within, Constants DEF WspChar, Firm, Undecided
<1>2. CASE i # Len(m)
  BY <1>2, Within DEF WspChar, Firm
<1> QED
  BY <1>1, <1>2

LEMMA WspsSettled ==
    ASSUME NEW m, NEW m2, Begins(m, m2), NEW i \in Indices(m)
    PROVE  Settled(Wsps(m, i), Wsps(m2, i), Len(m)) /\ Undecided(Wsps(m, Len(m)))
<1> DEFINE p == EachWsp(m)
           p2 == EachWsp(m2)
<1>1. Len(m) \in Nat /\ Len(m2) \in Nat
  BY Within
<1>2. DOMAIN p = Indices(m) /\ \A j \in Indices(m) : p[j] = WspChar(m, j)
  BY DEF EachWsp
<1>3. DOMAIN p2 = Indices(m2) /\ \A j \in Indices(m2) : p2[j] = WspChar(m2, j)
  BY DEF EachWsp
<1>4. Parses(p, m, Verdicts(m))
  BY <1>1, <1>2, WspCharAnswer, VerdictsAre DEF Parses
<1>5. Parses(p2, m2, Verdicts(m2))
  BY <1>1, <1>3, WspCharAnswer, VerdictsAre DEF Parses
<1>6. ASSUME NEW j \in Indices(m) PROVE Kept(p[j], p2[j], Len(m))
  BY <1>2, <1>3, WspCharFirm, SettledIsFirm, Within
<1>7. Undecided(p[Len(m)])
  BY <1>2, WspCharFirm, Within
<1>8. Steady(p, p2, m)
  BY <1>6, <1>7 DEF Steady
<1>9. \A k : Wsps(m, k) = Many(p, k) /\ Wsps(m2, k) = Many(p2, k)
  BY DEF Wsps
<1> HIDE DEF p, p2
<1> QED
  BY <1>4, <1>5, <1>8, <1>9, ManySettled

LEMMA CrLfFirm ==
    ASSUME NEW m, NEW m2, Begins(m, m2), NEW i \in Indices(m)
    PROVE  Firm(CrLf(m, i), CrLf(m2, i)) /\ (i = Len(m) => Undecided(CrLf(m, i)))
<1> DEFINE a == Opt(Char(m, i, "\r"), i)
           a2 == Opt(Char(m2, i, "\r"), i)
           b == Char(m, a.i, "\n")
           b2 == Char(m2, a2.i, "\n")
<1>1. Len(m) \in Nat /\ Len(m2) \in Nat
  BY Within
<1>2. Firm(Char(m, i, "\r"), Char(m2, i, "\r")) /\ (i = Len(m) => Undecided(Char(m, i, "\r")))
  BY CharFirm
<1>3. Firm(a, a2) /\ (i = Len(m) => Undecided(a))
  BY <1>2 DEF Firm, Opt, Else, Undecided, Ok
<1>4. a.v = "ok" => a.i \in Indices(m)
  <2>1. Answer(a, i, m, Verdicts(m))
    BY <1>1, CharAnswer, OptAnswer, VerdictsAre
  <2> QED
    BY <2>1 DEF Answer, Indices
<1>5. CrLf(m, i) = AndThen(a, b) /\ CrLf(m2, i) = AndThen(a2, b2)
  BY DEF CrLf, Then, AndThen
<1>6. a.v = "ok" /\ a.i = Len(m) => Undecided(b)
  BY <1>4, CharFirm
<1>7. a2 = a /\ a.v = "ok" => Firm(b, b2)
  BY <1>4, CharFirm
<1> HIDE DEF a, a2, b, b2
<1> QED
  <2>1. Kept(a, a2, Len(m))
    BY <1>3, SettledIsFirm
  <2>2. Firm(CrLf(m, i), CrLf(m2, i))
    BY <1>5, <1>6, <1>7, <2>1, FollowFirm
  <2>3. i = Len(m) => Undecided(CrLf(m, i))
    BY <1>3, <1>5 DEF AndThen, Undecided
  <2> QED
    BY <2>2, <2>3

LEMMA FwsSettled ==
    ASSUME NEW m, NEW m2, Begins(m, m2), NEW i \in Indices(m)
    PROVE  Settled(Fws(m, i), Fws(m2, i), Len(m)) /\ (i = Len(m) => Undecided(Fws(m, i)))
<1> DEFINE n == Len(m)
           After1(t, j) == LET break == CrLf(t, j)
                               folded == Wsps(t, break.i)
                           IN IF break.v = "parse" \/ (break.v = "ok" /\ folded = Ok(break.i))
                              THEN IF j > i THEN Ok(j) ELSE Fail
                              ELSE AndThen(break, folded)
           a == Wsps(m, i)
           a2 == Wsps(m2, i)
<1>1. Len(m) \in Nat /\ Len(m2) \in Nat /\ n \in Indices(m)
  BY Within
<1>2. \A t : Fws(t, i) = AndThen(Wsps(t, i), After1(t, Wsps(t, i).i))
  BY DEF Fws, Then, AndThen
<1>3. Settled(a, a2, n) /\ (i = n => Undecided(a))
  BY WspsSettled
<1>4. a.v = "ok" => a.i \in Indices(m)
  <2>1. Answer(a, i, m, Verdicts(m))
    BY <1>1, WspsAnswer
  <2> QED
    BY <2>1 DEF Answer, Indices
<1>5. ASSUME NEW j \in Indices(m), j # n PROVE Settled(After1(m, j), After1(m2, j), n)
  <2> DEFINE b == CrLf(m, j)
             b2 == CrLf(m2, j)
             f == Wsps(m, b.i)
             f2 == Wsps(m2, b2.i)
             stay == IF j > i THEN Ok(j) ELSE Fail
  <2>1. Firm(b, b2)
    BY CrLfFirm
  <2>2. b.v = "ok" => b.i \in Indices(m)
    <3>1. Answer(b, j, m, Verdicts(m))
      BY <1>1, CrLfAnswer
    <3> QED
      BY <3>1 DEF Answer, Indices
  <2>3. b.v = "ok" => Settled(f, Wsps(m2, b.i), n)
    BY <2>2, WspsSettled
  <2>4. Settled(stay, stay, n)
    BY <1>5, Constants DEF Settled
  <2>5. After1(m, j) = IF b.v = "parse" \/ (b.v = "ok" /\ f = Ok(b.i)) THEN stay ELSE AndThen(b, f)
    OBVIOUS
  <2>6. After1(m2, j) = IF b2.v = "parse" \/ (b2.v = "ok" /\ f2 = Ok(b2.i)) THEN stay ELSE AndThen(b2, f2)
    OBVIOUS
  <2>7. b2 = b => f2 = Wsps(m2, b.i)
    OBVIOUS
  <2> HIDE DEF b, b2, f, f2, stay, After1
  <2>8. CASE b.v = "parse"
    BY <2>1, <2>4, <2>5, <2>6, <2>8 DEF Firm, Undecided
  <2>9. CASE b.v = "ok"
    <3>1. b2 = b
      BY <2>1, <2>9 DEF Firm, Undecided
    <3>2. CASE Undecided(f)
      <4>1. f # Ok(b.i)
        BY <3>2, Constants DEF Undecided
      <4>2. After1(m, j) = f
        BY <2>5, <2>9, <4>1 DEF AndThen
      <4> QED
        BY <3>2, <4>2 DEF Settled
    <3>3. CASE ~Undecided(f)
      <4>1. f2 = f /\ (f.v = "ok" => f.i # n)
        BY <2>3, <2>7, <2>9, <3>1, <3>3 DEF Settled
      <4>2. After1(m, j) \in {stay, f} /\ After1(m2, j) = After1(m, j)
        BY <2>5, <2>6, <2>9, <3>1, <4>1 DEF AndThen
      <4> QED
        BY <2>4, <4>1, <4>2 DEF Settled
    <3> QED
      BY <3>2, <3>3
  <2>10. CASE b.v \notin {"parse", "ok"}
    <3>1. After1(m, j) = b
      BY <2>5, <2>10 DEF AndThen
    <3>2. Undecided(b)
      <4>1. Answer(CrLf(m, j), j, m, Verdicts(m))
        BY <1>1, CrLfAnswer
      <4> QED
        BY <2>10, <4>1 DEF Answer, Verdicts, Undecided, b
    <3> QED
      BY <3>1, <3>2 DEF Settled
  <2> QED
    BY <2>8, <2>9, <2>10
<1>6. Fws(m, i) = AndThen(a, After1(m, a.i)) /\ Fws(m2, i) = AndThen(a2, After1(m2, a2.i))
  BY <1>2
<1> HIDE DEF a, a2, After1
<1>7. a.v = "ok" => a.i # n
  BY <1>3 DEF Settled, Undecided
<1>8. a2 = a /\ a.v = "ok" => Settled(After1(m, a.i), After1(m2, a2.i), n)
  BY <1>4, <1>5, <1>7
<1> QED
  BY <1>3, <1>6, <1>7, <1>8, FollowSettled, SettledIsFirm

LEMMA QuotedPairFirm ==
    ASSUME NEW m, NEW m2, Begins(m, m2), NEW i \in Indices(m)
    PROVE  /\ Firm(QuotedPair(m, i), QuotedPair(m2, i))
           /\ i = Len(m) => Undecided(QuotedPair(m, i))
<1>1. CASE i + 1 >= Len(m)
  <2>1. QuotedPair(m, i) = More
    BY <1>1 DEF QuotedPair
  <2> QED
    BY <2>1, Constants DEF Firm, Undecided
<1>2. CASE ~(i + 1 >= Len(m))
  <2>1. ~(i + 1 >= Len(m2)) /\ i \in 0..(Len(m) - 1) /\ i + 1 \in 0..(Len(m) - 1) /\ i # Len(m)
    BY <1>2 DEF Begins, Indices
  <2>2. Ch(m2, i) = Ch(m, i) /\ Ch(m2, i + 1) = Ch(m, i + 1)
    BY <2>1 DEF Begins
  <2> QED
    BY <1>2, <2>1, <2>2 DEF QuotedPair, Firm
<1> QED
  BY <1>1, <1>2

\* A turn inside a comment, its parts named.
LEMMA InsideTurn ==
    ASSUME NEW m, Len(m) \in Nat, NEW j \in Indices(m), NEW white, white = Opt(Fws(m, j), j),
           NEW open, open = Char(m, white.i, "("), NEW nested, nested = AndThen(open, Inside(m)[open.i]),
           NEW content, content = AndThen(white, Ccontent(m, white.i, nested))
    PROVE  Inside(m)[j] = IF content.v = "parse" THEN AndThen(white, Char(m, white.i, ")"))
                          ELSE IF content.v = "ok" THEN IF content.i = j THEN Spin ELSE Inside(m)[content.i]
                          ELSE content
<1> DEFINE g == Inside(m)
           Nested(k) == Then(Char(m, k, "("), LAMBDA l : g[l])
           whole == Then(white, LAMBDA k : Ccontent(m, k, Nested(k)))
<1>1. g = [l \in Indices(m) |-> CommentTurn(m, g, l)]
  BY InsideDefined
<1>2. CommentTurn(m, g, j) = CASE whole.v = "parse" -> Then(white, LAMBDA k : Char(m, k, ")"))
                               [] whole.v = "ok" -> IF whole.i = j THEN Spin ELSE g[whole.i]
                               [] OTHER -> whole
  BY DEF CommentTurn
<1>3. whole = content
  <2>1. Nested(white.i) = nested
    BY DEF Then, AndThen
  <2>2. whole = IF white.v = "ok" THEN Ccontent(m, white.i, Nested(white.i)) ELSE white
    BY DEF Then
  <2> HIDE DEF Nested, whole
  <2> QED
    BY <2>1, <2>2 DEF AndThen
<1>4. Then(white, LAMBDA k : Char(m, k, ")")) = AndThen(white, Char(m, white.i, ")"))
  BY DEF Then, AndThen
<1> HIDE DEF g, Nested, whole
<1>5. g[j] = CommentTurn(m, g, j)
  BY <1>1
<1>6. g[j] = IF content.v = "parse" THEN AndThen(white, Char(m, white.i, ")"))
             ELSE IF content.v = "ok" THEN IF content.i = j THEN Spin ELSE g[content.i]
             ELSE content
  BY <1>2, <1>3, <1>4, <1>5
<1> QED
  BY <1>6 DEF g

\* Where the text ends inside a comment's content, smtp_ccontent_parse accepts
\* nothing, and the loop around it does not end.
LEMMA ContentCut ==
    ASSUME NEW m, Len(m) \in Nat, NEW k \in Indices(m), k # Len(m), Ch(m, k) \in NotCtext,
           NEW open, open = Char(m, k, "("), NEW nested, nested = AndThen(open, Inside(m)[open.i]),
           Else(QuotedPair(m, k), nested).v = "cont"
    PROVE  Undecided(Inside(m)[k])
<1> DEFINE n == Len(m)
           c == Ch(m, k)
           white == Opt(Fws(m, k), k)
<1>1. ~(k >= n) /\ k \in Nat /\ k + 1 \in Indices(m) /\ (k + 1 >= n => k + 1 = n) /\ n \in Indices(m)
  BY DEF Indices
<1>2. PICK e \in k..n : IsBlankEnd(m, k, e) /\ Wsps(m, k) = IF e = n THEN More ELSE Ok(e)
  BY WspsIs
<1>3. CASE c \notin {" ", "\t", "\r", "\n"}
  <2>1. e = k
    <3>1. c \notin Wsp
      BY <1>3 DEF Wsp
    <3>2. e # k => k \in k..(e - 1)
      BY <1>1
    <3> QED
      BY <1>2, <3>1, <3>2 DEF IsBlankEnd
  <2>2. Wsps(m, k) = Ok(k) /\ Ok(k).v = "ok" /\ Ok(k).i = k
    BY <1>2, <2>1, Constants
  <2>3. CrLf(m, k) = Fail
    BY <1>3, CrLfIs
  <2>4. Fws(m, k) = Fail
    BY <1>1, <2>2, <2>3, Constants DEF Fws, Then
  <2>5. white = Ok(k)
    BY <2>4, Constants DEF Opt, Else
  <2>6. Ccontent(m, k, nested) = Ok(k)
    BY <1>1 DEF Ccontent
  <2>7. open = Char(m, white.i, "(") /\ AndThen(white, Ccontent(m, white.i, nested)) = Ok(k)
    BY <2>2, <2>5, <2>6 DEF AndThen
  <2> HIDE DEF white
  <2>8. Inside(m)[k] = Spin
    <3> DEFINE content == AndThen(white, Ccontent(m, white.i, nested))
    <3>1. content.v = "ok" /\ content.i = k
      BY <2>2, <2>7
    <3> HIDE DEF content
    <3>2. Inside(m)[k] = IF content.v = "parse" THEN AndThen(white, Char(m, white.i, ")"))
                         ELSE IF content.v = "ok" THEN IF content.i = k THEN Spin ELSE Inside(m)[content.i]
                         ELSE content
      BY <2>7, InsideTurn DEF white, content
    <3> QED
      BY <3>1, <3>2
  <2> QED
    BY <2>8, Constants DEF Undecided
<1>4. CASE c \in {" ", "\t", "\r", "\n"}
  <2>1. k + 1 = n
    <3> SUFFICES ASSUME ~(k + 1 >= n) PROVE FALSE
      BY <1>1
    <3>1. QuotedPair(m, k) = Fail
      BY <1>4 DEF QuotedPair
    <3>2. open = Fail
      BY <1>1, <1>4 DEF Char
    <3>3. nested = Fail
      BY <3>2, Constants DEF AndThen
    <3> QED
      BY <3>1, <3>3, Constants DEF Else
  <2>2. Fws(m, k) = More
    <3>1. CASE e = n
      BY <1>2, <3>1 DEF Fws, Then, More
    <3>2. CASE e # n
      <4>1. e = k
        BY <1>1, <1>2, <2>1, <3>2
      <4>2. c \in {"\r", "\n"}
        <5>1. c \notin Wsp
          BY <1>2, <3>2, <4>1, <1>1 DEF IsBlankEnd
        <5> QED
          BY <1>4, <5>1 DEF Wsp
      <4>3. Wsps(m, k) = Ok(k) /\ Ok(k).v = "ok" /\ Ok(k).i = k
        BY <1>2, <3>2, <4>1, Constants
      <4> DEFINE break == CrLf(m, k)
                 folded == Wsps(m, break.i)
      <4>4. Fws(m, k) = IF break.v = "parse" \/ (break.v = "ok" /\ folded = Ok(break.i))
                        THEN IF k > k THEN Ok(k) ELSE Fail
                        ELSE AndThen(break, folded)
        BY <4>3 DEF Fws, Then
      <4>5. CASE c = "\r"
        <5>1. break = More
          BY <2>1, <4>5, CrLfIs
        <5> HIDE DEF break, folded
        <5> QED
          BY <4>4, <5>1, Constants DEF AndThen
      <4>6. CASE c = "\n"
        <5>1. break = Ok(n)
          BY <2>1, <4>6, CrLfIs
        <5>2. break.v = "ok" /\ break.i = n
          BY <5>1, Constants
        <5>3. folded = More
          <6>1. PICK f \in n..n : Wsps(m, n) = IF f = n THEN More ELSE Ok(f)
            BY <1>1, WspsIs
          <6> QED
            BY <5>2, <6>1
        <5>4. folded # Ok(break.i)
          BY <5>3 DEF More, Ok
        <5> HIDE DEF break, folded
        <5> QED
          BY <4>4, <5>2, <5>3, <5>4 DEF AndThen
      <4> QED
        BY <4>2, <4>5, <4>6
    <3> QED
      BY <3>1, <3>2
  <2>3. white = More
    BY <2>2, Constants DEF Opt, Else
  <2> DEFINE way == Char(m, white.i, "(")
             deep == AndThen(way, Inside(m)[way.i])
             content == AndThen(white, Ccontent(m, white.i, deep))
  <2>4. content = More
    BY <2>3, Constants DEF AndThen
  <2>5. Inside(m)[k] = IF content.v = "parse" THEN AndThen(white, Char(m, white.i, ")"))
                       ELSE IF content.v = "ok" THEN IF content.i = k THEN Spin ELSE Inside(m)[content.i]
                       ELSE content
    BY InsideTurn
  <2> HIDE DEF content
  <2>6. Inside(m)[k] = More
    BY <2>4, <2>5, Constants
  <2> QED
    BY <2>6, Constants DEF Undecided
<1> QED
  BY <1>3, <1>4

\* A part of a comment keeps to its answer: what it does not know how to answer
\* where the text ends, it does not answer before the text is longer.
LEMMA InsideFirm ==
    ASSUME NEW m, NEW m2, Begins(m, m2)
    PROVE  /\ \A i \in Indices(m) : Firm(Inside(m)[i], Inside(m2)[i])
           /\ Undecided(Inside(m)[Len(m)])
<1> DEFINE n == Len(m)
           g == Inside(m)
           g2 == Inside(m2)
           Bad == {i \in Indices(m) : ~Firm(g[i], g2[i])}
<1>1. n \in Nat /\ Len(m2) \in Nat /\ n \in Indices(m)
  BY DEF Begins, Indices
<1>2. ASSUME NEW j \in Indices(m), NEW white, white = Opt(Fws(m, j), j),
             Undecided(white)
      PROVE  Undecided(g[j])
  <2> DEFINE open == Char(m, white.i, "(")
             nested == AndThen(open, g[open.i])
             content == AndThen(white, Ccontent(m, white.i, nested))
  <2>1. content = white /\ white.v \notin {"ok", "parse"}
    BY <1>2 DEF AndThen, Undecided
  <2>2. g[j] = IF content.v = "parse" THEN AndThen(white, Char(m, white.i, ")"))
               ELSE IF content.v = "ok" THEN IF content.i = j THEN Spin ELSE g[content.i]
               ELSE content
    BY <1>1, <1>2, InsideTurn
  <2> HIDE DEF content, g
  <2>3. g[j] = white
    BY <2>1, <2>2
  <2> QED
    BY <1>2, <2>3
<1>3. ASSUME NEW j \in Indices(m), \A i \in Indices(m) : i > j => Firm(g[i], g2[i])
      PROVE  Firm(g[j], g2[j])
  <2> DEFINE white == Opt(Fws(m, j), j)
             white2 == Opt(Fws(m2, j), j)
             k == white.i
             open == Char(m, white.i, "(")
             open2 == Char(m2, white2.i, "(")
             nested == AndThen(open, g[open.i])
             nested2 == AndThen(open2, g2[open2.i])
             content == AndThen(white, Ccontent(m, white.i, nested))
             content2 == AndThen(white2, Ccontent(m2, white2.i, nested2))
             r == Else(QuotedPair(m, k), nested)
             r2 == Else(QuotedPair(m2, k), nested2)
  <2>1. g[j] = IF content.v = "parse" THEN AndThen(white, Char(m, white.i, ")"))
               ELSE IF content.v = "ok" THEN IF content.i = j THEN Spin ELSE g[content.i]
               ELSE content
    BY <1>1, InsideTurn
  <2>2. g2[j] = IF content2.v = "parse" THEN AndThen(white2, Char(m2, white2.i, ")"))
                ELSE IF content2.v = "ok" THEN IF content2.i = j THEN Spin ELSE g2[content2.i]
                ELSE content2
    BY <1>1, InsideTurn, Within
  <2>3. Settled(white, white2, n)
    BY FwsSettled, OptSettled
  <2>4. CASE Undecided(white)
    BY <1>2, <2>4 DEF Firm
  <2>5. CASE ~Undecided(white)
    <3>1. white.v = "ok" /\ k \in Indices(m) /\ k >= j /\ k # n /\ white2 = white
      <4>1. Answer(white, j, m, Verdicts(m)) /\ white.v # "parse"
        BY <1>1, FwsAnswer, OptAnswer, VerdictsAre
      <4> HIDE DEF white, white2
      <4>2. white.v = "ok"
        BY <2>5, <4>1 DEF Answer, Verdicts, Undecided
      <4> QED
        BY <2>3, <2>5, <4>1, <4>2 DEF Answer, Settled, Indices
    <3>2. k < n /\ ~(k >= n) /\ ~(k >= Len(m2)) /\ Ch(m2, k) = Ch(m, k) /\ k + 1 \in Indices(m) /\ k + 1 > j
          /\ k \in Indices(m2)
      BY <3>1, Within DEF Indices
    <3>3. open = (IF Ch(m, k) = "(" THEN Ok(k + 1) ELSE Fail) /\ open2 = open
      BY <3>1, <3>2 DEF Char
    <3>4. Firm(nested, nested2) /\ Answer(nested, k, m, Spinning)
      <4>1. CASE open = Fail
        <5>1. nested = Fail /\ nested2 = Fail
          BY <3>3, <4>1, Constants DEF AndThen
        <5>2. {"ok", "parse", "cont"} \subseteq Spinning
          BY DEF Spinning
        <5> QED
          BY <1>1, <5>1, <5>2, ConstantAnswers DEF Firm
      <4>2. CASE open = Ok(k + 1)
        <5>1. nested = g[k + 1] /\ nested2 = g2[k + 1]
          <6>1. open.v = "ok" /\ open.i = k + 1
            BY <4>2, Constants
          <6> HIDE DEF open, open2
          <6> QED
            BY <3>3, <6>1 DEF AndThen
        <5>2. Answer(g[k + 1], k + 1, m, Spinning)
          BY <1>1, <3>2, InsideDefined
        <5>3. Answer(g[k + 1], k, m, Spinning)
          BY <1>1, <3>1, <3>2, <5>2, AnswerLater DEF Indices
        <5> QED
          BY <1>3, <3>2, <5>1, <5>3
      <4> QED
        BY <3>3, <4>1, <4>2
    <3>5. content = Ccontent(m, k, nested) /\ content2 = Ccontent(m2, k, nested2)
      BY <3>1 DEF AndThen
    <3>6. AndThen(white, Char(m, white.i, ")")) = Char(m, k, ")") /\ AndThen(white2, Char(m2, white2.i, ")")) = Char(m2, k, ")")
      BY <3>1 DEF AndThen
    <3>7. CASE Ch(m, k) \notin NotCtext
      <4>1. content = Ok(k + 1) /\ content2 = Ok(k + 1)
        BY <3>2, <3>5, <3>7 DEF Ccontent
      <4>2. content.v = "ok" /\ content.i = k + 1 /\ content2.v = "ok" /\ content2.i = k + 1 /\ k + 1 # j
        BY <3>2, <4>1, Constants DEF Indices
      <4> HIDE DEF content, content2, g, g2
      <4>3. g[j] = g[k + 1] /\ g2[j] = g2[k + 1]
        BY <2>1, <2>2, <4>2
      <4> QED
        BY <1>3, <3>2, <4>3
    <3>8. CASE Ch(m, k) \in NotCtext
      <4>1. content = (IF r.v = "cont" THEN Ok(k) ELSE r) /\ content2 = (IF r2.v = "cont" THEN Ok(k) ELSE r2)
        BY <3>2, <3>5, <3>8 DEF Ccontent
      <4>2. Firm(r, r2)
        <5>1. Firm(QuotedPair(m, k), QuotedPair(m2, k))
          BY <3>1, QuotedPairFirm
        <5> HIDE DEF nested, nested2
        <5> QED
          BY <3>4, <5>1, ElseKept, SettledIsFirm
      <4>3. CASE r.v = "cont"
        <5>1. Undecided(g[k])
          BY <1>1, <3>1, <3>8, <4>3, ContentCut
        <5>2. content = Ok(k) /\ content.v = "ok" /\ content.i = k
          BY <4>1, <4>3, Constants
        <5> HIDE DEF content, content2, g, g2
        <5>3. g[j] \in {Spin, g[k]}
          BY <2>1, <5>2
        <5> QED
          BY <5>1, <5>3, Constants DEF Firm, Undecided
      <4>4. CASE r.v \in {"spin", "null"}
        <5>1. content = r
          BY <4>1, <4>4
        <5> HIDE DEF content, content2, g, g2, r
        <5>2. g[j] = r
          BY <2>1, <4>4, <5>1
        <5> QED
          BY <4>4, <5>2 DEF Firm, Undecided
      <4>5. CASE r.v \notin {"cont", "spin", "null"}
        <5>1. r2 = r
          BY <4>2, <4>5 DEF Firm, Undecided
        <5>2. content = r /\ content2 = r
          BY <4>1, <4>5, <5>1
        <5>3. Answer(content, k, m, Spinning)
          BY <1>1, <3>1, <3>4, <3>5, CcontentAnswer
        <5> HIDE DEF content, content2, g, g2, r, r2
        <5>4. r.v \in {"ok", "parse"} /\ (r.v = "ok" => r.i \in Indices(m) /\ r.i >= k)
          BY <4>5, <5>2, <5>3 DEF Answer, Spinning, Indices
        <5>5. CASE r.v = "parse"
          <6>1. g[j] = Char(m, k, ")") /\ g2[j] = Char(m2, k, ")")
            BY <2>1, <2>2, <3>6, <5>2, <5>5
          <6> QED
            BY <3>1, <6>1, CharFirm
        <5>6. CASE r.v = "ok" /\ r.i = j
          <6>1. g[j] = Spin
            BY <2>1, <5>2, <5>6
          <6> QED
            BY <6>1, Constants DEF Firm, Undecided
        <5>7. CASE r.v = "ok" /\ r.i # j
          <6>1. g[j] = g[r.i] /\ g2[j] = g2[r.i]
            BY <2>1, <2>2, <5>2, <5>7
          <6>2. r.i \in Indices(m) /\ r.i > j
            BY <3>1, <5>4, <5>7 DEF Indices
          <6> QED
            BY <1>3, <6>1, <6>2
        <5> QED
          BY <5>4, <5>5, <5>6, <5>7
      <4> QED
        BY <4>3, <4>4, <4>5
    <3> QED
      BY <3>7, <3>8
  <2> QED
    BY <2>4, <2>5
<1> HIDE DEF g, g2
<1>4. Bad = {}
  <2> SUFFICES ASSUME Bad # {} PROVE FALSE
    OBVIOUS
  <2>1. PICK j \in Bad : \A i \in Bad : i <= j
    <3>1. Bad \subseteq 0..n
      BY DEF Indices
    <3> HIDE DEF Bad
    <3> QED
      BY <1>1, <3>1, LastOf
  <2>2. ASSUME NEW i \in Indices(m), i > j PROVE Firm(g[i], g2[i])
    BY <2>1, <2>2 DEF Indices
  <2> QED
    BY <1>3, <2>2
<1>5. Undecided(g[n])
  <2>1. Undecided(Opt(Fws(m, n), n))
    BY <1>1, FwsSettled DEF Opt, Else, Undecided
  <2> QED
    BY <1>1, <1>2, <2>1
<1> QED
  BY <1>4, <1>5 DEF g, g2

LEMMA CommentFirm ==
    ASSUME NEW m, NEW m2, Begins(m, m2), NEW i \in Indices(m)
    PROVE  /\ Firm(Comment(m, i), Comment(m2, i))
           /\ i = Len(m) => Undecided(Comment(m, i))
<1> DEFINE a == Char(m, i, "(")
           a2 == Char(m2, i, "(")
           b == Inside(m)[a.i]
           b2 == Inside(m2)[a2.i]
<1>1. Len(m) \in Nat /\ Firm(a, a2) /\ (i = Len(m) => Undecided(a))
  BY CharFirm, Within
<1>2. a.v = "ok" => a.i \in Indices(m)
  BY <1>1, CharAnswer DEF Answer, Indices
<1>3. a.v = "ok" /\ a.i = Len(m) => Undecided(b)
  BY InsideFirm
<1>4. a2 = a /\ a.v = "ok" => Firm(b, b2)
  BY <1>2, InsideFirm
<1>5. Comment(m, i) = AndThen(a, b) /\ Comment(m2, i) = AndThen(a2, b2)
  BY CommentIs DEF Then, AndThen
<1>6. Kept(a, a2, Len(m))
  BY <1>1, SettledIsFirm
<1> HIDE DEF a, a2, b, b2
<1> QED
  BY <1>1, <1>3, <1>4, <1>5, <1>6, FollowFirm

LEMMA FwsCommentFirm ==
    ASSUME NEW m, NEW m2, Begins(m, m2), NEW i \in Indices(m)
    PROVE  /\ Firm(FwsComment(m, i), FwsComment(m2, i))
           /\ i = Len(m) => Undecided(FwsComment(m, i))
<1> DEFINE a == Opt(Fws(m, i), i)
           a2 == Opt(Fws(m2, i), i)
           b == Comment(m, a.i)
           b2 == Comment(m2, a2.i)
<1>1. Len(m) \in Nat
  BY Within
<1>2. Settled(a, a2, Len(m)) /\ (i = Len(m) => Undecided(a))
  BY FwsSettled, OptSettled
<1>3. a.v = "ok" => a.i \in Indices(m)
  <2>1. Answer(a, i, m, Verdicts(m))
    BY <1>1, FwsAnswer, OptAnswer, VerdictsAre
  <2> QED
    BY <2>1 DEF Answer, Indices
<1>4. a.v = "ok" /\ a.i = Len(m) => Undecided(b)
  BY <1>3, CommentFirm
<1>5. a2 = a /\ a.v = "ok" => Firm(b, b2)
  BY <1>3, CommentFirm
<1>6. FwsComment(m, i) = AndThen(a, b) /\ FwsComment(m2, i) = AndThen(a2, b2)
  BY DEF FwsComment, Then, AndThen
<1>7. Kept(a, a2, Len(m))
  BY <1>2, SettledIsFirm
<1> HIDE DEF a, a2, b, b2
<1> QED
  BY <1>2, <1>4, <1>5, <1>6, <1>7, FollowFirm

LEMMA CfwsSettled ==
    ASSUME NEW m, NEW m2, Begins(m, m2), NEW i \in Indices(m)
    PROVE  Settled(Cfws(m, i), Cfws(m2, i), Len(m)) /\ (i = Len(m) => Undecided(Cfws(m, i)))
<1> DEFINE n == Len(m)
           p == [j \in Indices(m) |-> FwsComment(m, j)]
           p2 == [j \in Indices(m2) |-> FwsComment(m2, j)]
           a == Many(p, i)
           a2 == Many(p2, i)
           b == IF a.i > i THEN Ok(a.i) ELSE Fws(m, a.i)
           b2 == IF a2.i > i THEN Ok(a2.i) ELSE Fws(m2, a2.i)
<1>1. Len(m) \in Nat /\ Len(m2) \in Nat /\ Len(m) \in Indices(m)
  BY Within
<1>2. Parses(p, m, Verdicts(m)) /\ Parses(p2, m2, Verdicts(m2))
  BY <1>1, FwsCommentAnswer, VerdictsAre DEF Parses
<1>3. \A j \in Indices(m) : Firm(FwsComment(m, j), FwsComment(m2, j)) /\ (j = n => Undecided(FwsComment(m, j)))
  BY FwsCommentFirm
<1>4. Steady(p, p2, m)
  <2>1. \A j \in Indices(m) : p[j] = FwsComment(m, j) /\ p2[j] = FwsComment(m2, j)
    BY Within
  <2> HIDE DEF p, p2
  <2> QED
    BY <1>1, <1>3, <2>1, SettledIsFirm DEF Steady
<1>5. Cfws(m, i) = AndThen(a, b) /\ Cfws(m2, i) = AndThen(a2, b2)
  BY DEF Cfws, Then, AndThen
<1> HIDE DEF p, p2
<1>6. Settled(a, a2, n) /\ Undecided(Many(p, n)) /\ (a.v = "ok" => a.i \in Indices(m))
  BY <1>2, <1>4, ManySettled
<1>7. a2 = a /\ a.v = "ok" => Settled(b, b2, n)
  <2> SUFFICES ASSUME a2 = a, a.v = "ok" PROVE Settled(b, b2, n)
    OBVIOUS
  <2>1. a.i \in Indices(m) /\ a.i # n
    BY <1>6 DEF Settled, Undecided
  <2>2. CASE a.i > i
    BY <2>1, <2>2, Constants DEF Settled
  <2>3. CASE ~(a.i > i)
    BY <2>1, <2>3, FwsSettled
  <2> QED
    BY <2>2, <2>3
<1>8. a.v = "ok" => a.i # n
  BY <1>6 DEF Settled, Undecided
<1>9. Kept(a, a2, n) /\ (i = n => Undecided(a))
  BY <1>6, SettledIsFirm
<1> HIDE DEF a, a2, b, b2
<1> QED
  BY <1>5, <1>7, <1>8, <1>9, FollowSettled

\* What may precede a character, a word, a line's end: never the end of the text.
LEMMA MayCfwsSettled ==
    ASSUME NEW m, NEW m2, Begins(m, m2), NEW i \in Indices(m)
    PROVE  /\ Settled(Opt(Cfws(m, i), i), Opt(Cfws(m2, i), i), Len(m))
           /\ i = Len(m) => Undecided(Opt(Cfws(m, i), i))
           /\ Opt(Cfws(m, i), i).v = "ok" => Opt(Cfws(m, i), i).i \in Indices(m)
<1>1. Len(m) \in Nat
  BY Within
<1> QED
  BY <1>1, CfwsSettled, OptSettled, MayCfws

LEMMA UnstrictCharFirm ==
    ASSUME NEW m, NEW m2, Begins(m, m2), NEW i \in Indices(m), NEW c
    PROVE  /\ Firm(UnstrictChar(m, i, c), UnstrictChar(m2, i, c))
           /\ i = Len(m) => Undecided(UnstrictChar(m, i, c))
<1> DEFINE a == Opt(Cfws(m, i), i)
           a2 == Opt(Cfws(m2, i), i)
           b == Char(m, a.i, c)
           b2 == Char(m2, a2.i, c)
<1>1. Settled(a, a2, Len(m)) /\ (i = Len(m) => Undecided(a)) /\ (a.v = "ok" => a.i \in Indices(m))
  BY MayCfwsSettled
<1>2. a.v = "ok" /\ a.i = Len(m) => Undecided(b)
  BY <1>1, CharFirm
<1>3. a2 = a /\ a.v = "ok" => Firm(b, b2)
  BY <1>1, CharFirm
<1>4. UnstrictChar(m, i, c) = AndThen(a, b) /\ UnstrictChar(m2, i, c) = AndThen(a2, b2)
  BY UnstrictCharIs DEF AndThen
<1>5. Kept(a, a2, Len(m))
  BY <1>1, SettledIsFirm
<1> HIDE DEF a, a2, b, b2
<1> QED
  BY <1>1, <1>2, <1>3, <1>4, <1>5, FollowFirm

\* A line's end behind white space: the answer about the white space is ignored,
\* so the answer is kept only where that one was given.
LEMMA UnstrictCrLfFirm ==
    ASSUME NEW m, NEW m2, Begins(m, m2), NEW i \in Indices(m), ~Undecided(Cfws(m, i))
    PROVE  Firm(UnstrictCrLf(m, i), UnstrictCrLf(m2, i))
<1> DEFINE a == Cfws(m, i)
           k == IF a.v = "ok" THEN a.i ELSE i
<1>1. Len(m) \in Nat /\ Cfws(m2, i) = a /\ a.v # "spin"
  BY CfwsSettled, Within DEF Settled, Undecided
<1>2. UnstrictCrLf(m, i) = CrLf(m, k) /\ UnstrictCrLf(m2, i) = CrLf(m2, k)
  BY <1>1 DEF UnstrictCrLf
<1>3. k \in Indices(m)
  BY <1>1, CfwsAnswer DEF Answer, Indices
<1> HIDE DEF a, k
<1> QED
  BY <1>2, <1>3, CrLfFirm

-----------------------------------------------------------------------------
(***************************************************************************)
(* Lines, runs of characters and words.                                    *)
(***************************************************************************)
LEMMA StrCrLfFirm ==
    ASSUME NEW m, NEW m2, Begins(m, m2), NEW i \in Indices(m)
    PROVE  Firm(StrCrLf(m, i), StrCrLf(m2, i))
<1> DEFINE Ends(t) == {j \in i..(Len(t) - 2) : Ch(t, j) = "\r" /\ Ch(t, j + 1) = "\n"}
           First(t) == CHOOSE j \in Ends(t) : \A k \in Ends(t) : j <= k
<1>1. Len(m) \in Nat /\ Len(m2) \in Nat /\ Len(m) <= Len(m2) /\ i \in 0..Len(m)
  BY DEF Begins, Indices
<1>2. ASSUME NEW j \in i..(Len(m) - 2) PROVE j \in Ends(m) <=> j \in Ends(m2)
  <2>1. j \in 0..(Len(m) - 1) /\ j + 1 \in 0..(Len(m) - 1) /\ j \in i..(Len(m2) - 2)
    BY <1>1
  <2>2. Ch(m, j) = Ch(m2, j) /\ Ch(m, j + 1) = Ch(m2, j + 1)
    BY <2>1 DEF Begins
  <2> QED
    BY <2>1, <2>2
<1>3. \A t : StrCrLf(t, i) = IF Ends(t) = {} THEN More ELSE Ok(2 + First(t))
  BY DEF StrCrLf
<1>4. CASE Ends(m) = {}
  <2>1. StrCrLf(m, i) = More
    BY <1>3, <1>4
  <2> QED
    BY <2>1, Constants DEF Firm, Undecided
<1>5. CASE Ends(m) # {}
  <2>1. Ends(m) \subseteq i..(Len(m) - 2) /\ Ends(m2) \subseteq i..(Len(m2) - 2)
    OBVIOUS
  <2> HIDE DEF Ends
  <2>2. PICK x \in Ends(m) : \A y \in Ends(m) : x <= y
    <3>1. Ends(m) \subseteq Nat
      BY <1>1, <2>1
    <3> QED
      BY <1>5, <3>1, LeastOf
  <2>3. x \in Ends(m2) /\ \A y \in Ends(m2) : x <= y
    <3>1. x \in Ends(m2)
      BY <1>2, <2>1
    <3>2. ASSUME NEW y \in Ends(m2), ~(x <= y) PROVE FALSE
      <4>1. y \in i..(Len(m) - 2)
        BY <1>1, <2>1, <3>2
      <4> QED
        BY <1>2, <2>2, <3>2, <4>1
    <3> QED
      BY <3>1, <3>2
  <2>4. First(m) = x
    <3>1. First(m) \in Ends(m) /\ \A k \in Ends(m) : First(m) <= k
      BY <2>2
    <3> HIDE DEF First
    <3> QED
      BY <1>1, <2>1, <2>2, <3>1
  <2>5. First(m2) = x
    <3>1. First(m2) \in Ends(m2) /\ \A k \in Ends(m2) : First(m2) <= k
      BY <2>3
    <3> HIDE DEF First
    <3> QED
      BY <1>1, <2>1, <2>3, <3>1
  <2>6. StrCrLf(m, i) = Ok(2 + x) /\ StrCrLf(m2, i) = Ok(2 + x)
    BY <1>3, <1>5, <2>3, <2>4, <2>5
  <2> QED
    BY <2>6 DEF Firm
<1> QED
  BY <1>4, <1>5

\* A run of characters that ends before the text does.
LEMMA SpanKept ==
    ASSUME NEW m, NEW m2, Begins(m, m2), NEW i \in Indices(m), NEW stops
    PROVE  /\ Span(m, i, stops) \in i..Len(m) /\ Span(m, i, stops) \in Indices(m)
           /\ Span(m, i, stops) # Len(m) =>
                /\ Span(m2, i, stops) = Span(m, i, stops)
                /\ SubSeq(m2, i + 1, Span(m2, i, stops)) = SubSeq(m, i + 1, Span(m, i, stops))
<1> DEFINE e == Span(m, i, stops)
           e2 == Span(m2, i, stops)
<1>1. Len(m) \in Nat /\ Len(m2) \in Nat /\ Len(m) <= Len(m2) /\ i \in 0..Len(m) /\ i \in Indices(m2)
  BY DEF Begins, Indices
<1>2. e \in i..Len(m) /\ (e < Len(m) => Ch(m, e) \in stops) /\ \A k \in i..(e - 1) : Ch(m, k) \notin stops
  BY <1>1, SpanEnds
<1>3. e2 \in i..Len(m2) /\ (e2 < Len(m2) => Ch(m2, e2) \in stops) /\ \A k \in i..(e2 - 1) : Ch(m2, k) \notin stops
  BY <1>1, SpanEnds
<1> HIDE DEF e, e2
<1>4. ASSUME e # Len(m) PROVE e2 = e
  <2>1. e < Len(m) /\ e \in 0..(Len(m) - 1)
    BY <1>1, <1>2, <1>4
  <2>2. ~(e < e2)
    <3> SUFFICES ASSUME e < e2 PROVE FALSE
      OBVIOUS
    <3>1. e \in i..(e2 - 1)
      BY <1>1, <1>2, <1>3
    <3> QED
      BY <1>2, <1>3, <2>1, <3>1 DEF Begins
  <2>3. ~(e2 < e)
    <3> SUFFICES ASSUME e2 < e PROVE FALSE
      OBVIOUS
    <3>1. e2 \in i..(e - 1) /\ e2 \in 0..(Len(m) - 1) /\ e2 < Len(m2)
      BY <1>1, <1>2, <1>3, <2>1
    <3> QED
      BY <1>2, <1>3, <3>1 DEF Begins
  <2> QED
    BY <1>1, <1>2, <1>3, <2>2, <2>3
<1>5. e \in Indices(m)
  BY <1>1, <1>2 DEF Indices
<1>6. SubSeq(m2, i + 1, e) = SubSeq(m, i + 1, e)
  BY <1>5 DEF Begins
<1> QED
  BY <1>2, <1>4, <1>5, <1>6 DEF e, e2

\* What is read up to the end of such a run.
LEMMA CustomStringKept ==
    ASSUME NEW m, NEW m2, Begins(m, m2), NEW i \in Indices(m), NEW stops
    PROVE  /\ Kept(CustomString(m, i, stops), CustomString(m2, i, stops), Len(m))
           /\ i = Len(m) => Undecided(CustomString(m, i, stops))
<1> DEFINE e == Span(m, i, stops)
           e2 == Span(m2, i, stops)
<1>1. CASE i = Len(m)
  BY <1>1, Within, Constants DEF CustomString, Kept, Undecided
<1>2. CASE i # Len(m)
  <2>1. ~(i >= Len(m)) /\ ~(i >= Len(m2))
    BY <1>2, Within
  <2>2. CustomString(m, i, stops) = IF e = i THEN Fail ELSE Got(e, <<Part(m, i, e)>>)
    BY <2>1 DEF CustomString
  <2>3. CustomString(m2, i, stops) = IF e2 = i THEN Fail ELSE Got(e2, <<Part(m2, i, e2)>>)
    BY <2>1 DEF CustomString
  <2>4. e # Len(m) => e2 = e /\ Part(m2, i, e2) = Part(m, i, e)
    BY SpanKept DEF Part
  <2> HIDE DEF e, e2
  <2>5. CASE e = Len(m)
    <3>1. CustomString(m, i, stops) = Got(Len(m), <<Part(m, i, e)>>)
      BY <1>2, <2>2, <2>5
    <3> QED
      BY <1>2, <3>1, Constants DEF Kept
  <2>6. CASE e # Len(m)
    BY <1>2, <2>2, <2>3, <2>4, <2>6 DEF Kept
  <2> QED
    BY <2>5, <2>6
<1> QED
  BY <1>1, <1>2

LEMMA TokenKept ==
    ASSUME NEW m, NEW m2, Begins(m, m2), NEW i \in Indices(m)
    PROVE  Kept(Token(m, i), Token(m2, i), Len(m)) /\ (i = Len(m) => Undecided(Token(m, i)))
  BY CustomStringKept DEF Token

\* White space answered for, as words take it.
White(ws, ws2, i, m) == Answer(ws, i, m, Verdicts(m)) /\ Settled(ws, ws2, Len(m)) /\ (i = Len(m) => Undecided(ws))

LEMMA WhiteOpt ==
    ASSUME NEW m, NEW m2, Begins(m, m2), NEW i \in Indices(m), NEW ws, NEW ws2, White(ws, ws2, i, m)
    PROVE  /\ Settled(Opt(ws, i), Opt(ws2, i), Len(m)) /\ Kept(Opt(ws, i), Opt(ws2, i), Len(m))
           /\ i = Len(m) => Undecided(Opt(ws, i))
           /\ Opt(ws, i).v = "ok" => Opt(ws, i).i \in Indices(m) /\ Opt(ws, i).i # Len(m)
<1>1. Len(m) \in Nat
  BY Within
<1>2. Settled(Opt(ws, i), Opt(ws2, i), Len(m)) /\ (i = Len(m) => Undecided(Opt(ws, i)))
  BY OptSettled DEF White
<1>3. Answer(Opt(ws, i), i, m, Verdicts(m))
  BY <1>1, OptAnswer, VerdictsAre DEF White
<1> QED
  BY <1>2, <1>3, SettledIsFirm DEF Answer, Indices, Settled, Undecided

LEMMA AtomAfterKept ==
    ASSUME NEW m, NEW m2, Begins(m, m2), NEW i \in Indices(m), NEW ws, NEW ws2, White(ws, ws2, i, m)
    PROVE  /\ Kept(AtomAfter(m, i, ws), AtomAfter(m2, i, ws2), Len(m))
           /\ i = Len(m) => Undecided(AtomAfter(m, i, ws))
<1> DEFINE n == Len(m)
           Rest1(t, j) == IF j >= Len(t) THEN Fail
                          ELSE LET e == Span(t, j, NotAtext)
                               IN IF e = j THEN Fail ELSE Got(e, <<Part(t, j, e)>>)
           a == Opt(ws, i)
           a2 == Opt(ws2, i)
           b == Rest1(m, a.i)
           b2 == Rest1(m2, a2.i)
<1>1. AtomAfter(m, i, ws) = AndThen(a, b) /\ AtomAfter(m2, i, ws2) = AndThen(a2, b2)
  BY DEF AtomAfter, Then, AndThen
<1>2. Kept(a, a2, n) /\ (i = n => Undecided(a)) /\ (a.v = "ok" => a.i \in Indices(m) /\ a.i # n)
  BY WhiteOpt
<1> HIDE DEF a, a2, b, b2
<1>3. ASSUME NEW j \in Indices(m), j # n PROVE Kept(Rest1(m, j), Rest1(m2, j), n)
  <2>1. ~(j >= Len(m)) /\ ~(j >= Len(m2))
    BY <1>3, Within
  <2>2. Rest1(m, j) = CustomString(m, j, NotAtext) /\ Rest1(m2, j) = CustomString(m2, j, NotAtext)
    BY <2>1 DEF CustomString
  <2> HIDE DEF Rest1
  <2> QED
    BY <2>2, CustomStringKept
<1>4. a2 = a /\ a.v = "ok" => Kept(b, b2, n)
  BY <1>2, <1>3 DEF b, b2
<1> QED
  BY <1>1, <1>2, <1>4, FollowKept

LEMMA QcontentFirm ==
    ASSUME NEW m, NEW m2, Begins(m, m2), NEW i \in Indices(m)
    PROVE  /\ Firm(Qcontent(m, i), Qcontent(m2, i)) /\ (i = Len(m) => Undecided(Qcontent(m, i)))
           /\ Firm(Dcontent(m, i), Dcontent(m2, i)) /\ (i = Len(m) => Undecided(Dcontent(m, i)))
<1>1. CASE i = Len(m)
  BY <1>1, Within, Constants DEF Qcontent, Dcontent, Firm, Undecided
<1>2. CASE i # Len(m)
  <2>1. ~(i >= Len(m)) /\ ~(i >= Len(m2)) /\ Ch(m2, i) = Ch(m, i)
    BY <1>2, Within
  <2>2. Firm(QuotedPair(m, i), QuotedPair(m2, i))
    BY QuotedPairFirm
  <2> QED
    BY <1>2, <2>1, <2>2 DEF Qcontent, Dcontent, Firm
<1> QED
  BY <1>1, <1>2

LEMMA QuotedFromFirm ==
    ASSUME NEW m, NEW m2, Begins(m, m2), NEW i \in Indices(m)
    PROVE  /\ Firm(QuotedFrom(m, i), QuotedFrom(m2, i))
           /\ Undecided(QuotedFrom(m, Len(m)))
<1> DEFINE n == Len(m)
           t == QuotedTurns(m)
           t2 == QuotedTurns(m2)
           q(x) == Loop(QuotedTurns(x), i)
<1>1. n \in Nat /\ Len(m2) \in Nat /\ n <= Len(m2) /\ n \in Indices(m)
  BY DEF Begins, Indices
<1>2. ASSUME NEW j \in Indices(m)
      PROVE  /\ Undecided(QuotedTurn(m, j)) \/ QuotedTurn(m2, j) = QuotedTurn(m, j)
             /\ j = n => Undecided(QuotedTurn(m, j))
  <2> DEFINE space == Fws(m, j)
             space2 == Fws(m2, j)
             k == IF space.v = "ok" THEN space.i ELSE j
             k2 == IF space2.v = "ok" THEN space2.i ELSE j
             blank == IF space.v = "ok" THEN " " ELSE ""
             blank2 == IF space2.v = "ok" THEN " " ELSE ""
             r == Qcontent(m, k)
             r2 == Qcontent(m2, k2)
             c == Char(m, k, "\"")
             c2 == Char(m2, k2, "\"")
  <2>1. QuotedTurn(m, j) = IF space.v \notin {"ok", "parse"} THEN space
                           ELSE CASE r.v = "ok" -> Again(r.i, <<blank, r.val[1]>>)
                                  [] r.v = "parse" -> With(c, <<blank>>)
                                  [] OTHER -> r
    BY DEF QuotedTurn
  <2>2. QuotedTurn(m2, j) = IF space2.v \notin {"ok", "parse"} THEN space2
                            ELSE CASE r2.v = "ok" -> Again(r2.i, <<blank2, r2.val[1]>>)
                                   [] r2.v = "parse" -> With(c2, <<blank2>>)
                                   [] OTHER -> r2
    BY DEF QuotedTurn
  <2>3. Settled(space, space2, n) /\ (j = n => Undecided(space)) /\ (space.v = "ok" => space.i \in Indices(m))
    BY <1>1, FwsSettled, FwsAnswer DEF Answer, Indices
  <2>4. k \in Indices(m)
    BY <2>3
  <2>5. Firm(r, Qcontent(m2, k)) /\ Firm(c, Char(m2, k, "\""))
    BY <2>4, QcontentFirm, CharFirm
  <2>6. space2 = space => k2 = k /\ blank2 = blank /\ r2 = Qcontent(m2, k) /\ c2 = Char(m2, k, "\"")
    OBVIOUS
  <2> HIDE DEF space, space2, k, k2, blank, blank2, r, r2, c, c2
  <2>7. CASE Undecided(space)
    <3>1. QuotedTurn(m, j) = space
      BY <2>1, <2>7 DEF Undecided
    <3> QED
      BY <2>7, <3>1
  <2>8. CASE ~Undecided(space)
    <3>1. space2 = space /\ j # n
      BY <2>3, <2>8 DEF Settled
    <3>2. Firm(r, r2) /\ Firm(c, c2) /\ k2 = k /\ blank2 = blank
      BY <2>5, <2>6, <3>1
    <3>3. CASE space.v \notin {"ok", "parse"}
      BY <2>1, <2>2, <3>1, <3>3
    <3>4. CASE space.v \in {"ok", "parse"} /\ r.v = "parse"
      <4>1. r2 = r
        BY <3>2, <3>4 DEF Firm, Undecided
      <4>2. QuotedTurn(m, j) = With(c, <<blank>>) /\ QuotedTurn(m2, j) = With(c2, <<blank>>)
        BY <2>1, <2>2, <3>1, <3>2, <3>4, <4>1
      <4> QED
        BY <3>1, <3>2, <4>2, WithKept DEF Firm
    <3>5. CASE space.v \in {"ok", "parse"} /\ r.v # "parse"
      <4>1. CASE Undecided(r)
        BY <2>1, <3>1, <3>5, <4>1 DEF Undecided
      <4>2. CASE r2 = r
        BY <2>1, <2>2, <3>1, <3>2, <3>5, <4>2
      <4> QED
        BY <3>2, <4>1, <4>2 DEF Firm
    <3> QED
      BY <3>3, <3>4, <3>5
  <2> QED
    BY <2>7, <2>8
<1>3. Turning(t, t2, n)
  <2>1. \A j \in Indices(m) : t[j] = QuotedTurn(m, j) /\ t2[j] = QuotedTurn(m2, j)
    BY Within DEF QuotedTurns
  <2> HIDE DEF t, t2
  <2> QED
    BY <1>1, <1>2, <2>1 DEF Turning, Indices
<1>4. Forward(t, n) /\ Forward(t2, Len(m2))
  <2>1. \A x : Len(x) \in Nat => Forward(QuotedTurns(x), Len(x))
    <3> SUFFICES ASSUME NEW x, Len(x) \in Nat PROVE Forward(QuotedTurns(x), Len(x))
      OBVIOUS
    <3>1. \A j \in Indices(x) : QuotedTurn(x, j).v = "again" => QuotedTurn(x, j).i \in (j + 1)..Len(x)
      BY QuotedTurnAnswer
    <3> QED
      BY <3>1 DEF QuotedTurns, Forward, Indices
  <2> QED
    BY <1>1, <2>1
<1>5. Firm(q(m), q(m2)) /\ Undecided(Loop(t, n))
  <2>1. i \in 0..n
    BY DEF Indices
  <2> HIDE DEF t, t2
  <2>2. Firm(Loop(t, i), Loop(t2, i)) /\ Undecided(Loop(t, n))
    BY <1>1, <1>3, <1>4, <2>1, LoopFirm
  <2> QED
    BY <2>2 DEF t, t2
<1>6. \A x, k : QuotedFrom(x, k) = With(Loop(QuotedTurns(x), k), <<Joined(Loop(QuotedTurns(x), k).val)>>)
  BY DEF QuotedFrom, QuotedTurns, QuotedTurn
<1>7. QuotedFrom(m, i) = With(q(m), <<Joined(q(m).val)>>) /\ QuotedFrom(m2, i) = With(q(m2), <<Joined(q(m2).val)>>)
  BY <1>6
<1>8. Undecided(QuotedFrom(m, n))
  BY <1>5, <1>6, WithKept
<1> HIDE DEF q
<1> QED
  BY <1>5, <1>7, <1>8, WithKept

LEMMA QuotedAfterFirm ==
    ASSUME NEW m, NEW m2, Begins(m, m2), NEW i \in Indices(m), NEW ws, NEW ws2, White(ws, ws2, i, m)
    PROVE  /\ Firm(QuotedAfter(m, i, ws), QuotedAfter(m2, i, ws2))
           /\ i = Len(m) => Undecided(QuotedAfter(m, i, ws))
<1> DEFINE n == Len(m)
           a == Opt(ws, i)
           a2 == Opt(ws2, i)
           b == Char(m, a.i, "\"")
           b2 == Char(m2, a2.i, "\"")
           c == AndThen(a, b)
           c2 == AndThen(a2, b2)
           d == QuotedFrom(m, c.i)
           d2 == QuotedFrom(m2, c2.i)
<1>1. QuotedAfter(m, i, ws) = AndThen(c, d) /\ QuotedAfter(m2, i, ws2) = AndThen(c2, d2)
  BY DEF QuotedAfter, Then, AndThen
<1>2. Kept(a, a2, n) /\ (i = n => Undecided(a)) /\ (a.v = "ok" => a.i \in Indices(m) /\ a.i # n) /\ n \in Nat
  BY WhiteOpt, Within
<1>3. a2 = a /\ a.v = "ok" => Firm(b, b2)
  BY <1>2, CharFirm
<1>4. a.v = "ok" /\ b.v = "ok" => b.i \in Indices(m)
  BY <1>2, CharAnswer DEF Answer, Indices
<1>5. Firm(c, c2) /\ (i = n => Undecided(c))
  <2> HIDE DEF a, a2, b, b2
  <2> QED
    BY <1>2, <1>3, FollowFirm
<1>6. c.v = "ok" => c.i \in Indices(m)
  BY <1>4 DEF AndThen
<1>7. c.v = "ok" /\ c.i = n => Undecided(d)
  BY <1>6, QuotedFromFirm
<1>8. c2 = c /\ c.v = "ok" => Firm(d, d2)
  BY <1>6, QuotedFromFirm
<1>9. Kept(c, c2, n)
  BY <1>5, SettledIsFirm
<1> HIDE DEF c, c2, d, d2
<1> QED
  BY <1>1, <1>5, <1>7, <1>8, <1>9, FollowFirm

\* The words of the library.
LEMMA WordsKept ==
    ASSUME NEW m, NEW m2, Begins(m, m2), NEW i \in Indices(m)
    PROVE  /\ Kept(Atom(m, i), Atom(m2, i), Len(m)) /\ (i = Len(m) => Undecided(Atom(m, i)))
           /\ Firm(QuotedString(m, i), QuotedString(m2, i)) /\ (i = Len(m) => Undecided(QuotedString(m, i)))
           /\ Kept(FwsWord(m, i), FwsWord(m2, i), Len(m)) /\ (i = Len(m) => Undecided(FwsWord(m, i)))
<1> DEFINE n == Len(m)
<1>1. n \in Nat
  BY Within
<1>2. White(Cfws(m, i), Cfws(m2, i), i, m)
  BY <1>1, CfwsAnswer, CfwsSettled DEF White
<1>3. White(Fws(m, i), Fws(m2, i), i, m)
  BY <1>1, FwsAnswer, FwsSettled DEF White
<1>4. Kept(Atom(m, i), Atom(m2, i), n) /\ (i = n => Undecided(Atom(m, i)))
  BY <1>2, AtomAfterKept DEF Atom
<1>5. Firm(QuotedString(m, i), QuotedString(m2, i)) /\ (i = n => Undecided(QuotedString(m, i)))
  BY <1>2, QuotedAfterFirm DEF QuotedString
<1>6. Kept(FwsAtom(m, i), FwsAtom(m2, i), n) /\ (i = n => Undecided(FwsAtom(m, i)))
  BY <1>3, AtomAfterKept DEF FwsAtom
<1>7. Firm(FwsQuotedString(m, i), FwsQuotedString(m2, i)) /\ (i = n => Undecided(FwsQuotedString(m, i)))
  BY <1>3, QuotedAfterFirm DEF FwsQuotedString
<1>8. Kept(FwsWord(m, i), FwsWord(m2, i), n) /\ (i = n => Undecided(FwsWord(m, i)))
  BY <1>6, <1>7, ElseKept, SettledIsFirm DEF FwsWord
<1> QED
  BY <1>4, <1>5, <1>8

LEMMA PhraseSettled ==
    ASSUME NEW m, NEW m2, Begins(m, m2), NEW i \in Indices(m)
    PROVE  /\ Settled(Phrase(m, i), Phrase(m2, i), Len(m)) /\ Undecided(Phrase(m, Len(m)))
<1> DEFINE n == Len(m)
           p == [j \in Indices(m) |-> FwsWord(m, j)]
           p2 == [j \in Indices(m2) |-> FwsWord(m2, j)]
<1>1. n \in Nat /\ Len(m2) \in Nat /\ n \in Indices(m)
  BY DEF Begins, Indices
<1>2. Parses(p, m, Verdicts(m)) /\ Parses(p2, m2, Verdicts(m2))
  BY <1>1, WordAnswers, VerdictsAre DEF Parses
<1>3. Steady(p, p2, m)
  <2>1. \A j \in Indices(m) : p[j] = FwsWord(m, j) /\ p2[j] = FwsWord(m2, j)
    BY Within
  <2> HIDE DEF p, p2
  <2> QED
    BY <1>1, <2>1, WordsKept DEF Steady
<1>4. \A k : Phrase(m, k) = Many1(p, k) /\ Phrase(m2, k) = Many1(p2, k)
  BY DEF Phrase
<1> HIDE DEF p, p2
<1> QED
  BY <1>2, <1>3, <1>4, Many1Settled

\* Numbers and keywords.
LEMMA DigitFirm ==
    ASSUME NEW m, NEW m2, Begins(m, m2), NEW i \in Indices(m)
    PROVE  Firm(Digit(m, i), Digit(m2, i)) /\ (i = Len(m) => Undecided(Digit(m, i)))
<1>1. CASE i = Len(m)
  BY <1>1, Within, Constants DEF Digit, Firm, Undecided
<1>2. CASE i # Len(m)
  <2>1. ~(i >= Len(m)) /\ ~(i >= Len(m2)) /\ Ch(m2, i) = Ch(m, i)
    BY <1>2, Within
  <2>2. Digit(m2, i) = Digit(m, i)
    BY <2>1 DEF Digit
  <2> QED
    BY <1>2, <2>2 DEF Firm
<1> QED
  BY <1>1, <1>2

LEMMA NumberFirm ==
    ASSUME NEW m, NEW m2, Begins(m, m2), NEW i \in Indices(m)
    PROVE  Firm(Number(m, i), Number(m2, i)) /\ (i = Len(m) => Undecided(Number(m, i)))
<1> DEFINE n == Len(m)
           p == [j \in Indices(m) |-> Digit(m, j)]
           p2 == [j \in Indices(m2) |-> Digit(m2, j)]
           r == StructMultiple(p, i)
           r2 == StructMultiple(p2, i)
           x(d) == <<FoldLeft(LAMBDA a, b : 10 * a + b[1], 0, d.val)>>
<1>1. n \in Nat /\ Len(m2) \in Nat /\ n \in Indices(m)
  BY DEF Begins, Indices
<1>2. Parses(p, m, Verdicts(m)) /\ Parses(p2, m2, Verdicts(m2))
  BY <1>1, DigitAnswer, VerdictsAre DEF Parses
<1>3. Steady(p, p2, m)
  <2>1. \A j \in Indices(m) : p[j] = Digit(m, j) /\ p2[j] = Digit(m2, j)
    BY Within
  <2> HIDE DEF p, p2
  <2> QED
    BY <1>1, <2>1, DigitFirm, SettledIsFirm DEF Steady
<1>4. Number(m, i) = With(r, x(r)) /\ Number(m2, i) = With(r2, x(r2))
  BY DEF Number
<1>5. Firm(r, r2) /\ Undecided(StructMultiple(p, n))
  <2> HIDE DEF p, p2
  <2> QED
    BY <1>2, <1>3, StructMultipleSettled DEF Settled, Firm
<1>6. r2 = r => x(r2) = x(r)
  OBVIOUS
<1>7. i = n => Undecided(r)
  BY <1>5
<1> HIDE DEF r, r2, x
<1> QED
  BY <1>4, <1>5, <1>6, <1>7, WithKept

LEMMA KeywordFirm ==
    ASSUME NEW m, NEW m2, Begins(m, m2), NEW i \in Indices(m), NEW word, Len(word) \in Nat
    PROVE  Firm(Keyword(m, i, word), Keyword(m2, i, word))
<1>1. CASE i + Len(word) > Len(m)
  BY <1>1, Constants DEF Keyword, Firm, Undecided
<1>2. CASE ~(i + Len(word) > Len(m))
  <2>1. i + Len(word) \in Indices(m) /\ ~(i + Len(word) > Len(m2))
    BY <1>2 DEF Begins, Indices
  <2>2. Part(m2, i, i + Len(word)) = Part(m, i, i + Len(word))
    BY <2>1 DEF Begins, Part
  <2> QED
    BY <1>2, <2>1, <2>2 DEF Keyword, Firm
<1> QED
  BY <1>1, <1>2

LEMMA FirstKeywordFirm ==
    ASSUME NEW m, NEW m2, Begins(m, m2), NEW i \in Indices(m), NEW words, Keys(words)
    PROVE  Firm(FirstKeyword(m, i, words), FirstKeyword(m2, i, words))
<1> DEFINE Tried(t) == {n \in DOMAIN words : Keyword(t, i, words[n]).v # "parse"}
           First(t) == CHOOSE n \in Tried(t) : \A k \in Tried(t) : n <= k
<1>1. DOMAIN words \subseteq Nat
  BY DEF Keys
<1>2. \A n \in DOMAIN words : Firm(Keyword(m, i, words[n]), Keyword(m2, i, words[n]))
  BY KeywordFirm DEF Keys
<1>3. Tried(m2) \subseteq Tried(m)
  BY <1>2 DEF Firm, Undecided
<1>4. \A t : FirstKeyword(t, i, words) = IF Tried(t) = {} THEN Fail
                                        ELSE With(Keyword(t, i, words[First(t)]), <<words[First(t)]>>)
  BY DEF FirstKeyword
<1>5. CASE Tried(m) = {}
  <2>1. Tried(m2) = {}
    BY <1>3, <1>5
  <2>2. FirstKeyword(m, i, words) = Fail /\ FirstKeyword(m2, i, words) = Fail
    BY <1>4, <1>5, <2>1
  <2> QED
    BY <2>2 DEF Firm
<1>6. CASE Tried(m) # {}
  <2>1. PICK x \in Tried(m) : \A y \in Tried(m) : x <= y
    <3>1. Tried(m) \subseteq Nat
      BY <1>1
    <3> HIDE DEF Tried
    <3> QED
      BY <1>6, <3>1, LeastOf
  <2>2. x \in DOMAIN words /\ Tried(m) \subseteq Nat
    BY <1>1
  <2>3. First(m) = x
    <3> HIDE DEF Tried
    <3>1. First(m) \in Tried(m) /\ \A k \in Tried(m) : First(m) <= k
      BY <2>1
    <3> HIDE DEF First
    <3> QED
      BY <2>1, <2>2, <3>1
  <2> DEFINE r == Keyword(m, i, words[x])
             r2 == Keyword(m2, i, words[x])
  <2>4. FirstKeyword(m, i, words) = With(r, <<words[x]>>)
    BY <1>4, <1>6, <2>3
  <2>5. CASE Undecided(r)
    BY <2>4, <2>5, WithKept DEF Firm
  <2>6. CASE ~Undecided(r)
    <3>1. r2 = r
      BY <1>2, <2>2, <2>6 DEF Firm
    <3>2. x \in Tried(m2)
      BY <3>1
    <3>3. First(m2) = x
      <4> HIDE DEF Tried
      <4>1. \A y \in Tried(m2) : x <= y
        BY <1>3, <2>1
      <4>2. First(m2) \in Tried(m2) /\ \A k \in Tried(m2) : First(m2) <= k
        BY <3>2, <4>1
      <4> HIDE DEF First
      <4> QED
        BY <1>3, <2>1, <2>2, <3>2, <4>1, <4>2
    <3>4. FirstKeyword(m2, i, words) = With(r2, <<words[x]>>)
      BY <1>4, <3>2, <3>3
    <3> QED
      BY <2>4, <3>1, <3>4 DEF Firm
  <2> QED
    BY <2>5, <2>6
<1> QED
  BY <1>5, <1>6

-----------------------------------------------------------------------------
(***************************************************************************)
(* Lists and lines.                                                        *)
(***************************************************************************)
\* What the parser of a list's values answers, on both texts.
Listed(p, p2, m, m2, V, W) == Values(p, m, V) /\ Values(p2, m2, W) /\ Steady(p, p2, m)

\* An item of a list, or a parameter: its values' parser behind a separator.
LEMMA ItemsSteady ==
    ASSUME NEW m, NEW m2, Begins(m, m2), NEW p, NEW p2, NEW V, NEW W, Listed(p, p2, m, m2, V, W), NEW symbol
    PROVE  /\ Steady(Items(m, symbol, p), Items(m2, symbol, p2), m)
           /\ \A j \in Indices(m) : Items(m, symbol, p)[j].v = "parse" => ~Undecided(Cfws(m, j))
<1> DEFINE n == Len(m)
           q == Items(m, symbol, p)
           q2 == Items(m2, symbol, p2)
<1>1. n \in Nat /\ n \in Indices(m)
  BY DEF Begins, Indices
<1>2. ASSUME NEW j \in Indices(m)
      PROVE  Kept(q[j], q2[j], n) /\ (j = n => Undecided(q[j])) /\ (q[j].v = "parse" => ~Undecided(Cfws(m, j)))
  <2> DEFINE a == UnstrictChar(m, j, symbol)
             a2 == UnstrictChar(m2, j, symbol)
             b == p[a.i]
             b2 == p2[a2.i]
  <2>1. q[j] = AndThen(a, b) /\ q2[j] = AndThen(a2, b2)
    BY Within DEF Items
  <2>2. Firm(a, a2) /\ (j = n => Undecided(a))
    BY UnstrictCharFirm
  <2>3. a.v = "ok" => a.i \in Indices(m)
    BY <1>1, UnstrictCharAnswer DEF Answer, Indices
  <2>4. a.v = "ok" /\ a.i = n => Undecided(b)
    BY DEF Listed, Steady
  <2>5. a2 = a /\ a.v = "ok" => Kept(b, b2, n)
    BY <2>3 DEF Listed, Steady
  <2>6. Undecided(Cfws(m, j)) => Undecided(a)
    <3> SUFFICES ASSUME Undecided(Cfws(m, j)) PROVE Undecided(a)
      OBVIOUS
    <3> DEFINE w == Opt(Cfws(m, j), j)
    <3>1. w = Cfws(m, j)
      BY DEF Opt, Else, Undecided
    <3>2. Undecided(w) /\ w.v # "ok"
      BY <3>1 DEF Undecided
    <3>3. a = IF w.v = "ok" THEN Char(m, w.i, symbol) ELSE w
      BY UnstrictCharIs
    <3> HIDE DEF w, a
    <3> QED
      BY <3>2, <3>3
  <2>7. Kept(a, a2, n)
    BY <2>2, SettledIsFirm
  <2> HIDE DEF a, a2, b, b2, q, q2
  <2>8. Kept(q[j], q2[j], n) /\ (Undecided(a) => Undecided(q[j]))
    BY <2>1, <2>4, <2>5, <2>7, FollowKept
  <2> QED
    BY <2>2, <2>6, <2>8 DEF Undecided
<1> QED
  BY <1>1, <1>2 DEF Steady

\* A loop over the items of a list.
LEMMA ItemsSettled ==
    ASSUME NEW m, NEW m2, Begins(m, m2), NEW p, NEW p2, NEW V, NEW W, Listed(p, p2, m, m2, V, W), NEW symbol,
           NEW t, DOMAIN t = Indices(m),
           \A j \in Indices(m) : t[j] = Turn(Items(m, symbol, p)[j], j, <<Items(m, symbol, p)[j].val>>),
           NEW t2, DOMAIN t2 = Indices(m2),
           \A j \in Indices(m2) : t2[j] = Turn(Items(m2, symbol, p2)[j], j, <<Items(m2, symbol, p2)[j].val>>),
           NEW i \in Indices(m)
    PROVE  /\ Settled(Loop(t, i), Loop(t2, i), Len(m)) /\ (i = Len(m) => Undecided(Loop(t, i)))
           /\ Loop(t, i).v = "ok" => Loop(t, i).i \in Indices(m) /\ ~Undecided(Cfws(m, Loop(t, i).i))
<1> DEFINE q == Items(m, symbol, p)
           q2 == Items(m2, symbol, p2)
           x == [j \in Indices(m) |-> <<q[j].val>>]
           y == [j \in Indices(m2) |-> <<q2[j].val>>]
<1>1. Len(m) \in Nat /\ Len(m2) \in Nat
  BY Within
<1>2. Parses(q, m, V) /\ Parses(q2, m2, W)
  BY <1>1, ItemsParse DEF Listed
<1>3. Steady(q, q2, m) /\ \A j \in Indices(m) : q[j].v = "parse" => ~Undecided(Cfws(m, j))
  BY ItemsSteady
<1>4. DOMAIN t = Indices(m) /\ DOMAIN t2 = Indices(m2)
  OBVIOUS
<1>5. \A j \in Indices(m) : t[j] = Turn(q[j], j, x[j])
  OBVIOUS
<1>6. \A j \in Indices(m2) : t2[j] = Turn(q2[j], j, y[j])
  OBVIOUS
<1>7. \A j \in Indices(m) : q2[j] = q[j] => y[j] = x[j]
  BY Within
<1> HIDE DEF q, q2, x, y
<1>8. /\ Settled(Loop(t, i), Loop(t2, i), Len(m)) /\ Undecided(Loop(t, Len(m)))
      /\ Loop(t, i).v = "ok" => Loop(t, i).i \in Indices(m) /\ q[Loop(t, i).i].v = "parse"
  BY <1>2, <1>3, <1>4, <1>5, <1>6, <1>7, TurnsSettled
<1> QED
  BY <1>3, <1>8

\* A list ends where an item has been refused: the white space there is known.
LEMMA StructListSettled ==
    ASSUME NEW m, NEW m2, Begins(m, m2), NEW p, NEW p2, NEW V, NEW W, Listed(p, p2, m, m2, V, W), NEW symbol,
           NEW i \in Indices(m)
    PROVE  LET list == StructList(m, i, symbol, p)
           IN /\ Settled(list, StructList(m2, i, symbol, p2), Len(m)) /\ (i = Len(m) => Undecided(list))
              /\ list.v = "ok" => list.i \in Indices(m) /\ ~Undecided(Cfws(m, list.i))
<1> DEFINE n == Len(m)
           Turns1(x, f) == [j \in Indices(x) |-> Turn(Items(x, symbol, f)[j], j, <<Items(x, symbol, f)[j].val>>)]
           t == Turns1(m, p)
           t2 == Turns1(m2, p2)
           a == p[i]
           a2 == p2[i]
           l == Loop(t, a.i)
           l2 == Loop(t2, a2.i)
           b == Before(<<a.val>>, l)
           b2 == Before(<<a2.val>>, l2)
<1>1. \A x, f : StructList(x, i, symbol, f) = AndThen(f[i], Before(<<f[i].val>>, Loop(Turns1(x, f), f[i].i)))
  <2> TAKE x, f
  <2>1. Turns1(x, f) = [j \in Indices(x) |-> LET sep == UnstrictChar(x, j, symbol)
                                                 r == AndThen(sep, f[sep.i])
                                             IN Turn(r, j, <<r.val>>)]
    BY DEF Items
  <2> HIDE DEF Turns1
  <2> QED
    BY <2>1 DEF StructList
<1>2. Kept(a, a2, n) /\ (i = n => Undecided(a)) /\ n \in Nat
  BY Within DEF Listed, Steady
<1>3. a.v = "ok" => a.i \in Indices(m)
  BY DEF Listed, Values, Answer, Indices
<1>4. a.v = "ok" => /\ Settled(l, Loop(t2, a.i), n) /\ (a.i = n => Undecided(l))
                    /\ l.v = "ok" => l.i \in Indices(m) /\ ~Undecided(Cfws(m, l.i))
  <2>1. DOMAIN t = Indices(m) /\ DOMAIN t2 = Indices(m2)
    OBVIOUS
  <2>2. \A j \in Indices(m) : t[j] = Turn(Items(m, symbol, p)[j], j, <<Items(m, symbol, p)[j].val>>)
    OBVIOUS
  <2>3. \A j \in Indices(m2) : t2[j] = Turn(Items(m2, symbol, p2)[j], j, <<Items(m2, symbol, p2)[j].val>>)
    OBVIOUS
  <2> HIDE DEF a, a2, t, t2
  <2> QED
    BY <1>3, <2>1, <2>2, <2>3, ItemsSettled
<1>5. StructList(m, i, symbol, p) = AndThen(a, b) /\ StructList(m2, i, symbol, p2) = AndThen(a2, b2)
  BY <1>1
<1>6. a2 = a => l2 = Loop(t2, a.i) /\ b2 = Before(<<a.val>>, l2)
  OBVIOUS
<1> HIDE DEF Turns1, a, a2, l, l2
<1>7. b.v = l.v /\ (l.v = "ok" => b.i = l.i)
  BY BeforeKept
<1>8. a.v = "ok" /\ a.i = n => Undecided(b)
  BY <1>4, BeforeKept
<1>9. a2 = a /\ a.v = "ok" => Settled(b, b2, n)
  BY <1>4, <1>6, BeforeKept
<1> HIDE DEF b, b2
<1>10. Settled(AndThen(a, b), AndThen(a2, b2), n) /\ (i = n => Undecided(AndThen(a, b)))
  BY <1>2, <1>8, <1>9, FollowSettled
<1>11. AndThen(a, b).v = "ok" => AndThen(a, b).i \in Indices(m) /\ ~Undecided(Cfws(m, AndThen(a, b).i))
  BY <1>4, <1>7 DEF AndThen
<1> QED
  BY <1>5, <1>10, <1>11

\* A field that ends where the white space is known.
LEMMA LineFirm ==
    ASSUME NEW m, NEW m2, Begins(m, m2), NEW r, NEW s, Settled(r, s, Len(m)),
           r.v = "ok" => r.i \in Indices(m) /\ ~Undecided(Cfws(m, r.i))
    PROVE  Firm(Line(m, r), Line(m2, s))
<1> DEFINE e == UnstrictCrLf(m, r.i)
           e2 == UnstrictCrLf(m2, s.i)
           b == With(e, r.val)
           b2 == With(e2, s.val)
<1>1. s = r /\ r.v = "ok" => Firm(b, b2)
  <2>1. s = r /\ r.v = "ok" => Firm(e, e2)
    BY UnstrictCrLfFirm
  <2> HIDE DEF e, e2
  <2> QED
    BY <2>1, WithKept
<1>2. Line(m, r) = AndThen(r, b) /\ Line(m2, s) = AndThen(s, b2)
  BY DEF Line
<1>3. r.v = "ok" /\ r.i = Len(m) => Undecided(b)
  BY DEF Settled, Undecided
<1>4. Kept(r, s, Len(m))
  BY SettledIsFirm
<1> HIDE DEF b, b2
<1> QED
  BY <1>1, <1>2, <1>3, <1>4, FollowFirm

-----------------------------------------------------------------------------
(***************************************************************************)
(* Addresses.  A text in which the recipients are not said to be           *)
(* undisclosed: the parser of addresses compares with that name only once  *)
(* all of it has arrived, and answers before that too.                     *)
(***************************************************************************)
Disclosed(m) ==
    \A j \in Indices(m) : j + Len(Undisclosed) <= Len(m) => Part(m, j, j + Len(Undisclosed)) # Undisclosed

LEMMA DisclosedBefore ==
    ASSUME NEW m, NEW m2, Begins(m, m2), Disclosed(m2)
    PROVE  Disclosed(m)
<1> SUFFICES ASSUME NEW j \in Indices(m), j + Len(Undisclosed) <= Len(m)
             PROVE  Part(m, j, j + Len(Undisclosed)) # Undisclosed
  BY DEF Disclosed
<1>1. Len(Undisclosed) \in Nat
  BY UndisclosedAssumption
<1>2. j \in Indices(m2) /\ j + Len(Undisclosed) <= Len(m2) /\ j + Len(Undisclosed) \in Indices(m)
  BY <1>1 DEF Begins, Indices
<1>3. Part(m2, j, j + Len(Undisclosed)) = Part(m, j, j + Len(Undisclosed))
  BY <1>2 DEF Begins, Part
<1> QED
  BY <1>2, <1>3 DEF Disclosed

LEMMA WspAddrSpecKept ==
    ASSUME NEW m, NEW m2, Begins(m, m2), NEW i \in Indices(m), i # Len(m)
    PROVE  Kept(WspAddrSpec(m, i), WspAddrSpec(m2, i), Len(m))
<1> DEFINE e == Span(m, i, AddrEnds)
           e2 == Span(m2, i, AddrEnds)
<1>0. ~(i >= Len(m)) /\ ~(i >= Len(m2))
  BY DEF Begins, Indices
<1>1. WspAddrSpec(m, i) = IF e = i THEN Fail ELSE Got(e, <<Packed(m, i, e)>>)
  BY <1>0 DEF WspAddrSpec
<1>2. WspAddrSpec(m2, i) = IF e2 = i THEN Fail ELSE Got(e2, <<Packed(m2, i, e2)>>)
  BY <1>0 DEF WspAddrSpec
<1>3. e # Len(m) => e2 = e /\ Packed(m2, i, e2) = Packed(m, i, e)
  <2>1. e # Len(m) => e2 = e /\ SubSeq(m2, i + 1, e2) = SubSeq(m, i + 1, e)
    BY SpanKept
  <2> HIDE DEF e, e2
  <2> QED
    BY <2>1 DEF Packed
<1> HIDE DEF e, e2
<1>4. CASE e = Len(m)
  <2>1. WspAddrSpec(m, i) = Got(Len(m), <<Packed(m, i, e)>>)
    BY <1>1, <1>4
  <2> QED
    BY <2>1, Constants DEF Kept
<1>5. CASE e # Len(m)
  BY <1>1, <1>2, <1>3, <1>5 DEF Kept
<1> QED
  BY <1>4, <1>5

LEMMA AddrSpecKept ==
    ASSUME NEW m, NEW m2, Begins(m, m2), Disclosed(m2), NEW i \in Indices(m)
    PROVE  Kept(AddrSpec(m, i), AddrSpec(m2, i), Len(m)) /\ (i = Len(m) => Undecided(AddrSpec(m, i)))
<1> DEFINE a == Opt(Cfws(m, i), i)
           a2 == Opt(Cfws(m2, i), i)
           Spec1(t, j) == IF j + Len(Undisclosed) <= Len(t) /\ Part(t, j, j + Len(Undisclosed)) = Undisclosed
                          THEN Got(j + Len(Undisclosed), <<"">>) ELSE WspAddrSpec(t, j)
           b == Spec1(m, a.i)
           b2 == Spec1(m2, a2.i)
<1>1. AddrSpec(m, i) = AndThen(a, b) /\ AddrSpec(m2, i) = AndThen(a2, b2)
  BY DEF AddrSpec, AndThen, Then
<1>2. Settled(a, a2, Len(m)) /\ (i = Len(m) => Undecided(a)) /\ (a.v = "ok" => a.i \in Indices(m))
  BY MayCfwsSettled
<1>3. a.v = "ok" => a.i # Len(m)
  BY <1>2 DEF Settled, Undecided
<1>4. ASSUME NEW j \in Indices(m), j # Len(m) PROVE Kept(Spec1(m, j), Spec1(m2, j), Len(m))
  <2>1. Disclosed(m) /\ j \in Indices(m2)
    BY DisclosedBefore, Within
  <2>2. Spec1(m, j) = WspAddrSpec(m, j) /\ Spec1(m2, j) = WspAddrSpec(m2, j)
    BY <2>1 DEF Disclosed
  <2> HIDE DEF Spec1
  <2> QED
    BY <1>4, <2>2, WspAddrSpecKept
<1>5. a2 = a /\ a.v = "ok" => Kept(b, b2, Len(m))
  <2> HIDE DEF Spec1
  <2> QED
    BY <1>2, <1>3, <1>4
<1>6. Kept(a, a2, Len(m))
  BY <1>2, SettledIsFirm
<1> HIDE DEF a, a2, b, b2
<1> QED
  BY <1>1, <1>2, <1>3, <1>5, <1>6, FollowKept

LEMMA AngleAddrFirm ==
    ASSUME NEW m, NEW m2, Begins(m, m2), Disclosed(m2), NEW i \in Indices(m)
    PROVE  Firm(AngleAddr(m, i), AngleAddr(m2, i)) /\ (i = Len(m) => Undecided(AngleAddr(m, i)))
<1> DEFINE n == Len(m)
           a == Opt(Cfws(m, i), i)
           a2 == Opt(Cfws(m2, i), i)
           lower == UnstrictChar(m, a.i, "<")
           lower2 == UnstrictChar(m2, a2.i, "<")
           addr == AddrSpec(m, lower.i)
           addr2 == AddrSpec(m2, lower2.i)
           greater == UnstrictChar(m, addr.i, ">")
           greater2 == UnstrictChar(m2, addr2.i, ">")
           last == With(greater, addr.val)
           last2 == With(greater2, addr2.val)
           rest == AndThen(addr, last)
           rest2 == AndThen(addr2, last2)
           b == AndThen(lower, rest)
           b2 == AndThen(lower2, rest2)
<1>1. AngleAddr(m, i) = AndThen(a, b) /\ AngleAddr(m2, i) = AndThen(a2, b2)
  BY DEF AngleAddr, Angle, AndThen, Then
<1>2. n \in Nat /\ Settled(a, a2, n) /\ (i = n => Undecided(a)) /\ (a.v = "ok" => a.i \in Indices(m) /\ a.i # n)
  <2>1. Settled(a, a2, n) /\ (i = n => Undecided(a)) /\ (a.v = "ok" => a.i \in Indices(m))
    BY MayCfwsSettled
  <2> QED
    BY <2>1, Within DEF Settled, Undecided
<1>3. a2 = a /\ a.v = "ok" => Firm(lower, lower2)
  BY <1>2, UnstrictCharFirm
<1>4. a.v = "ok" /\ lower.v = "ok" => lower.i \in Indices(m)
  BY <1>2, UnstrictCharAnswer DEF Answer, Indices
<1>5. lower.i \in Indices(m) => /\ lower2 = lower => Kept(addr, addr2, n)
                                /\ lower.i = n => Undecided(addr)
                                /\ addr.v = "ok" => addr.i \in Indices(m)
  <2> HIDE DEF lower, lower2
  <2> QED
    BY <1>2, AddrSpecKept, AddrSpecAnswer DEF Answer, Indices
<1>6. addr.i \in Indices(m) => /\ addr2 = addr => Firm(greater, greater2)
                               /\ addr.i = n => Undecided(greater)
  <2> HIDE DEF addr, addr2
  <2> QED
    BY UnstrictCharFirm
<1> HIDE DEF lower, lower2, addr, addr2, greater, greater2, a, a2
<1>7. addr.i \in Indices(m) => /\ addr2 = addr => Firm(last, last2)
                               /\ addr.i = n => Undecided(last)
  BY <1>6, WithKept
<1> HIDE DEF last, last2
<1>8. lower.i \in Indices(m) => /\ lower2 = lower => Firm(rest, rest2)
                                /\ lower.i = n => Undecided(rest)
  <2> SUFFICES ASSUME lower.i \in Indices(m)
               PROVE  (lower2 = lower => Firm(rest, rest2)) /\ (lower.i = n => Undecided(rest))
    OBVIOUS
  <2>1. addr.v = "ok" /\ addr.i = n => Undecided(last)
    BY <1>5, <1>7
  <2>2. addr2 = addr /\ addr.v = "ok" => Firm(last, last2)
    BY <1>5, <1>7
  <2>3. Undecided(addr) => Undecided(rest)
    BY DEF AndThen, Undecided
  <2> QED
    BY <1>5, <2>1, <2>2, <2>3, FollowFirm
<1> HIDE DEF rest, rest2
<1>9. a2 = a /\ a.v = "ok" => Firm(b, b2)
  <2> SUFFICES ASSUME a2 = a, a.v = "ok" PROVE Firm(b, b2)
    OBVIOUS
  <2>1. Kept(lower, lower2, n)
    BY <1>3, SettledIsFirm
  <2>2. lower.v = "ok" /\ lower.i = n => Undecided(rest)
    BY <1>4, <1>8
  <2>3. lower2 = lower /\ lower.v = "ok" => Firm(rest, rest2)
    BY <1>4, <1>8
  <2> QED
    BY <2>1, <2>2, <2>3, FollowFirm
<1>10. Kept(a, a2, n)
  BY <1>2, SettledIsFirm
<1> HIDE DEF b, b2
<1> QED
  BY <1>1, <1>2, <1>9, <1>10, FollowFirm

LEMMA MailboxKept ==
    ASSUME NEW m, NEW m2, Begins(m, m2), Disclosed(m2), NEW i \in Indices(m)
    PROVE  Kept(Mailbox(m, i), Mailbox(m2, i), Len(m)) /\ (i = Len(m) => Undecided(Mailbox(m, i)))
<1> DEFINE n == Len(m)
           a == Opt(Phrase(m, i), i)
           a2 == Opt(Phrase(m2, i), i)
           b == AngleAddr(m, a.i)
           b2 == AngleAddr(m2, a2.i)
<1>1. n \in Nat
  BY Within
<1>2. White(Phrase(m, i), Phrase(m2, i), i, m)
  BY <1>1, PhraseSettled, PhraseAnswers DEF White
<1>3. Kept(a, a2, n) /\ (i = n => Undecided(a)) /\ (a.v = "ok" => a.i \in Indices(m) /\ a.i # n)
  BY <1>2, WhiteOpt
<1>4. a2 = a /\ a.v = "ok" => Firm(b, b2)
  BY <1>3, AngleAddrFirm
<1>5. NameAddr(m, i) = AndThen(a, b) /\ NameAddr(m2, i) = AndThen(a2, b2)
  BY DEF NameAddr, AndThen, Then
<1> HIDE DEF a, a2, b, b2
<1>6. Firm(NameAddr(m, i), NameAddr(m2, i)) /\ (i = n => Undecided(NameAddr(m, i)))
  BY <1>3, <1>4, <1>5, FollowFirm
<1> QED
  BY <1>6, AddrSpecKept, ElseKept, SettledIsFirm DEF Mailbox

LEMMA MailboxListSettled ==
    ASSUME NEW m, NEW m2, Begins(m, m2), Disclosed(m2), NEW i \in Indices(m)
    PROVE  LET list == MailboxList(m, i)
           IN /\ Settled(list, MailboxList(m2, i), Len(m)) /\ (i = Len(m) => Undecided(list))
              /\ list.v = "ok" => list.i \in Indices(m) /\ ~Undecided(Cfws(m, list.i))
<1> DEFINE p == [j \in Indices(m) |-> Mailbox(m, j)]
           p2 == [j \in Indices(m2) |-> Mailbox(m2, j)]
<1>1. Len(m) \in Nat /\ Len(m2) \in Nat /\ Len(m) \in Indices(m)
  BY Within
<1>2. Values(p, m, Verdicts(m)) /\ Values(p2, m2, Verdicts(m2))
  BY <1>1, MailboxAnswer, VerdictsAre DEF Values
<1>3. Steady(p, p2, m)
  <2>1. \A j \in Indices(m) : p[j] = Mailbox(m, j) /\ p2[j] = Mailbox(m2, j)
    BY Within
  <2> HIDE DEF p, p2
  <2> QED
    BY <1>1, <2>1, MailboxKept DEF Steady
<1>4. MailboxList(m, i) = StructList(m, i, ",", p) /\ MailboxList(m2, i) = StructList(m2, i, ",", p2)
  BY DEF MailboxList
<1> HIDE DEF p, p2
<1>5. Listed(p, p2, m, m2, Verdicts(m), Verdicts(m2))
  BY <1>2, <1>3 DEF Listed
<1> QED
  BY <1>4, <1>5, StructListSettled

LEMMA GroupFirm ==
    ASSUME NEW m, NEW m2, Begins(m, m2), Disclosed(m2), NEW i \in Indices(m)
    PROVE  Firm(Group(m, i), Group(m2, i)) /\ (i = Len(m) => Undecided(Group(m, i)))
<1> DEFINE n == Len(m)
           Phr(t) == Phrase(t, i)
           Col(t) == AndThen(Phr(t), UnstrictChar(t, Phr(t).i, ":"))
           Lst(t, k) == MailboxList(t, k)
           Inn(t, k) == Else(Lst(t, k), Opt(Cfws(t, k), k))
           End(t, k) == UnstrictChar(t, Inn(t, k).i, ";")
           Lst2(t, k) == IF End(t, k).v = "ok" THEN Got(End(t, k).i, FlattenSeq(Inn(t, k).val))
                         ELSE IF Lst(t, k).v = "ok" THEN End(t, k) ELSE Null
           Rest1(t, k) == AndThen(Inn(t, k), Lst2(t, k))
<1>1. \A t : Group(t, i) = AndThen(Col(t), Rest1(t, Col(t).i))
  BY DEF Group, AndThen, Then
<1>2. n \in Nat
  BY Within
<1>3. Firm(Col(m), Col(m2)) /\ (i = n => Undecided(Col(m))) /\ (Col(m).v = "ok" => Col(m).i \in Indices(m))
  <2> DEFINE a == Phr(m)
             a2 == Phr(m2)
             b == UnstrictChar(m, a.i, ":")
             b2 == UnstrictChar(m2, a2.i, ":")
  <2>1. Settled(a, a2, n) /\ (i = n => Undecided(a)) /\ (a.v = "ok" => a.i \in Indices(m))
    BY <1>2, PhraseSettled, PhraseAnswers DEF Answer, Indices
  <2>2. a2 = a /\ a.v = "ok" => Firm(b, b2)
    BY <2>1, UnstrictCharFirm
  <2>3. a.v = "ok" => Answer(b, a.i, m, Verdicts(m))
    BY <1>2, <2>1, UnstrictCharAnswer
  <2>4. Col(m) = AndThen(a, b) /\ Col(m2) = AndThen(a2, b2)
    OBVIOUS
  <2>5. a.v = "ok" /\ a.i = n => Undecided(b)
    BY <2>1 DEF Settled, Undecided
  <2>6. Kept(a, a2, n)
    BY <2>1, SettledIsFirm
  <2> HIDE DEF Col, a, a2, b, b2
  <2>7. Firm(Col(m), Col(m2)) /\ (Undecided(a) => Undecided(Col(m)))
    BY <2>2, <2>4, <2>5, <2>6, FollowFirm
  <2>8. Col(m).v = "ok" => Col(m).i \in Indices(m)
    BY <2>3, <2>4 DEF AndThen, Answer, Indices
  <2> QED
    BY <2>1, <2>7, <2>8
<1>4. ASSUME NEW k \in Indices(m)
      PROVE  Firm(Rest1(m, k), Rest1(m2, k)) /\ (k = n => Undecided(Rest1(m, k)))
  <2> DEFINE l == Lst(m, k)
             l2 == Lst(m2, k)
             w == Opt(Cfws(m, k), k)
             w2 == Opt(Cfws(m2, k), k)
             a == Inn(m, k)
             a2 == Inn(m2, k)
             e == End(m, k)
             e2 == End(m2, k)
             b == Lst2(m, k)
             b2 == Lst2(m2, k)
  <2>1. Settled(l, l2, n) /\ (k = n => Undecided(l)) /\ (l.v = "ok" => l.i \in Indices(m))
    BY MailboxListSettled
  <2>2. Settled(w, w2, n) /\ (w.v = "ok" => w.i \in Indices(m))
    BY MayCfwsSettled
  <2>3. a = Else(l, w) /\ a2 = Else(l2, w2)
    OBVIOUS
  <2>4. Settled(a, a2, n) /\ (k = n => Undecided(a)) /\ (a.v = "ok" => a.i \in Indices(m))
        /\ (~Undecided(a) => l2 = l)
    <3> HIDE DEF l, l2, w, w2, a, a2
    <3>1. CASE l.v = "parse"
      <4>1. l2 = l /\ a = w /\ a2 = w2
        BY <2>1, <2>3, <3>1 DEF Settled, Else, Undecided
      <4> QED
        BY <2>1, <2>2, <3>1, <4>1 DEF Undecided
    <3>2. CASE l.v # "parse"
      <4>1. a = l /\ (l2 = l => a2 = l)
        BY <2>3, <3>2 DEF Else
      <4> QED
        BY <2>1, <4>1 DEF Settled
    <3> QED
      BY <3>1, <3>2
  <2>5. a2 = a /\ a.v = "ok" => Firm(e, e2)
    <3>1. e = UnstrictChar(m, a.i, ";") /\ e2 = UnstrictChar(m2, a2.i, ";")
      OBVIOUS
    <3> HIDE DEF a, a2, e, e2
    <3> QED
      BY <2>4, <3>1, UnstrictCharFirm
  <2>6. /\ b = (IF e.v = "ok" THEN Got(e.i, FlattenSeq(a.val)) ELSE IF l.v = "ok" THEN e ELSE Null)
        /\ b2 = (IF e2.v = "ok" THEN Got(e2.i, FlattenSeq(a2.val)) ELSE IF l2.v = "ok" THEN e2 ELSE Null)
    OBVIOUS
  <2>7. Rest1(m, k) = AndThen(a, b) /\ Rest1(m2, k) = AndThen(a2, b2)
    OBVIOUS
  <2> HIDE DEF l, l2, w, w2, a, a2, e, e2, b, b2, Rest1
  <2>8. a2 = a /\ a.v = "ok" => Firm(b, b2)
    <3> SUFFICES ASSUME a2 = a, a.v = "ok" PROVE Firm(b, b2)
      OBVIOUS
    <3>1. l2 = l /\ Firm(e, e2)
      BY <2>4, <2>5 DEF Undecided
    <3>2. CASE Undecided(e)
      <4>1. b \in {e, Null}
        BY <2>6, <3>2 DEF Undecided
      <4> QED
        BY <3>2, <4>1, Constants DEF Firm, Undecided
    <3>3. CASE e2 = e
      BY <2>6, <3>1, <3>3 DEF Firm
    <3> QED
      BY <3>1, <3>2, <3>3 DEF Firm
  <2>9. a.v = "ok" /\ a.i = n => Undecided(b)
    BY <2>4 DEF Settled, Undecided
  <2>10. Kept(a, a2, n)
    BY <2>4, SettledIsFirm
  <2> QED
    BY <2>4, <2>7, <2>8, <2>9, <2>10, FollowFirm
<1> DEFINE a == Col(m)
           a2 == Col(m2)
           b == Rest1(m, a.i)
           b2 == Rest1(m2, a2.i)
<1>5. Group(m, i) = AndThen(a, b) /\ Group(m2, i) = AndThen(a2, b2)
  BY <1>1
<1> HIDE DEF Col, Rest1
<1>6. a2 = a /\ a.v = "ok" => Firm(b, b2)
  BY <1>3, <1>4
<1>7. a.v = "ok" /\ a.i = n => Undecided(b)
  BY <1>3, <1>4
<1>8. Kept(a, a2, n) /\ (i = n => Undecided(a))
  BY <1>3, SettledIsFirm
<1> HIDE DEF a, a2, b, b2
<1> QED
  BY <1>5, <1>6, <1>7, <1>8, FollowFirm

LEMMA AddressListSettled ==
    ASSUME NEW m, NEW m2, Begins(m, m2), Disclosed(m2), NEW i \in Indices(m)
    PROVE  LET list == AddressList(m, i)
           IN /\ Settled(list, AddressList(m2, i), Len(m)) /\ (i = Len(m) => Undecided(list))
              /\ list.v = "ok" => list.i \in Indices(m) /\ ~Undecided(Cfws(m, list.i))
<1> DEFINE n == Len(m)
           p == [j \in Indices(m) |-> Address(m, j)]
           p2 == [j \in Indices(m2) |-> Address(m2, j)]
<1>1. Len(m) \in Nat /\ Len(m2) \in Nat /\ Len(m) \in Indices(m)
  BY Within
<1>2. ASSUME NEW t, Len(t) \in Nat, NEW j \in Indices(t) PROVE Answer(Address(t, j), j, t, VerdictsOrNull(t))
  <2>1. Answer(Mailbox(t, j), j, t, VerdictsOrNull(t))
    BY <1>2, MailboxAnswer, VerdictsAre, AnswerMore
  <2> QED
    BY <1>2, <2>1, GroupAnswer, ElseAnswer DEF Address
<1>3. Values(p, m, VerdictsOrNull(m)) /\ Values(p2, m2, VerdictsOrNull(m2))
  BY <1>1, <1>2, VerdictsAre DEF Values
<1>4. ASSUME NEW j \in Indices(m)
      PROVE  Kept(Address(m, j), Address(m2, j), n) /\ (j = n => Undecided(Address(m, j)))
  BY GroupFirm, MailboxKept, ElseKept, SettledIsFirm DEF Address
<1>5. Steady(p, p2, m)
  <2>1. \A j \in Indices(m) : p[j] = Address(m, j) /\ p2[j] = Address(m2, j)
    BY Within
  <2> HIDE DEF p, p2
  <2> QED
    BY <1>1, <1>4, <2>1 DEF Steady
<1>6. AddressList(m, i) = StructList(m, i, ",", p) /\ AddressList(m2, i) = StructList(m2, i, ",", p2)
  BY DEF AddressList
<1> HIDE DEF p, p2
<1>7. Listed(p, p2, m, m2, VerdictsOrNull(m), VerdictsOrNull(m2))
  BY <1>3, <1>5 DEF Listed
<1> QED
  BY <1>6, <1>7, StructListSettled

\* Two parsers that keep to their answers, one behind the other.
LEMMA BehindSettled ==
    ASSUME NEW n, NEW a, NEW a2, Settled(a, a2, n), NEW b, NEW b2, NEW r, NEW s,
           r = AndThen(a, b), s = AndThen(a2, b2)
    PROVE  /\ (a2 = a /\ a.v = "ok" => Settled(b, b2, n)) => Settled(r, s, n)
           /\ (a2 = a /\ a.v = "ok" => Firm(b, b2)) => Firm(r, s)
           /\ Undecided(a) => Undecided(r)
<1>1. Kept(a, a2, n) /\ (a.v = "ok" /\ a.i = n => Undecided(b))
  BY SettledIsFirm DEF Settled, Undecided
<1>2. (a2 = a /\ a.v = "ok" => Settled(b, b2, n)) => Settled(r, s, n)
  BY <1>1, FollowSettled
<1>3. (a2 = a /\ a.v = "ok" => Firm(b, b2)) => Firm(r, s)
  BY <1>1, FollowFirm
<1> QED
  BY <1>2, <1>3 DEF AndThen, Undecided

LEMMA DomainLiteralFirm ==
    ASSUME NEW m, NEW m2, Begins(m, m2), NEW i \in Indices(m)
    PROVE  Firm(DomainLiteral(m, i), DomainLiteral(m2, i))
<1> DEFINE n == Len(m)
           Inner(t, j) == AndThen(Opt(Cfws(t, j), j), Dcontent(t, Opt(Cfws(t, j), j).i))
           p == [k \in Indices(m) |-> Inner(m, k)]
           p2 == [k \in Indices(m2) |-> Inner(m2, k)]
           a == Opt(Cfws(m, i), i)
           a2 == Opt(Cfws(m2, i), i)
           b == UnstrictChar(m, a.i, "[")
           b2 == UnstrictChar(m2, a2.i, "[")
           open == AndThen(a, b)
           open2 == AndThen(a2, b2)
           many == Many(p, open.i)
           many2 == Many(p2, open2.i)
           content == AndThen(open, many)
           content2 == AndThen(open2, many2)
           blank == Opt(Fws(m, content.i), content.i)
           blank2 == Opt(Fws(m2, content2.i), content2.i)
           last == AndThen(content, blank)
           last2 == AndThen(content2, blank2)
           close == UnstrictChar(m, last.i, "]")
           close2 == UnstrictChar(m2, last2.i, "]")
<1>1. n \in Nat /\ Len(m2) \in Nat /\ n \in Indices(m)
  BY DEF Begins, Indices
<1>2. DomainLiteral(m, i) = AndThen(last, close) /\ DomainLiteral(m2, i) = AndThen(last2, close2)
  BY DEF DomainLiteral, AndThen, Then
<1>3. ASSUME NEW t, Len(t) \in Nat, NEW j \in Indices(t)
      PROVE  Answer(Inner(t, j), j, t, Verdicts(t)) /\ Advances(Inner(t, j), j)
  <2> DEFINE w == Opt(Cfws(t, j), j)
  <2>1. w.i \in Indices(t) => Answer(Dcontent(t, w.i), w.i, t, Verdicts(t)) /\ Advances(Dcontent(t, w.i), w.i)
    BY <1>3, DcontentAnswer
  <2>2. w = Opt(Cfws(t, j), j) /\ (w.v = "ok" => w.i \in Indices(t)) /\ Inner(t, j) = AndThen(w, Dcontent(t, w.i))
    BY <1>3, MayCfws
  <2> HIDE DEF w, Inner
  <2> QED
    BY <1>3, <2>1, <2>2, BehindCfws
<1>4. ASSUME NEW j \in Indices(m)
      PROVE  Kept(Inner(m, j), Inner(m2, j), n) /\ (j = n => Undecided(Inner(m, j)))
  <2> DEFINE w == Opt(Cfws(m, j), j)
             w2 == Opt(Cfws(m2, j), j)
             d == Dcontent(m, w.i)
             d2 == Dcontent(m2, w2.i)
             r == Inner(m, j)
             s == Inner(m2, j)
  <2>1. Settled(w, w2, n) /\ (j = n => Undecided(w)) /\ (w.v = "ok" => w.i \in Indices(m))
    BY MayCfwsSettled
  <2>2. w2 = w /\ w.v = "ok" => Firm(d, d2)
    BY <2>1, QcontentFirm
  <2>3. r = AndThen(w, d) /\ s = AndThen(w2, d2)
    OBVIOUS
  <2> HIDE DEF Inner, w, w2, d, d2, r, s
  <2>4. Firm(r, s) /\ (Undecided(w) => Undecided(r))
    BY <2>1, <2>2, <2>3, BehindSettled
  <2> QED
    BY <2>1, <2>4, SettledIsFirm DEF r, s
<1>5. Parses(p, m, Verdicts(m)) /\ Parses(p2, m2, Verdicts(m2)) /\ Steady(p, p2, m)
  <2> HIDE DEF Inner
  <2>1. Parses(p, m, Verdicts(m)) /\ Parses(p2, m2, Verdicts(m2))
    BY <1>1, <1>3, VerdictsAre DEF Parses
  <2>2. \A j \in Indices(m) : p[j] = Inner(m, j) /\ p2[j] = Inner(m2, j)
    BY Within
  <2> HIDE DEF p, p2
  <2> QED
    BY <1>1, <1>4, <2>1, <2>2 DEF Steady
<1>6. Settled(a, a2, n) /\ (a.v = "ok" => a.i \in Indices(m))
  BY MayCfwsSettled
<1>7. (a2 = a /\ a.v = "ok" => Firm(b, b2)) /\ (a.v = "ok" /\ b.v = "ok" => b.i \in Indices(m))
  BY <1>1, <1>6, UnstrictCharFirm, UnstrictCharAnswer DEF Answer, Indices
<1>8. Firm(open, open2) /\ (open.v = "ok" => open.i \in Indices(m))
  <2> HIDE DEF a, a2, b, b2
  <2>1. Firm(open, open2)
    BY <1>6, <1>7, BehindSettled
  <2> QED
    BY <1>7, <2>1 DEF AndThen
<1>9. open.v = "ok" => /\ open2 = open => Settled(many, many2, n)
                       /\ open.i = n => Undecided(many)
                       /\ many.v = "ok" => many.i \in Indices(m)
  <2> HIDE DEF p, p2, open, open2
  <2> QED
    BY <1>5, <1>8, ManySettled
<1>10. Settled(content, content2, n) /\ (content.v = "ok" => content.i \in Indices(m))
  <2> HIDE DEF open, open2, many, many2
  <2>1. Kept(open, open2, n)
    BY <1>8, SettledIsFirm
  <2>2. Settled(content, content2, n)
    BY <1>9, <2>1, FollowSettled
  <2> QED
    BY <1>9, <2>2 DEF AndThen
<1>11. content.v = "ok" => /\ content2 = content => Settled(blank, blank2, n)
                           /\ blank.v = "ok" => blank.i \in Indices(m)
  <2> HIDE DEF content, content2
  <2> SUFFICES ASSUME content.v = "ok" PROVE /\ content2 = content => Settled(blank, blank2, n)
                                             /\ blank.v = "ok" => blank.i \in Indices(m)
    OBVIOUS
  <2>1. Answer(blank, content.i, m, Verdicts(m))
    BY <1>1, <1>10, FwsAnswer, OptAnswer, VerdictsAre
  <2>2. content2 = content => Settled(blank, blank2, n)
    BY <1>10, FwsSettled, OptSettled
  <2> QED
    BY <2>1, <2>2 DEF Answer, Indices
<1>12. Settled(last, last2, n) /\ (last.v = "ok" => last.i \in Indices(m))
  <2> HIDE DEF content, content2, blank, blank2
  <2>1. Settled(last, last2, n)
    BY <1>10, <1>11, BehindSettled
  <2> QED
    BY <1>11, <2>1 DEF AndThen
<1>13. last2 = last /\ last.v = "ok" => Firm(close, close2)
  <2> HIDE DEF last, last2
  <2> QED
    BY <1>12, UnstrictCharFirm
<1> HIDE DEF last, last2, close, close2
<1> QED
  BY <1>2, <1>12, <1>13, BehindSettled

-----------------------------------------------------------------------------
(***************************************************************************)
(* Parameters and tags.                                                    *)
(***************************************************************************)
LEMMA MimeValueKept ==
    ASSUME NEW m, NEW m2, Begins(m, m2), NEW i \in Indices(m)
    PROVE  Kept(MimeValue(m, i), MimeValue(m2, i), Len(m)) /\ (i = Len(m) => Undecided(MimeValue(m, i)))
<1>1. Kept(QuotedString(m, i), QuotedString(m2, i), Len(m))
  BY WordsKept, SettledIsFirm
<1> QED
  BY <1>1, TokenKept, ElseKept DEF MimeValue

LEMMA MimeParameterKept ==
    ASSUME NEW m, NEW m2, Begins(m, m2), NEW i \in Indices(m)
    PROVE  /\ Kept(MimeParameter(m, i), MimeParameter(m2, i), Len(m))
           /\ i = Len(m) => Undecided(MimeParameter(m, i))
<1> DEFINE n == Len(m)
           name == Token(m, i)
           name2 == Token(m2, i)
           u == UnstrictChar(m, name.i, "=")
           u2 == UnstrictChar(m2, name2.i, "=")
           w == Opt(Cfws(m, u.i), u.i)
           w2 == Opt(Cfws(m2, u2.i), u2.i)
           equals == AndThen(u, w)
           equals2 == AndThen(u2, w2)
           value == MimeValue(m, equals.i)
           value2 == MimeValue(m2, equals2.i)
           last == With(value, <<name.val[1], value.val[1]>>)
           last2 == With(value2, <<name2.val[1], value2.val[1]>>)
           rest == AndThen(equals, last)
           rest2 == AndThen(equals2, last2)
<1>1. MimeParameter(m, i) = AndThen(name, rest) /\ MimeParameter(m2, i) = AndThen(name2, rest2)
  BY DEF MimeParameter, AndThen, Then
<1>2. n \in Nat
  BY Within
<1>3. Kept(name, name2, n) /\ (i = n => Undecided(name)) /\ (name.v = "ok" => name.i \in Indices(m))
  BY <1>2, TokenKept, TokenAnswer DEF Answer, Indices
<1>4. name.v = "ok" => /\ name2 = name => Firm(u, u2)
                       /\ name.i = n => Undecided(u)
                       /\ u.v = "ok" => u.i \in Indices(m)
  <2> HIDE DEF name, name2
  <2> QED
    BY <1>2, <1>3, UnstrictCharFirm, UnstrictCharAnswer DEF Answer, Indices
<1>5. u.i \in Indices(m) => /\ u2 = u => Settled(w, w2, n)
                            /\ u.i = n => Undecided(w)
                            /\ w.v = "ok" => w.i \in Indices(m)
  <2> HIDE DEF u, u2
  <2> QED
    BY MayCfwsSettled
<1> HIDE DEF name, name2, u, u2, w, w2
<1>6. name.v = "ok" => /\ name2 = name => Settled(equals, equals2, n)
                       /\ name.i = n => Undecided(equals)
                       /\ equals.v = "ok" => equals.i \in Indices(m)
  <2> SUFFICES ASSUME name.v = "ok" PROVE /\ name2 = name => Settled(equals, equals2, n)
                                          /\ name.i = n => Undecided(equals)
                                          /\ equals.v = "ok" => equals.i \in Indices(m)
    OBVIOUS
  <2>1. name2 = name => Kept(u, u2, n)
    BY <1>4, SettledIsFirm
  <2>2. u.v = "ok" /\ u.i = n => Undecided(w)
    BY <1>4, <1>5
  <2>3. u2 = u /\ u.v = "ok" => Settled(w, w2, n)
    BY <1>4, <1>5
  <2>4. name2 = name => Settled(equals, equals2, n)
    BY <2>1, <2>2, <2>3, FollowSettled
  <2> QED
    BY <1>4, <1>5, <2>4 DEF AndThen, Undecided
<1>7. equals.i \in Indices(m) => /\ equals2 = equals => Kept(value, value2, n)
                                 /\ equals.i = n => Undecided(value)
  <2> HIDE DEF equals, equals2
  <2> QED
    BY MimeValueKept
<1> HIDE DEF equals, equals2, value, value2
<1>8. name2 = name /\ equals2 = equals /\ equals.i \in Indices(m) => Kept(last, last2, n)
  BY <1>7, WithKept
<1> HIDE DEF last, last2
<1>9. name.v = "ok" => /\ name2 = name => Kept(rest, rest2, n)
                       /\ name.i = n => Undecided(rest)
  <2> SUFFICES ASSUME name.v = "ok" PROVE (name2 = name => Kept(rest, rest2, n)) /\ (name.i = n => Undecided(rest))
    OBVIOUS
  <2>1. ASSUME name2 = name PROVE Kept(rest, rest2, n)
    <3>1. Kept(equals, equals2, n) /\ (equals.v = "ok" /\ equals.i = n => Undecided(last))
      BY <1>6, <2>1, SettledIsFirm DEF Settled, Undecided
    <3>2. equals2 = equals /\ equals.v = "ok" => Kept(last, last2, n)
      BY <1>6, <1>8, <2>1
    <3> QED
      BY <3>1, <3>2, FollowKept
  <2> QED
    BY <1>6, <2>1 DEF AndThen, Undecided
<1> HIDE DEF rest, rest2
<1>10. (name2 = name /\ name.v = "ok" => Kept(rest, rest2, n)) /\ (name.v = "ok" /\ name.i = n => Undecided(rest))
  BY <1>9
<1> QED
  BY <1>1, <1>3, <1>10, FollowKept

LEMMA KnownKept ==
    ASSUME NEW m, NEW m2, Begins(m, m2), NEW i \in Indices(m), NEW word, Len(word) \in Nat, NEW p, NEW p2,
           Steady(p, p2, m)
    PROVE  Kept(Known(m, i, word, p), Known(m2, i, word, p2), Len(m))
<1> DEFINE n == Len(m)
           k == Keyword(m, i, word)
           k2 == Keyword(m2, i, word)
           u == UnstrictChar(m, k.i, "=")
           u2 == UnstrictChar(m2, k2.i, "=")
           equals == AndThen(k, u)
           equals2 == AndThen(k2, u2)
           value == p[equals.i]
           value2 == p2[equals2.i]
           last == With(value, <<word>>)
           last2 == With(value2, <<word>>)
<1>1. Known(m, i, word, p) = AndThen(equals, last) /\ Known(m2, i, word, p2) = AndThen(equals2, last2)
  BY DEF Known, AndThen, Then
<1>2. n \in Nat /\ Firm(k, k2) /\ (k.v = "ok" => k.i \in Indices(m))
  BY Within, KeywordFirm, KeywordAnswer DEF Answer, Indices
<1>3. k.v = "ok" => /\ k2 = k => Firm(u, u2)
                    /\ k.i = n => Undecided(u)
                    /\ u.v = "ok" => u.i \in Indices(m)
  <2> HIDE DEF k, k2
  <2> QED
    BY <1>2, UnstrictCharFirm, UnstrictCharAnswer DEF Answer, Indices
<1> HIDE DEF k, k2, u, u2
<1>4. Firm(equals, equals2) /\ (equals.v = "ok" => equals.i \in Indices(m))
  <2>1. Firm(equals, equals2)
    BY <1>2, <1>3, FollowFirm, SettledIsFirm
  <2> QED
    BY <1>3, <2>1 DEF AndThen
<1> HIDE DEF equals, equals2
<1>5. equals.v = "ok" => /\ equals2 = equals => Kept(value, value2, n)
                         /\ equals.i = n => Undecided(value)
  BY <1>4 DEF Steady
<1> HIDE DEF value, value2
<1>6. equals.v = "ok" => /\ equals2 = equals => Kept(last, last2, n)
                         /\ equals.i = n => Undecided(last)
  BY <1>5, WithKept
<1>7. Kept(equals, equals2, n)
  BY <1>4, SettledIsFirm
<1> HIDE DEF last, last2
<1> QED
  BY <1>1, <1>6, <1>7, FollowKept

LEMMA GuessedKept ==
    ASSUME NEW m, NEW m2, Begins(m, m2), NEW i \in Indices(m), i # Len(m)
    PROVE  Kept(Guessed(m, i), Guessed(m2, i), Len(m))
<1> DEFINE Quotes(t) == [j \in Indices(t) |-> QuotedString(t, j)]
           MimeValues(t) == [j \in Indices(t) |-> MimeValue(t, j)]
           Numbers(t) == [j \in Indices(t) |-> Number(t, j)]
           Of(t, c) == CASE c = "f" -> Known(t, i, "filename", MimeValues(t))
                         [] c = "c" -> Known(t, i, "creation-date", Quotes(t))
                         [] c = "m" -> Known(t, i, "modification-date", Quotes(t))
                         [] c = "r" -> Known(t, i, "read-date", Quotes(t))
                         [] c = "s" -> Known(t, i, "size", Numbers(t))
                         [] OTHER -> Fail
<1>1. ~(i >= Len(m)) /\ ~(i >= Len(m2)) /\ Ch(m2, i) = Ch(m, i) /\ Len(m) \in Indices(m)
  BY Within
<1>2. Guessed(m, i) = Of(m, Ch(m, i)) /\ Guessed(m2, i) = Of(m2, Ch(m, i))
  BY <1>1 DEF Guessed
<1>3. \A j \in Indices(m) : /\ Quotes(m)[j] = QuotedString(m, j) /\ Quotes(m2)[j] = QuotedString(m2, j)
                            /\ MimeValues(m)[j] = MimeValue(m, j) /\ MimeValues(m2)[j] = MimeValue(m2, j)
                            /\ Numbers(m)[j] = Number(m, j) /\ Numbers(m2)[j] = Number(m2, j)
  BY Within
<1> HIDE DEF Quotes, MimeValues, Numbers
<1>4. Steady(Quotes(m), Quotes(m2), m)
  BY <1>1, <1>3, WordsKept, SettledIsFirm DEF Steady
<1>5. Steady(MimeValues(m), MimeValues(m2), m)
  BY <1>1, <1>3, MimeValueKept DEF Steady
<1>6. Steady(Numbers(m), Numbers(m2), m)
  BY <1>1, <1>3, NumberFirm, SettledIsFirm DEF Steady
<1>7. /\ Kept(Known(m, i, "filename", MimeValues(m)), Known(m2, i, "filename", MimeValues(m2)), Len(m))
      /\ Kept(Known(m, i, "size", Numbers(m)), Known(m2, i, "size", Numbers(m2)), Len(m))
  BY <1>5, <1>6, KnownKept, KeywordsAssumption
<1>8. \A word \in {"creation-date", "modification-date", "read-date"} :
         Kept(Known(m, i, word, Quotes(m)), Known(m2, i, word, Quotes(m2)), Len(m))
  BY <1>4, KnownKept, KeywordsAssumption
<1>9. Kept(Fail, Fail, Len(m))
  BY DEF Kept
<1> QED
  BY <1>2, <1>7, <1>8, <1>9

LEMMA DispositionParmKept ==
    ASSUME NEW m, NEW m2, Begins(m, m2), NEW i \in Indices(m)
    PROVE  /\ Kept(DispositionParm(m, i), DispositionParm(m2, i), Len(m))
           /\ i = Len(m) => Undecided(DispositionParm(m, i))
<1> DEFINE n == Len(m)
           Parm1(t, j) == Else(Guessed(t, j), With(MimeParameter(t, j), <<"parameter">>))
           a == Opt(Cfws(m, i), i)
           a2 == Opt(Cfws(m2, i), i)
           b == Parm1(m, a.i)
           b2 == Parm1(m2, a2.i)
<1>1. DispositionParm(m, i) = AndThen(a, b) /\ DispositionParm(m2, i) = AndThen(a2, b2)
  BY DEF DispositionParm, AndThen, Then
<1>2. Settled(a, a2, n) /\ (i = n => Undecided(a)) /\ (a.v = "ok" => a.i \in Indices(m))
  BY MayCfwsSettled
<1>3. ASSUME NEW j \in Indices(m), j # n PROVE Kept(Parm1(m, j), Parm1(m2, j), n)
  <2>1. Kept(With(MimeParameter(m, j), <<"parameter">>), With(MimeParameter(m2, j), <<"parameter">>), n)
    BY MimeParameterKept, WithKept
  <2> QED
    BY <1>3, <2>1, GuessedKept, ElseKept
<1> HIDE DEF Parm1
<1>4. a2 = a /\ a.v = "ok" => Kept(b, b2, n)
  BY <1>2, <1>3 DEF Settled, Undecided
<1>5. Kept(a, a2, n) /\ (a.v = "ok" /\ a.i = n => Undecided(b))
  BY <1>2, SettledIsFirm DEF Settled, Undecided
<1> HIDE DEF a, a2, b, b2
<1> QED
  BY <1>1, <1>2, <1>4, <1>5, FollowKept

LEMMA DispositionTypeKept ==
    ASSUME NEW m, NEW m2, Begins(m, m2), NEW i \in Indices(m)
    PROVE  Kept(DispositionType(m, i), DispositionType(m2, i), Len(m))
<1> DEFINE n == Len(m)
           Type1(t, j) == Else(FirstKeyword(t, j, Dispositions), With(Token(t, j), <<"extension">>))
           a == Opt(Cfws(m, i), i)
           a2 == Opt(Cfws(m2, i), i)
           b == Type1(m, a.i)
           b2 == Type1(m2, a2.i)
<1>1. DispositionType(m, i) = AndThen(a, b) /\ DispositionType(m2, i) = AndThen(a2, b2)
  BY DEF DispositionType, AndThen, Then
<1>2. Settled(a, a2, n) /\ (a.v = "ok" => a.i \in Indices(m))
  BY MayCfwsSettled
<1>3. ASSUME NEW j \in Indices(m) PROVE Kept(Type1(m, j), Type1(m2, j), n)
  <2>1. Kept(With(Token(m, j), <<"extension">>), With(Token(m2, j), <<"extension">>), n)
    BY TokenKept, WithKept
  <2>2. Firm(FirstKeyword(m, j, Dispositions), FirstKeyword(m2, j, Dispositions))
    BY FirstKeywordFirm, KeysOfCode
  <2>3. Kept(FirstKeyword(m, j, Dispositions), FirstKeyword(m2, j, Dispositions), n)
    BY <2>2, SettledIsFirm
  <2> QED
    BY <2>1, <2>3, ElseKept
<1> HIDE DEF Type1
<1>4. a2 = a /\ a.v = "ok" => Kept(b, b2, n)
  BY <1>2, <1>3
<1>5. Kept(a, a2, n) /\ (a.v = "ok" /\ a.i = n => Undecided(b))
  BY <1>2, SettledIsFirm DEF Settled, Undecided
<1> HIDE DEF a, a2, b, b2
<1> QED
  BY <1>1, <1>4, <1>5, FollowKept

LEMMA DispositionFirm ==
    ASSUME NEW m, NEW m2, Begins(m, m2)
    PROVE  Firm(Disposition(m), Disposition(m2))
<1> DEFINE n == Len(m)
           Each(t) == [j \in Indices(t) |-> DispositionParm(t, j)]
           Items1(t) == Items(t, ";", Each(t))
           Turns1(t) == [j \in Indices(t) |-> Turn(Items1(t)[j], j, <<Items1(t)[j].val>>)]
           type == DispositionType(m, 0)
           type2 == DispositionType(m2, 0)
           parms == Loop(Turns1(m), type.i)
           parms2 == Loop(Turns1(m2), type2.i)
           r == With(parms, type.val \o FlattenSeq(parms.val))
           r2 == With(parms2, type2.val \o FlattenSeq(parms2.val))
           b == Line(m, r)
           b2 == Line(m2, r2)
<1>1. n \in Nat /\ Len(m2) \in Nat /\ n \in Indices(m) /\ 0 \in Indices(m)
  BY DEF Begins, Indices
<1>2. \A t, k : Parameters(t, k, {"parse"}, Each(t)) = Loop(Turns1(t), k)
  <2> TAKE t, k
  <2> DEFINE sep(j) == UnstrictChar(t, j, ";")
             item(j) == AndThen(sep(j), Each(t)[sep(j).i])
  <2>1. Turns1(t) = [j \in Indices(t) |-> Turn(item(j), j, <<item(j).val>>)]
    BY DEF Items
  <2>2. \A j : sep(j).v \in {"parse"} => Turn(item(j), j, <<item(j).val>>) = Ok(j)
    BY DEF AndThen, Turn
  <2>3. Parameters(t, k, {"parse"}, Each(t)) =
          Loop([j \in Indices(t) |-> IF sep(j).v \in {"parse"} THEN Ok(j) ELSE Turn(item(j), j, <<item(j).val>>)], k)
    BY DEF Parameters
  <2> HIDE DEF sep, item, Turns1
  <2>4. [j \in Indices(t) |-> IF sep(j).v \in {"parse"} THEN Ok(j) ELSE Turn(item(j), j, <<item(j).val>>)]
        = [j \in Indices(t) |-> Turn(item(j), j, <<item(j).val>>)]
    BY <2>2
  <2> QED
    BY <2>1, <2>3, <2>4
<1>3. Disposition(m) = AndThen(type, b) /\ Disposition(m2) = AndThen(type2, b2)
  BY <1>2 DEF Disposition
<1>4. Listed(Each(m), Each(m2), m, m2, Verdicts(m), Verdicts(m2))
  <2>1. Values(Each(m), m, Verdicts(m)) /\ Values(Each(m2), m2, Verdicts(m2))
    BY <1>1, DispositionParmAnswer, VerdictsAre DEF Values
  <2>2. \A j \in Indices(m) : Each(m)[j] = DispositionParm(m, j) /\ Each(m2)[j] = DispositionParm(m2, j)
    BY Within
  <2> HIDE DEF Each
  <2>3. Steady(Each(m), Each(m2), m)
    BY <1>1, <2>2, DispositionParmKept DEF Steady
  <2> QED
    BY <2>1, <2>3 DEF Listed
<1>5. Kept(type, type2, n) /\ (type.v = "ok" => type.i \in Indices(m))
  BY <1>1, DispositionTypeKept, DispositionTypeAnswer DEF Answer, Indices
<1>6. ASSUME NEW k \in Indices(m)
      PROVE  LET l == Loop(Turns1(m), k)
             IN /\ Settled(l, Loop(Turns1(m2), k), n) /\ (k = n => Undecided(l))
                /\ l.v = "ok" => l.i \in Indices(m) /\ ~Undecided(Cfws(m, l.i))
  <2> DEFINE t == Turns1(m)
             t2 == Turns1(m2)
             p == Each(m)
             p2 == Each(m2)
  <2>6. PICK c : c = ";"
    OBVIOUS
  <2>1. DOMAIN t = Indices(m) /\ DOMAIN t2 = Indices(m2)
    OBVIOUS
  <2>2. \A j \in Indices(m) : t[j] = Turn(Items(m, c, p)[j], j, <<Items(m, c, p)[j].val>>)
    BY <2>6
  <2>3. \A j \in Indices(m2) : t2[j] = Turn(Items(m2, c, p2)[j], j, <<Items(m2, c, p2)[j].val>>)
    BY <2>6
  <2>5. PICK V, W : Listed(p, p2, m, m2, V, W)
    BY <1>4
  <2> HIDE DEF t, t2, p, p2
  <2>4. /\ Settled(Loop(t, k), Loop(t2, k), n) /\ (k = n => Undecided(Loop(t, k)))
        /\ Loop(t, k).v = "ok" => Loop(t, k).i \in Indices(m) /\ ~Undecided(Cfws(m, Loop(t, k).i))
    BY <2>1, <2>2, <2>3, <2>5, ItemsSettled
  <2> QED
    BY <2>4 DEF t, t2
<1> HIDE DEF Turns1, type, type2
<1>7. type.v = "ok" => /\ type2 = type => Settled(parms, parms2, n)
                       /\ type.i = n => Undecided(parms)
                       /\ parms.v = "ok" => parms.i \in Indices(m) /\ ~Undecided(Cfws(m, parms.i))
  BY <1>5, <1>6
<1> HIDE DEF parms, parms2
<1>8. type.v = "ok" => /\ type2 = type => Settled(r, r2, n)
                       /\ type.i = n => Undecided(r)
                       /\ r.v = "ok" => r.i \in Indices(m) /\ ~Undecided(Cfws(m, r.i))
  <2>1. type2 = type /\ Settled(parms, parms2, n) => Settled(r, r2, n)
    BY WithKept
  <2>2. r.v = parms.v /\ (parms.v = "ok" => r.i = parms.i)
    BY DEF With, Got
  <2> QED
    BY <1>7, <2>1, <2>2 DEF Undecided
<1> HIDE DEF r, r2
<1>9. type2 = type /\ type.v = "ok" => Firm(b, b2)
  BY <1>8, LineFirm
<1>10. type.v = "ok" /\ type.i = n => Undecided(b)
  BY <1>8 DEF Line, AndThen, Undecided
<1> HIDE DEF b, b2
<1> QED
  BY <1>3, <1>5, <1>9, <1>10, FollowFirm

\* A tag of a list of languages, behind its comma.
Tag(m, j) == AndThen(UnstrictChar(m, j, ","), Atom(m, UnstrictChar(m, j, ",").i))
TagTurn(m, j) ==
    CASE Tag(m, j).v = "ok" -> Again(Tag(m, j).i, <<>>)
      [] Tag(m, j).v = "parse" -> Ok(IF UnstrictChar(m, j, ",").v = "ok" THEN UnstrictChar(m, j, ",").i ELSE j)
      [] OTHER -> Tag(m, j)

\* White space that is not known is passed on as not known.
LEMMA UnknownWhite ==
    ASSUME NEW m, NEW i, Undecided(Cfws(m, i))
    PROVE  (\A c : Undecided(UnstrictChar(m, i, c))) /\ Undecided(Atom(m, i))
<1> DEFINE w == Opt(Cfws(m, i), i)
<1>1. Undecided(w) /\ w.v # "ok"
  BY DEF Opt, Else, Undecided
<1>2. \A c : UnstrictChar(m, i, c) = IF w.v = "ok" THEN Char(m, w.i, c) ELSE w
  BY UnstrictCharIs
<1>3. w.v # "ok" => Atom(m, i) = w
  BY DEF Atom, AtomAfter, Then
<1> HIDE DEF w
<1> QED
  BY <1>1, <1>2, <1>3

LEMMA TagTurnKept ==
    ASSUME NEW m, NEW m2, Begins(m, m2), NEW j \in Indices(m)
    PROVE  /\ \/ Undecided(TagTurn(m, j))
              \/ TagTurn(m2, j) = TagTurn(m, j)
              \/ TagTurn(m, j).v = "again" /\ TagTurn(m, j).i = Len(m)
           /\ j = Len(m) => Undecided(TagTurn(m, j))
           /\ LET e == TagTurn(m, j).i IN TagTurn(m, j).v = "ok" => e \in Indices(m) /\ ~Undecided(Cfws(m, e))
<1> DEFINE n == Len(m)
           c == UnstrictChar(m, j, ",")
           c2 == UnstrictChar(m2, j, ",")
           a == Atom(m, c.i)
           a2 == Atom(m2, c2.i)
           tag == Tag(m, j)
           tag2 == Tag(m2, j)
           t == TagTurn(m, j)
           t2 == TagTurn(m2, j)
<1>1. n \in Nat
  BY Within
<1>2. Firm(c, c2) /\ (j = n => Undecided(c)) /\ (c.v = "ok" => c.i \in Indices(m))
      /\ (~Undecided(c) => ~Undecided(Cfws(m, j)))
  BY <1>1, UnstrictCharFirm, UnstrictCharAnswer, UnknownWhite DEF Answer, Indices
<1>3. c.v = "ok" => /\ c2 = c => Kept(a, a2, n)
                    /\ c.i = n => Undecided(a)
                    /\ ~Undecided(a) => ~Undecided(Cfws(m, c.i))
  <2> HIDE DEF c, c2
  <2> QED
    BY <1>2, WordsKept, UnknownWhite
<1>4. tag = AndThen(c, a) /\ tag2 = AndThen(c2, a2)
  BY DEF Tag
<1>5. t = CASE tag.v = "ok" -> Again(tag.i, <<>>)
            [] tag.v = "parse" -> Ok(IF c.v = "ok" THEN c.i ELSE j)
            [] OTHER -> tag
  BY DEF TagTurn
<1>6. t2 = CASE tag2.v = "ok" -> Again(tag2.i, <<>>)
             [] tag2.v = "parse" -> Ok(IF c2.v = "ok" THEN c2.i ELSE j)
             [] OTHER -> tag2
  BY DEF TagTurn
<1> HIDE DEF c, c2, a, a2, tag, tag2, t, t2
<1>7. Kept(tag, tag2, n) /\ (Undecided(c) => Undecided(tag))
  <2>1. Kept(c, c2, n)
    BY <1>2, SettledIsFirm
  <2> QED
    BY <1>3, <1>4, <2>1, FollowKept
<1>8. CASE tag.v = "ok"
  <2>1. t = Again(tag.i, <<>>) /\ (tag2 = tag => t2 = t)
    BY <1>5, <1>6, <1>8
  <2>2. ~Undecided(tag) /\ j # n
    BY <1>2, <1>7, <1>8 DEF Undecided
  <2> QED
    BY <1>7, <1>8, <2>1, <2>2, Constants DEF Kept, t, t2
<1>9. CASE tag.v = "parse"
  <2> DEFINE e == IF c.v = "ok" THEN c.i ELSE j
  <2>1. t = Ok(e)
    BY <1>5, <1>9
  <2>2. ~Undecided(c) /\ c2 = c /\ tag2 = tag
    BY <1>2, <1>7, <1>9 DEF Firm, Kept, Undecided
  <2>3. t2 = Ok(e)
    BY <1>6, <1>9, <2>2
  <2>4. e \in Indices(m)
    BY <1>2
  <2>5. ~Undecided(Cfws(m, e))
    <3>1. CASE c.v = "ok"
      <4>1. a = tag
        BY <1>4, <3>1 DEF AndThen
      <4> QED
        BY <1>3, <1>9, <3>1, <4>1 DEF Undecided
    <3>2. CASE c.v # "ok"
      BY <1>2, <2>2, <3>2
    <3> QED
      BY <3>1, <3>2
  <2>6. t.v = "ok" /\ t.i = e
    BY <2>1, Constants
  <2> HIDE DEF e
  <2> QED
    BY <1>2, <2>1, <2>2, <2>3, <2>4, <2>5, <2>6 DEF t, t2
<1>10. CASE tag.v \notin {"ok", "parse"}
  <2>1. t = tag /\ (tag2 = tag => t2 = tag)
    BY <1>5, <1>6, <1>10
  <2> QED
    BY <1>2, <1>7, <1>10, <2>1 DEF Kept, Undecided, t, t2
<1> QED
  BY <1>8, <1>9, <1>10

LEMMA LanguageFirm ==
    ASSUME NEW m, NEW m2, Begins(m, m2)
    PROVE  Firm(Language(m), Language(m2))
<1> DEFINE n == Len(m)
           Tags(x) == [j \in Indices(x) |-> TagTurn(x, j)]
           t == Tags(m)
           t2 == Tags(m2)
           r == Loop(t, 0)
           r2 == Loop(t2, 0)
<1>1. n \in Nat /\ Len(m2) \in Nat /\ n <= Len(m2) /\ n \in Indices(m) /\ 0 \in 0..n
  BY DEF Begins, Indices
<1>2. Language(m) = Line(m, r) /\ Language(m2) = Line(m2, r2)
  <2>1. \A x, j : Then(UnstrictChar(x, j, ","), LAMBDA k : Atom(x, k)) = Tag(x, j)
    BY DEF Tag, Then, AndThen
  <2> QED
    BY <2>1 DEF Language, TagTurn
<1>3. ASSUME NEW x, Len(x) \in Nat PROVE Forward(Tags(x), Len(x))
  <2>1. ASSUME NEW j \in Indices(x), TagTurn(x, j).v = "again" PROVE TagTurn(x, j).i \in (j + 1)..Len(x)
    <3> DEFINE c == UnstrictChar(x, j, ",")
    <3>1. Answer(c, j, x, Verdicts(x)) /\ Advances(c, j)
      BY <1>3, UnstrictCharAnswer
    <3>2. c.v = "ok" => c.i \in Indices(x)
      BY <3>1 DEF Answer, Indices
    <3>3. c.v = "ok" => Answer(Atom(x, c.i), c.i, x, Verdicts(x))
      BY <1>3, <3>2, WordAnswers
    <3>4. Tag(x, j) = AndThen(c, Atom(x, c.i))
      BY DEF Tag
    <3>7. Advances(c, j) /\ (c.i \in Indices(x) => Answer(Atom(x, c.i), c.i, x, Verdicts(x)))
      BY <1>3, <3>1, WordAnswers
    <3> DEFINE atom == Atom(x, c.i)
    <3> HIDE DEF c, atom
    <3>5. Answer(AndThen(c, atom), j, x, Verdicts(x)) /\ Advances(AndThen(c, atom), j)
      BY <1>3, <3>1, <3>7, PairAnswer DEF atom
    <3>6. Tag(x, j).v = "ok" /\ TagTurn(x, j).i = Tag(x, j).i
      <4>1. Tag(x, j).v # "again"
        BY <3>4, <3>5, VerdictsAre DEF Answer, atom
      <4> QED
        BY <2>1, <4>1, Constants DEF TagTurn
    <3> QED
      BY <1>3, <3>4, <3>5, <3>6 DEF Answer, Advances, Indices, atom
  <2> QED
    BY <2>1 DEF Forward, Indices
<1>4. \A j \in Indices(m) : t[j] = TagTurn(m, j) /\ t2[j] = TagTurn(m2, j)
  BY Within
<1>5. Forward(t, n) /\ Forward(t2, Len(m2))
  BY <1>1, <1>3
<1> HIDE DEF t, t2
<1>6. Turning(t, t2, n)
  BY <1>1, <1>4, TagTurnKept DEF Turning, Indices
<1>7. Firm(r, r2)
  BY <1>1, <1>5, <1>6, LoopFirm
<1>8. ASSUME r.v = "ok" PROVE r.i \in Indices(m) /\ ~Undecided(Cfws(m, r.i))
  <2>1. PICK j \in 0..n : t[j].v = "ok" /\ t[j].i = r.i
    BY <1>1, <1>5, <1>8, LoopEnds
  <2>2. j \in Indices(m)
    BY DEF Indices
  <2>3. TagTurn(m, j).v = "ok" /\ TagTurn(m, j).i = r.i
    BY <1>4, <2>1, <2>2
  <2> QED
    BY <2>2, <2>3, TagTurnKept
<1>9. Undecided(Cfws(m, n))
  BY <1>1, CfwsSettled
<1>10. Settled(r, r2, n)
  BY <1>7, <1>8, <1>9 DEF Firm, Settled
<1> HIDE DEF r, r2
<1> QED
  BY <1>2, <1>8, <1>10, LineFirm

-----------------------------------------------------------------------------
(***************************************************************************)
(* Answers are final.                                                      *)
(***************************************************************************)
\* The fields whose parsers answer only what they know for certain.  The others
\* end their line, or their white space, where a fold could still follow it, or
\* refuse a name that has not all arrived.
Addressed == {"from", "to", "reply-to", "cc", "resent-from", "resent-to", "resent-cc"}
Standing == {"fws", "comment", "quoted", "literal", "line", "keywords", "disposition", "language"} \cup Addressed

LEMMA BeginsText ==
    ASSUME NEW m \in Seq(STRING), NEW n \in 0..Len(m)
    PROVE  Begins(SubSeq(m, 1, n), m)
<1> DEFINE s == SubSeq(m, 1, n)
<1>1. s \in Seq(STRING) /\ Len(s) = n /\ \A k \in 1..n : s[k] = m[k]
  OBVIOUS
<1> HIDE DEF s
<1>2. \A k \in 0..(Len(s) - 1) : Ch(s, k) = Ch(m, k)
  BY <1>1 DEF Ch
<1>3. ASSUME NEW i \in Indices(s), NEW j \in Indices(s)
      PROVE  SubSeq(s, i + 1, j) = SubSeq(m, i + 1, j)
  <2>1. i \in 0..n /\ j \in 0..n
    BY <1>1, <1>3 DEF Indices
  <2>2. \A k \in 1..(j - i) : s[k + i] = m[k + i]
    BY <1>1, <2>1
  <2> QED
    BY <1>1, <2>1, <2>2
<1>4. Len(s) \in Nat /\ Len(m) \in Nat /\ Len(s) <= Len(m)
  BY <1>1
<1>5. Begins(s, m)
  BY <1>2, <1>3, <1>4 DEF Begins
<1> QED
  BY <1>5 DEF s

\* A field that is a list of addresses or of phrases.
LEMMA ListsFirm ==
    ASSUME NEW m, NEW m2, Begins(m, m2)
    PROVE  /\ Firm(Keywords(m), Keywords(m2))
           /\ Disclosed(m2) => Firm(Line(m, MailboxList(m, 0)), Line(m2, MailboxList(m2, 0)))
           /\ Disclosed(m2) => Firm(Line(m, AddressList(m, 0)), Line(m2, AddressList(m2, 0)))
<1>1. 0 \in Indices(m) /\ Len(m) \in Nat /\ Len(m2) \in Nat /\ Len(m) \in Indices(m)
  BY DEF Begins, Indices
<1>2. Firm(Keywords(m), Keywords(m2))
  <2> DEFINE p == [j \in Indices(m) |-> Phrase(m, j)]
             p2 == [j \in Indices(m2) |-> Phrase(m2, j)]
  <2>1. PICK c : c = ","
    OBVIOUS
  <2>2. Keywords(m) = Line(m, StructList(m, 0, c, p)) /\ Keywords(m2) = Line(m2, StructList(m2, 0, c, p2))
    BY <2>1 DEF Keywords
  <2>3. Values(p, m, Verdicts(m)) /\ Values(p2, m2, Verdicts(m2))
    BY <1>1, PhraseAnswers, VerdictsAre DEF Values
  <2>4. Steady(p, p2, m)
    <3>1. \A j \in Indices(m) : p[j] = Phrase(m, j) /\ p2[j] = Phrase(m2, j)
      BY Within
    <3> HIDE DEF p, p2
    <3> QED
      BY <1>1, <3>1, PhraseSettled, SettledIsFirm DEF Steady
  <2>5. PICK V, W : Listed(p, p2, m, m2, V, W)
    BY <2>3, <2>4 DEF Listed
  <2> DEFINE r == StructList(m, 0, c, p)
             r2 == StructList(m2, 0, c, p2)
  <2> HIDE DEF p, p2
  <2>6. Settled(r, r2, Len(m)) /\ (r.v = "ok" => r.i \in Indices(m) /\ ~Undecided(Cfws(m, r.i)))
    BY <1>1, <2>5, StructListSettled
  <2> HIDE DEF r, r2
  <2>7. Firm(Line(m, r), Line(m2, r2))
    BY <2>6, LineFirm
  <2> QED
    BY <2>2, <2>7 DEF r, r2
<1>3. ASSUME Disclosed(m2) PROVE Firm(Line(m, MailboxList(m, 0)), Line(m2, MailboxList(m2, 0)))
  <2> DEFINE r == MailboxList(m, 0)
             r2 == MailboxList(m2, 0)
  <2>1. Settled(r, r2, Len(m)) /\ (r.v = "ok" => r.i \in Indices(m) /\ ~Undecided(Cfws(m, r.i)))
    BY <1>1, <1>3, MailboxListSettled
  <2> HIDE DEF r, r2
  <2>2. Firm(Line(m, r), Line(m2, r2))
    BY <2>1, LineFirm
  <2> QED
    BY <2>2 DEF r, r2
<1>4. ASSUME Disclosed(m2) PROVE Firm(Line(m, AddressList(m, 0)), Line(m2, AddressList(m2, 0)))
  <2> DEFINE r == AddressList(m, 0)
             r2 == AddressList(m2, 0)
  <2>1. Settled(r, r2, Len(m)) /\ (r.v = "ok" => r.i \in Indices(m) /\ ~Undecided(Cfws(m, r.i)))
    BY <1>1, <1>4, AddressListSettled
  <2> HIDE DEF r, r2
  <2>2. Firm(Line(m, r), Line(m2, r2))
    BY <2>1, LineFirm
  <2> QED
    BY <2>2 DEF r, r2
<1> QED
  BY <1>2, <1>3, <1>4

LEMMA ParseFirm ==
    ASSUME NEW m, NEW m2, Begins(m, m2), NEW f \in Standing, f \in Addressed => Disclosed(m2)
    PROVE  Firm(Parse(f, m), Parse(f, m2))
<1>1. 0 \in Indices(m) /\ Len(m) \in Nat
  BY DEF Begins, Indices
<1>2. CASE f \in Addressed
  <2>1. Disclosed(m2)
    BY <1>2
  <2>2. CASE f \in {"from", "resent-from"}
    <3>1. \A t : Parse(f, t) = Line(t, MailboxList(t, 0))
      BY <2>2 DEF Parse, From, ResentFrom
    <3> QED
      BY <2>1, <3>1, ListsFirm
  <2>3. CASE f \in Addressed \ {"from", "resent-from"}
    <3>1. \A t : Parse(f, t) = Line(t, AddressList(t, 0))
      BY <2>3 DEF Addressed, Parse, To, ReplyTo, Cc, ResentTo, ResentCc
    <3> QED
      BY <2>1, <3>1, ListsFirm
  <2> QED
    BY <1>2, <2>2, <2>3
<1>3. CASE f = "fws"
  <2>1. Firm(Fws(m, 0), Fws(m2, 0))
    BY <1>1, FwsSettled, SettledIsFirm
  <2> QED
    BY <1>3, <2>1 DEF Parse
<1>4. CASE f = "comment"
  <2>1. Firm(Comment(m, 0), Comment(m2, 0))
    BY <1>1, CommentFirm
  <2> QED
    BY <1>4, <2>1 DEF Parse
<1>5. CASE f = "quoted"
  <2>1. Firm(QuotedString(m, 0), QuotedString(m2, 0))
    BY <1>1, WordsKept
  <2> QED
    BY <1>5, <2>1 DEF Parse
<1>6. CASE f = "literal"
  <2>1. Firm(DomainLiteral(m, 0), DomainLiteral(m2, 0))
    BY <1>1, DomainLiteralFirm
  <2> QED
    BY <1>6, <2>1 DEF Parse
<1>7. CASE f = "line"
  <2>1. Firm(StrCrLf(m, 0), StrCrLf(m2, 0))
    BY <1>1, StrCrLfFirm
  <2> QED
    BY <1>7, <2>1 DEF Parse
<1>8. CASE f = "keywords"
  BY <1>8, ListsFirm DEF Parse
<1>9. CASE f = "disposition"
  BY <1>9, DispositionFirm DEF Parse
<1>10. CASE f = "language"
  BY <1>10, LanguageFirm DEF Parse
<1> QED
  BY <1>2, <1>3, <1>4, <1>5, <1>6, <1>7, <1>8, <1>9, <1>10 DEF Standing

\* Final, for these fields and every text: however the client cuts it into
\* segments, an answer stays what it is when more of the text arrives, as long
\* as the parser has returned and no recipient is undisclosed.  A parser keeps
\* to its answer unless it has come to the end of the text (Kept); one behind
\* another answers nothing there (Steady); what ends a list, and a line, is
\* looked for where the white space before it is known (StructListSettled).
THEOREM AnswersStand ==
    ASSUME Parser = Library
    PROVE  Spec => [](field \in Standing /\ (field \in Addressed => Disclosed(text)) /\ Returns => Final)
<1>1. FieldsInv => (field \in Standing /\ (field \in Addressed => Disclosed(text)) /\ Returns => Final)
  <2> SUFFICES ASSUME FieldsInv, field \in Standing, field \in Addressed => Disclosed(text), Returns, said # None
               PROVE  now = said
    BY DEF Final
  <2>1. text \in Seq(STRING) /\ now = Parse(field, text)
    BY DEF FieldsInv, Sent, Called
  <2>2. PICK n \in 0..Len(text) : said = Parse(field, SubSeq(text, 1, n)) /\ said.v # "cont"
    BY DEF FieldsInv, Said
  <2> DEFINE m == SubSeq(text, 1, n)
  <2>3. Begins(m, text)
    BY <2>1, BeginsText
  <2> HIDE DEF m
  <2>4. Firm(Parse(field, m), Parse(field, text))
    BY <2>3, ParseFirm
  <2>5. ~Undecided(said)
    BY <2>2 DEF Returns, Undecided
  <2> QED
    BY <2>1, <2>2, <2>4, <2>5 DEF Firm, m
<1>2. Spec => []FieldsInv
  BY FieldsSent
<1> QED
  BY <1>1, <1>2, PTL
=============================================================================

-------------------------- MODULE SmtpMessageProofs --------------------------
(***************************************************************************)
(* The stack of parts of SmtpMessage, for every depth of the stack, every  *)
(* set of boundaries and every size of the client buffer: it stays in its  *)
(* bounds, keeps the shape its parsers take for granted, and is back where *)
(* it began when a message is over.                                        *)
(***************************************************************************)
EXTENDS SmtpMessage, SequenceTheorems, WellFoundedInduction, TLAPS

Multipart(p) == p.type = "multi" /\ p.bound # None

\* PartsNest, and what the parser of each state finds at the top.
StackInv ==
    /\ PartsNest
    /\ newPart /\ top >= 1 => Multipart(stack[top])
    /\ ~newPart /\ top = 0 => stack[0].state = "epilogue"
    /\ ~newPart /\ top >= 1 /\ stack[top].state # "fields" /\ stack[top].state # "body"
         => Multipart(stack[top])
    /\ stack[top].type = "multi" => stack[top].bound # None

\* The lines the tracker reads its boundaries from have one.
Bounded(l) == l.kind = "multi" => l.id \in Boundaries
LinesInv ==
    /\ \A i \in 1..Len(buf) : Bounded(buf[i])
    /\ \A i \in 1..Len(owed) : Bounded(owed[i])
    /\ at = "preamble" => nested # <<>>

\* A message is over for the tracker from the end it sees to the next DATA.
\* In an orderly dialogue that end is the client's, so nothing of the message is
\* left to be taken for the next.
Over == ~message \/ last = "EOM"
EndInv ==
    /\ phase = "succ" => top = 0 /\ newPart /\ cur = Len(buf)
    /\ ~open => top = 0 /\ newPart /\ phase = "idle"
    /\ orderly /\ open =>
         /\ \A i \in 1..Len(buf) : buf[i] = Line("dot", None) => at = "done"
         /\ at = "done" => owed = <<>>
         /\ Over => top = 0 /\ newPart /\ ((phase = "idle" /\ buf = <<>>) \/ phase = "succ")
         /\ last = "EOM" /\ message => at = "done"

MessageInv == TypeOK /\ StackInv /\ LinesInv /\ EndInv

USE DepthAssumption, BoundariesAssumption, MalformedAssumption, ScrapsAssumption,
    MaxNestingAssumption, BufLinesAssumption

-----------------------------------------------------------------------------
(***************************************************************************)
(* The buffer and the stack.                                               *)
(***************************************************************************)
StackType == [Indices -> [state : States, type : Types, bound : Boundaries \cup {None}]]

LEMMA RestOfBuffer ==
    ASSUME TypeOK
    PROVE  /\ Rest \in Seq(Lines)
           /\ Len(Rest) = IF cur < Len(buf) THEN Len(buf) - cur ELSE 0
           /\ \A i \in 1..Len(Rest) : cur + i \in 1..Len(buf) /\ Rest[i] = buf[cur + i]
<1>1. buf \in Seq(Lines) /\ cur \in Nat /\ Len(buf) \in Nat
  BY LenProperties DEF TypeOK
<1>2. \A i \in (cur + 1)..Len(buf) : buf[i] \in Lines
  BY <1>1, ElementOfSeq
<1>3. /\ SubSeq(buf, cur + 1, Len(buf)) \in Seq(Lines)
      /\ Len(SubSeq(buf, cur + 1, Len(buf)))
           = IF cur + 1 <= Len(buf) THEN Len(buf) - (cur + 1) + 1 ELSE 0
      /\ \A i \in 1..(Len(buf) - (cur + 1) + 1) :
           SubSeq(buf, cur + 1, Len(buf))[i] = buf[cur + 1 + i - 1]
  BY <1>1, <1>2, SubSeqProperties
<1> QED
  BY <1>1, <1>3 DEF Rest

\* What is kept back is part of what is left.
LEMMA HeldFits == ASSUME TypeOK PROVE Len(buf) - Held \in Nat
<1>1. Len(buf) \in Nat /\ cur \in Nat
  BY LenProperties DEF TypeOK
<1>2. CASE Rest = <<>>
  BY <1>1, <1>2 DEF Held
<1>3. CASE Rest # <<>>
  <2>1. Len(Rest) \in Nat \ {0} /\ Len(Rest) <= Len(buf)
    BY <1>1, <1>3, RestOfBuffer, EmptySeq
  <2>2. CASE Held = 1
    BY <1>1, <2>1, <2>2
  <2>3. CASE Held = 2 /\ Len(Rest) # 1
    BY <1>1, <2>1, <2>3
  <2> QED
    BY <1>3, <2>2, <2>3 DEF Held
<1> QED
  BY <1>2, <1>3

\* An entry that changes its state keeps its type and boundary.
LEMMA StateSet ==
    ASSUME NEW s \in StackType, NEW i \in Indices, NEW state \in States
    PROVE  /\ InState(s, i, state) \in StackType
           /\ \A j \in Indices : j # i => InState(s, i, state)[j] = s[j]
           /\ InState(s, i, state)[i].type = s[i].type
           /\ InState(s, i, state)[i].bound = s[i].bound
           /\ InState(s, i, state)[i].state = state
BY DEF InState, StackType

\* Popping leaves the entries below as they were.
LEMMA PoppedShape ==
    ASSUME NEW s \in StackType, NEW n \in Nat, top \in Indices
    PROVE  /\ Popped(s, n) \in StackType
           /\ \A j \in Indices : j <= top - n => Popped(s, n)[j] = s[j]
BY DEF Popped, StackType, ClearPart, States, Types, Indices

-----------------------------------------------------------------------------
(***************************************************************************)
(* Steps of the loop.                                                      *)
(***************************************************************************)
\* In the loop the session is open, and an orderly message is not over.
LEMMA InLoop ==
    ASSUME MessageInv, phase \in {"loop", "cont", "filling"}
    PROVE  open /\ (orderly => ~Over)
BY DEF MessageInv, EndInv, TypeOK, Phases

LEMMA FailKeeps ==
    ASSUME MessageInv, NEW reason \in Reasons \ {"pop"}, Fail(reason), UNCHANGED sender
    PROVE  MessageInv'
<1>1. TypeOK'
  <2>1. [i \in Indices |-> ClearPart] \in StackType /\ 0 \in Indices
    BY DEF StackType, ClearPart, States, Types, Indices
  <2>2. <<>> \in Seq(Lines)
    BY EmptySeq
  <2> QED
    BY <2>1, <2>2 DEF MessageInv, TypeOK, Fail, sender, StackType, Phases
<1>2. StackInv'
  <2>1. \A i \in Indices : stack'[i].type = "none" /\ stack'[i].bound = None
    BY DEF Fail, ClearPart
  <2>2. 0 \in Indices /\ top' = 0 /\ newPart' /\ why' # "pop"
    BY DEF Fail, Indices
  <2> QED
    BY <2>1, <2>2 DEF StackInv, PartsNest, Multipart
<1>3. LinesInv'
  <2>1. Len(<<>>) = 0
    BY EmptySeq
  <2> QED
    BY <2>1 DEF MessageInv, LinesInv, Fail, sender, Bounded
<1>4. EndInv'
  BY DEF EndInv, Fail
<1> QED
  BY <1>1, <1>2, <1>3, <1>4 DEF MessageInv

\* A turn that does not end the message need only keep the stack's shape.
LEMMA TurnKeeps ==
    ASSUME MessageInv, phase = "loop", phase' \in {"loop", "cont"},
           UNCHANGED <<sender, open, why, message, buf>>,
           last' \in {last, "EOT", "EOB"}, cur' \in Nat, kept' \in BOOLEAN,
           stack' \in StackType, top' \in Indices, newPart' \in BOOLEAN, StackInv'
    PROVE  MessageInv'
<1>1. TypeOK'
  BY DEF MessageInv, TypeOK, sender, StackType, Phases
<1>2. LinesInv'
  BY DEF MessageInv, LinesInv, sender, Bounded
<1>3. EndInv'
  <2>1. open /\ (orderly => ~Over)
    BY InLoop
  <2>2. orderly => ~Over'
    BY <2>1 DEF Over
  <2> QED
    BY <2>1, <2>2 DEF MessageInv, EndInv, sender, Over
<1> QED
  BY <1>1, <1>2, <1>3 DEF MessageInv

LEMMA StackKept ==
    ASSUME MessageInv, UNCHANGED <<parts, why>>
    PROVE  StackInv' /\ stack' \in StackType /\ top' \in Indices /\ newPart' \in BOOLEAN
BY DEF MessageInv, TypeOK, StackInv, PartsNest, Multipart, parts, StackType

LEMMA ContinueKeeps ==
    ASSUME MessageInv, phase = "loop", UNCHANGED sender, NEW n \in Nat, Continue(n)
    PROVE  MessageInv'
<1>1. kept \in BOOLEAN
  BY DEF MessageInv, TypeOK
<1> QED
  BY <1>1, StackKept, TurnKeeps DEF Continue, session

LEMMA SearchKeeps ==
    ASSUME MessageInv, phase = "loop", UNCHANGED sender, Search
    PROVE  MessageInv'
<1>1. cur' \in Nat /\ kept' \in BOOLEAN
  BY HeldFits, LenProperties DEF MessageInv, TypeOK, Search
<1> QED
  BY <1>1, StackKept, TurnKeeps DEF Search, session

LEMMA PushKeeps ==
    ASSUME MessageInv, phase = "loop", newPart, UNCHANGED sender, Push
    PROVE  MessageInv'
<1>1. CASE Full
  BY <1>1, FailKeeps DEF Push, Reasons
<1>2. CASE ~Full
  <2>1. /\ top \in Nat /\ top + 1 \in Indices /\ top' = top + 1
        /\ newPart' = FALSE /\ stack' = [stack EXCEPT ![top + 1] = ClearPart]
        /\ stack \in StackType /\ UNCHANGED <<session, buf, cur, kept, phase>>
    BY <1>2 DEF MessageInv, TypeOK, Push, Full, Indices, StackType
  <2>2. stack' \in StackType
    BY <2>1 DEF StackType, ClearPart, States, Types
  <2>3. stack'[top'] = ClearPart /\ \A i \in 0..top : stack'[i] = stack[i]
    BY <2>1 DEF StackType, Indices
  <2>4. StackInv'
    <3>1. \A i \in 1..top : Multipart(stack[i])
      <4>1. \A i \in 1..(top - 1) : Multipart(stack[i])
        BY DEF MessageInv, StackInv, PartsNest, Multipart
      <4>2. top >= 1 => Multipart(stack[top])
        BY DEF MessageInv, StackInv
      <4> QED
        BY <2>1, <4>1, <4>2
    <3>2. PartsNest'
      BY <2>1, <2>3, <3>1 DEF PartsNest, Multipart, MessageInv, StackInv, session
    <3> QED
      BY <2>1, <2>3, <3>2 DEF StackInv, ClearPart
  <2> QED
    BY <2>1, <2>2, <2>4, TurnKeeps DEF MessageInv, TypeOK, session
<1> QED
  BY <1>1, <1>2

\* A part that becomes the top in state "preamble" or "epilogue", or under a
\* part to come, is a multipart or the first entry.
LEMMA TopSet ==
    ASSUME MessageInv, NEW n \in Nat, n <= top, NEW state \in States,
           stack' = InState(Popped(stack, n), top - n, state), top' = top - n,
           newPart' \in BOOLEAN, why' = why,
           top - n >= 1 => Multipart(stack[top - n]) \/ (~newPart' /\ state = "body"),
           ~newPart' /\ top - n = 0 => state = "epilogue",
           stack[top - n].type = "multi" => stack[top - n].bound # None
    PROVE  StackInv' /\ stack' \in StackType /\ top' \in Indices
<1>1. top \in Indices /\ top - n \in Indices /\ stack \in StackType /\ 0 \in Indices
  BY DEF MessageInv, TypeOK, StackType, Indices
<1>2. /\ Popped(stack, n) \in StackType
      /\ \A j \in Indices : j <= top - n => Popped(stack, n)[j] = stack[j]
  BY <1>1, PoppedShape
<1>3. /\ stack' \in StackType
      /\ \A j \in Indices : j < top - n => stack'[j] = stack[j]
      /\ stack'[top'].type = stack[top'].type /\ stack'[top'].bound = stack[top'].bound
      /\ stack'[top'].state = state
  <2>1. /\ stack' \in StackType
        /\ \A j \in Indices : j # top - n => stack'[j] = Popped(stack, n)[j]
        /\ stack'[top'].type = Popped(stack, n)[top - n].type
        /\ stack'[top'].bound = Popped(stack, n)[top - n].bound
        /\ stack'[top'].state = state
    BY <1>1, <1>2, StateSet
  <2>2. top - n \in Nat /\ \A j \in Indices : j < top - n => j <= top - n /\ j # top - n
    BY <1>1 DEF Indices
  <2> QED
    BY <1>1, <1>2, <2>1, <2>2
<1>4. PartsNest'
  <2>1. PartsNest
    BY DEF MessageInv, StackInv
  <2>2. \A i \in 1..(top' - 1) : i \in Indices /\ i < top - n /\ i \in 1..(top - 1)
    BY <1>1 DEF Indices
  <2>3. stack'[0].bound = None /\ stack'[0].type = "none"
    <3>1. CASE top - n = 0
      BY <1>3, <2>1, <3>1 DEF PartsNest
    <3>2. CASE top - n # 0
      BY <1>1, <1>3, <2>1, <3>2 DEF PartsNest, Indices
    <3> QED
      BY <3>1, <3>2
  <2> QED
    BY <1>3, <2>1, <2>2, <2>3 DEF PartsNest
<1>5. /\ newPart' /\ top' >= 1 => Multipart(stack[top'])
      /\ top' >= 1 /\ ~newPart' /\ state # "body" => Multipart(stack[top'])
  OBVIOUS
<1>6. Multipart(stack[top']) => Multipart(stack'[top'])
  BY <1>3 DEF Multipart
<1> QED
  BY <1>1, <1>3, <1>4, <1>5, <1>6 DEF StackInv

\* Below the top there are only multiparts.
LEMMA BelowTop ==
    ASSUME MessageInv, NEW n \in Nat, n <= top
    PROVE  /\ n >= 1 /\ top - n >= 1 => Multipart(stack[top - n])
           /\ stack[top - n].type = "multi" => stack[top - n].bound # None
<1>1. top \in Nat /\ PartsNest
  BY DEF MessageInv, TypeOK, StackInv, Indices
<1>2. \A i \in 1..(top - 1) : Multipart(stack[i])
  BY <1>1 DEF PartsNest, Multipart
<1>3. stack[top].type = "multi" => stack[top].bound # None
  BY DEF MessageInv, StackInv
<1>4. CASE n = 0
  BY <1>1, <1>3, <1>4
<1>5. CASE n >= 1 /\ top - n >= 1
  BY <1>1, <1>2, <1>5 DEF Multipart
<1>6. CASE n >= 1 /\ top - n = 0
  BY <1>1, <1>6 DEF PartsNest
<1> QED
  BY <1>1, <1>4, <1>5, <1>6

LEMMA NextPartKeeps ==
    ASSUME MessageInv, phase = "loop", UNCHANGED sender, NEW k \in Nat, NEW n \in Nat,
           NextPart(k, n), n <= top, top - n >= 1 => Multipart(stack[top - n])
    PROVE  MessageInv'
<1>1. /\ stack' = InState(Popped(stack, n), top - n, "fields") /\ top' = top - n
      /\ newPart' = TRUE /\ last' = "EOT" /\ cur' = k /\ kept' = FALSE /\ phase' = "loop"
      /\ UNCHANGED <<open, why, message, buf>>
  BY DEF NextPart, Advance, MessageInv, TypeOK, Indices
<1>2. "fields" \in States
  BY DEF States
<1>3. StackInv' /\ stack' \in StackType /\ top' \in Indices
  BY <1>1, <1>2, BelowTop, TopSet
<1> QED
  BY <1>1, <1>3, TurnKeeps

LEMMA ClosedKeeps ==
    ASSUME MessageInv, phase = "loop", ~newPart, UNCHANGED sender, NEW k \in Nat,
           NEW n \in Nat \ {0}, n <= top, Closed(k, n)
    PROVE  MessageInv'
<1>1. /\ stack' = InState(Popped(stack, n), top - n, "epilogue") /\ top' = top - n
      /\ newPart' = FALSE /\ last' = "EOB" /\ kept' = FALSE /\ phase' = "loop"
      /\ UNCHANGED <<open, why, message, buf>>
      /\ cur' \in {k, Len(buf) + 1}
  BY DEF Closed, Advance, MessageInv, TypeOK, Indices
<1>2. cur' \in Nat
  BY <1>1, LenProperties DEF MessageInv, TypeOK
<1>3. "epilogue" \in States /\ n \in Nat /\ n >= 1
  BY DEF States
<1>6. newPart' \in BOOLEAN
  BY <1>1, Zenon
<1>4. /\ top - n >= 1 => Multipart(stack[top - n])
      /\ stack[top - n].type = "multi" => stack[top - n].bound # None
  BY <1>3, BelowTop
<1>5. StackInv' /\ stack' \in StackType /\ top' \in Indices
  BY <1>1, <1>3, <1>4, <1>6, TopSet
<1> QED
  BY <1>1, <1>2, <1>3, <1>5, <1>6, TurnKeeps

\* The end of the header of a part, of a multipart or of a message in a message.
LEMMA EndOfHeaderKeeps ==
    ASSUME MessageInv, phase = "loop", ~newPart, stack[top].state = "fields",
           UNCHANGED sender, NEW k \in Nat, EndOfHeader(k)
    PROVE  MessageInv'
<1>1. top \in Nat /\ top >= 1 /\ top \in Indices /\ stack \in StackType
  BY DEF MessageInv, TypeOK, StackInv, StackType, Indices
<1> DEFINE t == stack[top].type
           n == PoppedAfterHeader(t)
           state == IF t = "multi" THEN "preamble" ELSE "body"
<1>2. n \in {0, 1} /\ n <= top /\ (n = 1 <=> t = "rfc822") /\ n \in Nat
  BY <1>1 DEF PoppedAfterHeader
<1>3. CASE t = "none" /\ top # 1
  BY <1>3, FailKeeps DEF EndOfHeader, Reasons
<1>4. CASE ~(t = "none" /\ top # 1)
  <2>1. /\ stack' = IF t = "rfc822" THEN Popped(stack, n) ELSE InState(stack, top, state)
        /\ top' = top - n /\ newPart' = (t = "rfc822")
        /\ cur' = k /\ kept' = FALSE /\ phase' = "loop"
        /\ UNCHANGED <<open, why, message, buf, last>>
    BY <1>1, <1>2, <1>4 DEF EndOfHeader, Advance
  <2>2. CASE t = "rfc822"
    <3>1. top - 1 \in Indices /\ top' = top - 1 /\ n = 1
      BY <1>1, <1>2, <2>1, <2>2 DEF Indices
    <3>2. /\ stack' \in StackType
          /\ \A j \in Indices : j <= top - 1 => stack'[j] = stack[j]
      BY <1>1, <2>1, <2>2, <3>1, PoppedShape
    <3>3. PartsNest'
      BY <1>1, <2>1, <3>1, <3>2 DEF MessageInv, StackInv, PartsNest, Indices
    <3>4. /\ top - 1 >= 1 => Multipart(stack[top - 1])
          /\ stack[top - 1].type = "multi" => stack[top - 1].bound # None
      BY <1>1, BelowTop
    <3>5. stack'[top'] = stack[top - 1]
      BY <1>1, <3>1, <3>2 DEF Indices
    <3>7. newPart' /\ newPart' \in BOOLEAN
      BY <2>1, <2>2, Zenon
    <3>6. StackInv'
      BY <3>1, <3>3, <3>4, <3>5, <3>7 DEF StackInv, Multipart
    <3> QED
      BY <2>1, <2>2, <3>1, <3>2, <3>6, <3>7, TurnKeeps
  <2>3. CASE t # "rfc822"
    <3>1. n = 0 /\ top' = top /\ ~newPart' /\ newPart' \in BOOLEAN /\ state \in States
      <4>1. n = 0
        BY <1>2, <2>3
      <4>2. top' = top
        BY <1>1, <2>1, <4>1
      <4>3. ~newPart' /\ newPart' \in BOOLEAN
        BY <2>1, <2>3, Zenon
      <4>4. state \in States
        BY DEF States
      <4> QED
        BY <4>1, <4>2, <4>3, <4>4
    <3>2. stack' = InState(stack, top, state)
      BY <2>1, <2>3
    <3>3. /\ stack' \in StackType /\ \A j \in Indices : j # top => stack'[j] = stack[j]
          /\ stack'[top].type = t /\ stack'[top].bound = stack[top].bound
          /\ stack'[top].state = state
      BY <1>1, <3>1, <3>2, StateSet
    <3>4. PartsNest'
      BY <1>1, <2>1, <3>1, <3>3 DEF MessageInv, StackInv, PartsNest, Indices
    <3>5. t = "multi" => stack[top].bound # None
      BY DEF MessageInv, StackInv
    <3>6. StackInv'
      BY <1>1, <3>1, <3>3, <3>4, <3>5 DEF StackInv, Multipart
    <3> QED
      BY <1>1, <2>1, <3>1, <3>3, <3>6, TurnKeeps
  <2> QED
    BY <2>2, <2>3
<1> QED
  BY <1>3, <1>4

LEMMA FieldKeeps ==
    ASSUME MessageInv, phase = "loop", ~newPart, stack[top].state = "fields",
           UNCHANGED sender, NEW l \in Lines, Bounded(l),
           stack' = [stack EXCEPT ![top] = TypeOfField(@, l)],
           Advance(cur + 1, "loop"), UNCHANGED <<top, newPart, last>>
    PROVE  MessageInv'
<1>1. top \in Nat /\ top >= 1 /\ top \in Indices /\ stack \in StackType /\ cur \in Nat
  BY DEF MessageInv, TypeOK, StackInv, StackType, Indices
<1> DEFINE p == TypeOfField(stack[top], l)
<1>2. /\ p \in [state : States, type : Types, bound : Boundaries \cup {None}]
      /\ p.state = "fields"
      /\ p.type = "multi" => p.bound # None
  <2>1. stack[top] \in [state : States, type : Types, bound : Boundaries \cup {None}]
    BY <1>1 DEF StackType
  <2>2. stack[top].type = "multi" => stack[top].bound # None
    BY DEF MessageInv, StackInv
  <2>3. CASE l.kind = "multi"
    BY <2>1, <2>3 DEF TypeOfField, Bounded, Types
  <2>4. CASE l.kind \in {"single", "rfc822"}
    BY <2>1, <2>4 DEF TypeOfField, Types
  <2>5. CASE l.kind \notin {"multi", "single", "rfc822"}
    BY <2>1, <2>2, <2>5 DEF TypeOfField
  <2> QED
    BY <2>3, <2>4, <2>5
<1>3. /\ stack' \in StackType /\ stack'[top] = p
      /\ \A j \in Indices : j # top => stack'[j] = stack[j]
  BY <1>1, <1>2 DEF StackType
<1>4. PartsNest'
  BY <1>1, <1>3 DEF MessageInv, StackInv, PartsNest, Indices, Advance
<1>5. StackInv'
  BY <1>1, <1>2, <1>3, <1>4 DEF StackInv
<1>6. /\ UNCHANGED <<open, why, message, buf, last, top, newPart>>
      /\ cur' = cur + 1 /\ kept' = FALSE /\ phase' = "loop"
  BY DEF Advance
<1>7. newPart' \in BOOLEAN /\ top' \in Indices /\ cur' \in Nat
  <2>1. newPart \in BOOLEAN
    BY DEF MessageInv, TypeOK
  <2>2. newPart' \in BOOLEAN
    BY <1>6, <2>1, Zenon
  <2> QED
    BY <1>1, <1>6, <2>2
<1> QED
  BY <1>1, <1>3, <1>5, <1>6, <1>7, TurnKeeps

\* The end of the message that the tracker sees is one the client has sent.
LEMMA EndKeeps ==
    ASSUME MessageInv, phase = "loop", EndOfMessage(Rest), UNCHANGED <<sender, open, why, buf>>,
           last' = "EOM", newPart', newPart' \in BOOLEAN, top' = 0, cur' = Len(buf),
           phase' = "succ", kept' \in BOOLEAN, message' \in {message, FALSE},
           stack' \in StackType, stack'[0] = stack[0]
    PROVE  MessageInv'
<1>1. TypeOK'
  <2>1. Len(buf) \in Nat /\ 0 \in Indices
    BY LenProperties DEF MessageInv, TypeOK, Indices
  <2>2. message' \in BOOLEAN
    BY Zenon DEF MessageInv, TypeOK
  <2> QED
    BY <2>1, <2>2 DEF MessageInv, TypeOK, sender, StackType, Phases
<1>2. StackInv'
  <2>1. PartsNest'
    BY DEF MessageInv, StackInv, PartsNest
  <2> QED
    BY <2>1 DEF StackInv, PartsNest
<1>3. LinesInv'
  BY DEF MessageInv, LinesInv, sender, Bounded
<1>4. \E i \in 1..Len(buf) : buf[i] = Line("dot", None)
  <2>1. Len(Rest) \in Nat /\ Len(Rest) >= 2 /\ Rest[Len(Rest)] = Line("dot", None)
    BY RestOfBuffer, LenProperties DEF MessageInv, EndOfMessage, Last
  <2>2. cur + Len(Rest) \in 1..Len(buf) /\ Rest[Len(Rest)] = buf[cur + Len(Rest)]
    BY <2>1, RestOfBuffer DEF MessageInv
  <2> QED
    BY <2>1, <2>2
<1>5. open /\ (orderly => at = "done")
  BY <1>4, InLoop DEF MessageInv, EndInv
<1>6. EndInv'
  BY <1>5 DEF MessageInv, EndInv, sender, Over
<1> QED
  BY <1>1, <1>2, <1>3, <1>6 DEF MessageInv

LEMMA FieldsParseKeeps ==
    ASSUME MessageInv, phase = "loop", ~newPart, stack[top].state = "fields",
           UNCHANGED sender, FieldsParse
    PROVE  MessageInv'
<1>1. cur \in Nat
  BY DEF MessageInv, TypeOK
<1>2. CASE Rest = <<>>
  BY <1>1, <1>2, ContinueKeeps DEF FieldsParse
<1>3. CASE Rest # <<>>
  <2> DEFINE l == Head(Rest)
  <2>1. l \in Lines /\ Bounded(l)
    <3>1. Rest \in Seq(Lines) /\ Len(Rest) >= 1 /\ Len(Rest) \in Nat
      BY <1>3, RestOfBuffer, EmptySeq DEF MessageInv
    <3>2. l = Rest[1] /\ l \in Lines
      BY <1>3, <3>1, HeadTailProperties
    <3>3. cur + 1 \in 1..Len(buf) /\ Rest[1] = buf[cur + 1]
      BY <3>1, RestOfBuffer DEF MessageInv
    <3> QED
      BY <3>2, <3>3 DEF MessageInv, LinesInv
  <2>2. CASE Continue(cur)
    BY <1>1, <2>2, ContinueKeeps
  <2>3. CASE EndOfHeader(cur + 1)
    BY <1>1, <2>3, EndOfHeaderKeeps
  <2>4. CASE /\ stack' = [stack EXCEPT ![top] = TypeOfField(@, l)]
             /\ Advance(cur + 1, "loop") /\ UNCHANGED <<top, newPart, last>>
    BY <2>1, <2>4, FieldKeeps
  <2>5. CASE Fail("parse")
    BY <2>5, FailKeeps DEF Reasons
  <2> QED
    BY <1>3, <2>2, <2>3, <2>4, <2>5 DEF FieldsParse
<1> QED
  BY <1>2, <1>3

LEMMA BodyParseKeeps ==
    ASSUME MessageInv, phase = "loop", ~newPart, stack[top].state = "body",
           UNCHANGED sender, BodyParse
    PROVE  MessageInv'
<1>1. top \in Nat /\ top >= 1 /\ top \in Indices /\ stack \in StackType /\ cur \in Nat
  BY DEF MessageInv, TypeOK, StackInv, StackType, Indices
<1> DEFINE bound == stack[top - 1].bound
<1>2. CASE OnlyPart /\ EndOfMessage(Rest)
  <2>1. /\ top = 1 /\ last' = "EOM" /\ newPart' = TRUE /\ stack' = Popped(stack, 1)
        /\ top' = 0 /\ cur' = Len(buf) /\ phase' = "succ" /\ kept' = FALSE
        /\ UNCHANGED <<open, why, message, buf>>
    BY <1>2 DEF BodyParse, OnlyPart, Advance
  <2>2. stack' \in StackType /\ stack'[0] = stack[0]
    BY <1>1, <2>1, PoppedShape DEF Indices
  <2> QED
    BY <1>2, <2>1, <2>2, EndKeeps
<1>3. CASE OnlyPart /\ ~EndOfMessage(Rest)
  BY <1>3, HeldFits, ContinueKeeps DEF BodyParse, MessageInv
<1>4. CASE ~OnlyPart /\ bound = None
  BY <1>4, FailKeeps DEF BodyParse, Reasons
<1>5. CASE ~OnlyPart /\ bound # None /\ Found(bound) = {}
  BY <1>5, SearchKeeps DEF BodyParse
<1>6. CASE ~OnlyPart /\ bound # None /\ Found(bound) # {}
  <2>1. PICK k \in Found(bound) : IF buf[k].kind = "delim" THEN NextPart(k, 1)
                                  ELSE Closed(k, PoppedWithLastPart)
    BY <1>6 DEF BodyParse
  <2>2. k \in Nat
    BY <1>1, LenProperties DEF Found, Marks, MessageInv, TypeOK
  <2>3. top >= 2
    BY <1>1, <1>6 DEF OnlyPart
  <2>4. CASE NextPart(k, 1)
    BY <1>1, <2>2, <2>4, BelowTop, NextPartKeeps
  <2>5. CASE Closed(k, PoppedWithLastPart)
    BY <1>1, <2>2, <2>3, <2>5, ClosedKeeps DEF PoppedWithLastPart
  <2> QED
    BY <2>1, <2>4, <2>5
<1> QED
  BY <1>2, <1>3, <1>4, <1>5, <1>6

LEMMA PreambleParseKeeps ==
    ASSUME MessageInv, phase = "loop", ~newPart, stack[top].state = "preamble",
           UNCHANGED sender, PreambleParse
    PROVE  MessageInv'
<1>1. top \in Nat /\ top >= 1 /\ Multipart(stack[top])
  BY DEF MessageInv, TypeOK, StackInv, Indices
<1> DEFINE bound == stack[top].bound
<1>2. bound # None
  BY <1>1 DEF Multipart
<1>3. CASE Found(bound) = {}
  BY <1>2, <1>3, SearchKeeps DEF PreambleParse
<1>4. CASE Found(bound) # {}
  <2>1. PICK k \in Found(bound) :
          IF buf[k].kind = "delim" THEN NextPart(k, 0) ELSE Fail("parse")
    BY <1>2, <1>4 DEF PreambleParse
  <2>2. k \in Nat
    BY LenProperties DEF Found, Marks, MessageInv, TypeOK
  <2>3. CASE NextPart(k, 0)
    BY <1>1, <2>2, <2>3, NextPartKeeps
  <2>4. CASE Fail("parse")
    BY <2>4, FailKeeps DEF Reasons
  <2> QED
    BY <2>1, <2>3, <2>4
<1> QED
  BY <1>3, <1>4

LEMMA EpilogueParseKeeps ==
    ASSUME MessageInv, phase = "loop", ~newPart, stack[top].state = "epilogue",
           UNCHANGED sender, EpilogueParse
    PROVE  MessageInv'
<1>1. top \in Nat /\ top \in Indices /\ stack \in StackType
  BY DEF MessageInv, TypeOK, StackType, Indices
<1> DEFINE bound == stack[top].bound
<1>2. CASE top = 0 /\ EndOfMessage(Rest)
  <2>1. /\ last' = "EOM" /\ newPart' = TRUE /\ message' = FALSE
        /\ cur' = Len(buf) /\ phase' = "succ"
        /\ UNCHANGED <<open, why, stack, top, buf, kept>>
    BY <1>2 DEF EpilogueParse
  <2>2. kept' \in BOOLEAN /\ stack' \in StackType
    BY <1>1, <2>1 DEF MessageInv, TypeOK
  <2> QED
    BY <1>2, <2>1, <2>2, EndKeeps
<1>3. CASE top = 0 /\ ~EndOfMessage(Rest)
  BY <1>3, HeldFits, ContinueKeeps DEF EpilogueParse, MessageInv
<1>4. CASE top # 0
  <2>1. top >= 1 /\ Multipart(stack[top]) /\ bound # None
    BY <1>1, <1>4 DEF MessageInv, StackInv, Multipart
  <2>2. CASE Found(bound) = {}
    BY <1>4, <2>1, <2>2, SearchKeeps DEF EpilogueParse
  <2>3. CASE Found(bound) # {}
    <3>1. PICK k \in Found(bound) :
            IF buf[k].kind = "delim" THEN NextPart(k, 0) ELSE Closed(k, 1)
      BY <1>4, <2>1, <2>3 DEF EpilogueParse
    <3>2. k \in Nat
      BY LenProperties DEF Found, Marks, MessageInv, TypeOK
    <3>3. CASE NextPart(k, 0)
      BY <1>1, <2>1, <3>2, <3>3, NextPartKeeps
    <3>4. CASE Closed(k, 1)
      BY <1>1, <2>1, <3>2, <3>4, ClosedKeeps
    <3> QED
      BY <3>1, <3>3, <3>4
  <2> QED
    BY <2>2, <2>3
<1> QED
  BY <1>2, <1>3, <1>4

-----------------------------------------------------------------------------
(***************************************************************************)
(* What the client sends.                                                  *)
(***************************************************************************)
LEMMA LineSent ==
    ASSUME MessageInv, NEW l \in AnyLine \cup LegalLines
    PROVE  l \in Lines /\ Bounded(l) /\ l.form = "whole"
<1> DEFINE Sent(x) == x \in Lines /\ Bounded(x) /\ x.form = "whole"
<1>1. \A kind \in Kinds \ {"multi"} : \A id \in Boundaries \cup {None} : Sent(Line(kind, id))
  BY DEF Line, Lines, Forms, Bounded
<1>2. \A b \in Boundaries : Sent(Line("multi", b))
  BY DEF Line, Lines, Forms, Bounded, Kinds
<1>3. {"single", "rfc822", "field", "blank", "text", "delim", "close", "dot"} \subseteq Kinds \ {"multi"}
  BY DEF Kinds
<1> HIDE DEF Sent
<1>5. nested # <<>> => Inner \in Boundaries
  <2>1. nested \in Seq(Boundaries)
    BY DEF MessageInv, TypeOK
  <2> QED
    BY <2>1, EmptySeq, ElementOfSeq DEF Inner
<1>6. ASSUME l \in AnyLine PROVE Sent(l)
  <2>1. CASE \E k \in {"single", "rfc822", "field", "blank", "text", "dot"} : l = Line(k, None)
    BY <1>1, <1>3, <2>1
  <2>2. CASE \E k \in {"delim", "close"}, b \in Boundaries : l = Line(k, b)
    BY <1>1, <1>3, <2>2
  <2>3. CASE \E b \in Boundaries : l = Line("multi", b)
    BY <1>2, <2>3
  <2> QED
    BY <1>6, <2>1, <2>2, <2>3 DEF AnyLine
<1>7. ASSUME l \in LegalLines PROVE Sent(l)
  <2>1. CASE l \in {Line(k, None) : k \in {"field", "blank", "single", "rfc822", "text", "dot"}}
    BY <1>1, <1>3, <2>1
  <2>2. CASE \E b \in Boundaries : l = Line("multi", b)
    BY <1>2, <2>2
  <2>3. CASE nested # <<>> /\ l \in {Line("delim", Inner), Line("close", Inner)}
    BY <1>1, <1>3, <1>5, <2>3
  <2>4. at = "preamble" => nested # <<>>
    BY DEF MessageInv, LinesInv
  <2>5. l \in HeaderLines => \/ l \in {Line(k, None) : k \in {"field", "blank", "single", "rfc822", "text", "dot"}}
                            \/ \E b \in Boundaries : l = Line("multi", b)
    BY DEF HeaderLines
  <2>6. CASE at = "header"
    BY <1>7, <2>1, <2>2, <2>5, <2>6 DEF LegalLines
  <2>7. CASE at = "preamble"
    BY <1>7, <2>1, <2>3, <2>4, <2>7 DEF LegalLines
  <2>8. CASE at \in {"body", "epilogue"}
    BY <1>7, <2>1, <2>3, <2>8 DEF LegalLines, Delimiters
  <2> QED
    BY <1>7, <2>6, <2>7, <2>8 DEF LegalLines
<1> QED
  BY <1>6, <1>7 DEF Sent

LEMMA Moves ==
    ASSUME MessageInv, NEW l \in Lines, Bounded(l), SenderMoves(l)
    PROVE  /\ at' \in Pieces /\ type' \in {"none", "single", "rfc822"} \cup Boundaries
           /\ nested' \in Seq(Boundaries) /\ text' \in BOOLEAN
           /\ at' = "preamble" => nested' # <<>>
           /\ l \in LegalLines /\ l.kind = "dot" => at' = "done"
<1>1. /\ nested \in Seq(Boundaries) /\ at \in Pieces
      /\ type \in {"none", "single", "rfc822"} \cup Boundaries
      /\ at = "preamble" => nested # <<>>
  BY DEF MessageInv, TypeOK, LinesInv
<1>2. \A b \in Boundaries : Append(nested, b) \in Seq(Boundaries) /\ Append(nested, b) # <<>>
  BY <1>1, AppendProperties
<1>3. Front(nested) \in Seq(Boundaries)
  BY <1>1, SubSeqProperties, LenProperties, ElementOfSeq DEF Front
<1>4. <<>> \in Seq(Boundaries)
  BY EmptySeq
<1>5. at' \in Pieces
  BY <1>1 DEF SenderMoves, Pieces
<1>6. type' \in {"none", "single", "rfc822"} \cup Boundaries
  BY <1>1 DEF SenderMoves, Bounded, Lines
<1>7. nested' \in Seq(Boundaries)
  BY <1>1, <1>2, <1>3, <1>4 DEF SenderMoves
<1>8. at' = "preamble" => nested' # <<>>
  <2> SUFFICES ASSUME at' = "preamble" PROVE nested' # <<>>
    OBVIOUS
  <2>1. l \in LegalLines
    BY DEF SenderMoves
  <2>2. CASE l.kind = "blank"
    BY <1>2, <2>1, <2>2 DEF SenderMoves
  <2>3. CASE l.kind # "blank"
    BY <1>1, <2>1, <2>3 DEF SenderMoves
  <2> QED
    BY <2>2, <2>3
<1>9. l \in LegalLines /\ l.kind = "dot" => at' = "done"
  BY DEF SenderMoves
<1>10. text' \in BOOLEAN
  BY DEF SenderMoves
<1> QED
  BY <1>5, <1>6, <1>7, <1>8, <1>9, <1>10

\* The buffer's lines after another has arrived.
LEMMA JoinedShape ==
    ASSUME MessageInv, NEW l \in Lines
    PROVE  /\ Joined(l) \in Seq(Lines)
           /\ \A i \in 1..Len(Joined(l)) :
                \/ \E j \in 1..Len(buf) : Joined(l)[i] = buf[j]
                \/ l.form # "tail" /\ Joined(l)[i] = l
                \/ l.form = "tail" /\ Joined(l)[i] \in {[l EXCEPT !.form = "whole"], Line("text", None)}
<1>1. buf \in Seq(Lines) /\ Len(buf) \in Nat
  BY LenProperties DEF MessageInv, TypeOK
<1>2. ASSUME NEW s \in Seq(Lines), NEW x \in Lines
      PROVE  /\ Append(s, x) \in Seq(Lines) /\ Len(Append(s, x)) = Len(s) + 1
             /\ \A i \in 1..Len(Append(s, x)) :
                  Append(s, x)[i] = x \/ (i \in 1..Len(s) /\ Append(s, x)[i] = s[i])
  BY AppendProperties, LenProperties
<1>3. CASE l.form # "tail"
  <2>1. Joined(l) = Append(buf, l)
    BY <1>3 DEF Joined
  <2> QED
    BY <1>1, <1>2, <1>3, <2>1
<1>4. CASE l.form = "tail" /\ buf # <<>> /\ ~IsWhole(Last(buf))
  <2> DEFINE x == [l EXCEPT !.form = "whole"]
  <2>1. x \in Lines
    BY DEF Lines, Forms
  <2>2. Joined(l) = Append(Front(buf), x)
    BY <1>4 DEF Joined
  <2>3. /\ Front(buf) \in Seq(Lines)
        /\ \A i \in 1..Len(Front(buf)) : i \in 1..Len(buf) /\ Front(buf)[i] = buf[i]
    <3>1. \A i \in 1..(Len(buf) - 1) : buf[i] \in Lines
      BY <1>1, ElementOfSeq
    <3>2. /\ SubSeq(buf, 1, Len(buf) - 1) \in Seq(Lines)
          /\ Len(SubSeq(buf, 1, Len(buf) - 1)) = IF 1 <= Len(buf) - 1 THEN Len(buf) - 1 - 1 + 1 ELSE 0
          /\ \A i \in 1..(Len(buf) - 1 - 1 + 1) : SubSeq(buf, 1, Len(buf) - 1)[i] = buf[1 + i - 1]
      BY <1>1, <3>1, SubSeqProperties
    <3> QED
      BY <1>1, <3>2 DEF Front
  <2>4. \A i \in 1..Len(Joined(l)) : Joined(l)[i] = x \/ \E j \in 1..Len(buf) : Joined(l)[i] = buf[j]
    BY <1>2, <2>1, <2>2, <2>3
  <2>5. Joined(l) \in Seq(Lines)
    BY <1>2, <2>1, <2>2, <2>3
  <2> QED
    BY <1>4, <2>4, <2>5
<1>5. CASE l.form = "tail" /\ ~(buf # <<>> /\ ~IsWhole(Last(buf)))
  <2>1. Line("text", None) \in Lines
    BY DEF Line, Lines, Kinds, Forms
  <2>2. Joined(l) = Append(buf, Line("text", None))
    BY <1>5 DEF Joined
  <2> QED
    BY <1>1, <1>2, <1>5, <2>1, <2>2
<1> QED
  BY <1>3, <1>4, <1>5

\* A line, or a part of one, arrives; if it ends an orderly message, the client
\* is done with that message.
LEMMA ArrivesKeeps ==
    ASSUME MessageInv, open, message, phase \in {"idle", "filling"}, orderly => at # "done",
           NEW l \in Lines, Arrives(l), Bounded(l),
           at' \in Pieces, type' \in {"none", "single", "rfc822"} \cup Boundaries,
           nested' \in Seq(Boundaries), text' \in BOOLEAN, orderly' \in BOOLEAN,
           at' = "preamble" => nested' # <<>>,
           owed' \in Seq(Lines), Len(owed') <= 1, \A i \in 1..Len(owed') : Bounded(owed'[i]),
           orderly' => orderly,
           orderly' /\ l.kind = "dot" /\ l.form \in {"whole", "tail"} => at' = "done",
           at' = "done" => owed' = <<>>
    PROVE  MessageInv'
<1>1. /\ buf' = Joined(l) /\ phase' = "filling"
      /\ UNCHANGED <<open, why, message, last, stack, top, newPart, cur, kept>>
  BY DEF Arrives, session, parts
<1>2. TypeOK'
  BY <1>1, JoinedShape DEF MessageInv, TypeOK, Phases
<1>3. StackInv'
  BY <1>1 DEF MessageInv, StackInv, PartsNest, Multipart
<1>4. LinesInv'
  <2>1. /\ Line("text", None).kind # "multi"
        /\ [l EXCEPT !.form = "whole"].kind = l.kind /\ [l EXCEPT !.form = "whole"].id = l.id
    BY DEF Line, Lines
  <2>2. \A i \in 1..Len(Joined(l)) : Bounded(Joined(l)[i])
    BY <2>1, JoinedShape DEF MessageInv, LinesInv, Bounded
  <2> QED
    BY <1>1, <2>2 DEF LinesInv, Bounded
<1>5. EndInv'
  <2>1. orderly => ~Over /\ \A i \in 1..Len(buf) : buf[i] # Line("dot", None)
    BY DEF MessageInv, EndInv, Over
  <2>2. /\ Line("text", None).kind = "text" /\ Line("dot", None).kind = "dot"
        /\ Line("dot", None).form = "whole" /\ [l EXCEPT !.form = "whole"].kind = l.kind
    BY DEF Line, Lines
  <2>3. ASSUME orderly', NEW i \in 1..Len(buf'), buf'[i] = Line("dot", None)
        PROVE  at' = "done"
    <3>1. \/ l.form # "tail" /\ buf'[i] = l
          \/ l.form = "tail" /\ buf'[i] \in {[l EXCEPT !.form = "whole"], Line("text", None)}
      BY <1>1, <2>1, <2>3, JoinedShape
    <3> QED
      BY <2>2, <2>3, <3>1
  <2> QED
    BY <1>1, <2>1, <2>3 DEF MessageInv, EndInv, Over
<1> QED
  BY <1>2, <1>3, <1>4, <1>5 DEF MessageInv

LEMMA SendLineKeeps == ASSUME MessageInv, SendLine PROVE MessageInv'
<1>1. /\ open /\ message /\ phase \in {"idle", "filling"} /\ at # "done"
      /\ orderly \in BOOLEAN /\ <<>> \in Seq(Lines) /\ Len(<<>>) = 0
  BY EmptySeq DEF SendLine, MessageInv, TypeOK
<1>2. PICK l \in AnyLine \cup LegalLines :
        \/ /\ SenderMoves(l) /\ Arrives(l) /\ owed' = <<>>
           /\ orderly' = (orderly /\ Followed(l))
        \/ \E f \in {"head", "bare"} :
             /\ Arrives([l EXCEPT !.form = f]) /\ owed' = <<l>>
             /\ orderly' = (orderly /\ f = "head")
             /\ UNCHANGED <<at, type, nested, text>>
  BY DEF SendLine
<1>3. l \in Lines /\ Bounded(l)
  BY LineSent
<1>4. CASE /\ SenderMoves(l) /\ Arrives(l) /\ owed' = <<>>
           /\ orderly' = (orderly /\ Followed(l))
  <2>1. /\ at' \in Pieces /\ type' \in {"none", "single", "rfc822"} \cup Boundaries
        /\ nested' \in Seq(Boundaries) /\ text' \in BOOLEAN
        /\ at' = "preamble" => nested' # <<>>
        /\ l \in LegalLines /\ l.kind = "dot" => at' = "done"
    BY <1>3, <1>4, Moves
  <2>2. orderly' \in BOOLEAN /\ (orderly' => orderly /\ l \in LegalLines)
    BY <1>4 DEF Followed
  <2> QED
    BY <1>1, <1>3, <1>4, <2>1, <2>2, ArrivesKeeps
<1>5. ASSUME NEW f \in {"head", "bare"}, Arrives([l EXCEPT !.form = f]), owed' = <<l>>,
             orderly' = (orderly /\ f = "head"), UNCHANGED <<at, type, nested, text>>
      PROVE  MessageInv'
  <2> DEFINE cut == [l EXCEPT !.form = f]
  <2>1. cut \in Lines /\ Bounded(cut) /\ cut.form \notin {"whole", "tail"}
    BY <1>3 DEF Lines, Forms, Bounded
  <2>2. <<l>> \in Seq(Lines) /\ Len(<<l>>) = 1 /\ <<l>>[1] = l
    BY <1>3
  <2>3. /\ at \in Pieces /\ type \in {"none", "single", "rfc822"} \cup Boundaries
        /\ nested \in Seq(Boundaries) /\ text \in BOOLEAN
        /\ at = "preamble" => nested # <<>>
    BY DEF MessageInv, TypeOK, LinesInv
  <2>4. orderly' \in BOOLEAN /\ (orderly' => orderly)
    BY <1>5
  <2>5. Arrives(cut)
    BY <1>5
  <2> HIDE DEF cut
  <2> QED
    BY <1>1, <1>3, <1>5, <2>1, <2>2, <2>3, <2>4, <2>5, ArrivesKeeps
<1> QED
  BY <1>2, <1>4, <1>5

LEMMA SendRestKeeps == ASSUME MessageInv, SendRest PROVE MessageInv'
<1> DEFINE l == owed[1]
           rest == [l EXCEPT !.form = "tail"]
<1>1. /\ open /\ message /\ phase = "idle" /\ owed # <<>>
      /\ SenderMoves(l) /\ owed' = <<>> /\ Arrives(rest)
      /\ orderly' = (orderly /\ Followed(l)) /\ <<>> \in Seq(Lines) /\ Len(<<>>) = 0
  BY EmptySeq DEF SendRest
<1>2. l \in Lines /\ Bounded(l)
  BY <1>1, EmptySeq, ElementOfSeq DEF MessageInv, TypeOK, LinesInv
<1>3. rest \in Lines /\ Bounded(rest) /\ rest.form = "tail" /\ rest.kind = l.kind
  BY <1>2 DEF Lines, Forms, Bounded
<1>4. /\ at' \in Pieces /\ type' \in {"none", "single", "rfc822"} \cup Boundaries
      /\ nested' \in Seq(Boundaries) /\ text' \in BOOLEAN
      /\ at' = "preamble" => nested' # <<>>
      /\ l \in LegalLines /\ l.kind = "dot" => at' = "done"
  BY <1>1, <1>2, Moves
<1>5. orderly' \in BOOLEAN /\ (orderly' => orderly /\ l \in LegalLines)
  <2>1. orderly \in BOOLEAN
    BY DEF MessageInv, TypeOK
  <2> QED
    BY <1>1, <2>1 DEF Followed
<1>6. orderly => at # "done"
  BY <1>1 DEF MessageInv, EndInv
<1> HIDE DEF l, rest
<1> QED
  BY <1>1, <1>3, <1>4, <1>5, <1>6, ArrivesKeeps

-----------------------------------------------------------------------------
(***************************************************************************)
(* The other steps.                                                        *)
(***************************************************************************)
LEMMA TurnStepKeeps == ASSUME MessageInv, Turn PROVE MessageInv'
<1>1. phase = "loop" /\ UNCHANGED sender /\ cur \in Nat /\ newPart \in BOOLEAN
  BY DEF Turn, MessageInv, TypeOK
<1>2. stack[top].state \in States
  BY DEF MessageInv, TypeOK
<1>3. CASE Continue(cur)
  BY <1>1, <1>3, ContinueKeeps
<1>4. CASE newPart /\ Push
  BY <1>1, <1>4, PushKeeps
<1>5. CASE ~newPart /\ stack[top].state = "fields" /\ FieldsParse
  BY <1>1, <1>5, FieldsParseKeeps
<1>6. CASE ~newPart /\ stack[top].state = "body" /\ BodyParse
  BY <1>1, <1>6, BodyParseKeeps
<1>7. CASE ~newPart /\ stack[top].state = "preamble" /\ PreambleParse
  BY <1>1, <1>7, PreambleParseKeeps
<1>8. CASE ~newPart /\ stack[top].state = "epilogue" /\ EpilogueParse
  BY <1>1, <1>8, EpilogueParseKeeps
<1>9. CASE Fail("refused")
  BY <1>1, <1>9, FailKeeps DEF Reasons
<1> QED
  BY <1>1, <1>2, <1>3, <1>4, <1>5, <1>6, <1>7, <1>8, <1>9 DEF Turn, States

LEMMA ReturnKeeps ==
    ASSUME MessageInv, phase \in {"cont", "succ"}, cur <= Len(buf), UNCHANGED sender,
           Return(Rest)
    PROVE  MessageInv'
<1>1. /\ buf' = Rest /\ cur' = 0 /\ phase' = "idle"
      /\ UNCHANGED <<open, why, message, last, stack, top, newPart, kept>>
      /\ UNCHANGED <<at, type, nested, text, owed, orderly>>
  BY DEF Return, session, parts, sender
<1>2. /\ Rest \in Seq(Lines) /\ Len(Rest) \in Nat
      /\ \A i \in 1..Len(Rest) : cur + i \in 1..Len(buf) /\ Rest[i] = buf[cur + i]
  BY RestOfBuffer, LenProperties DEF MessageInv
<1>3. TypeOK'
  BY <1>1, <1>2 DEF MessageInv, TypeOK, Phases
<1>4. StackInv'
  BY <1>1 DEF MessageInv, StackInv, PartsNest, Multipart
<1>5. LinesInv'
  BY <1>1, <1>2 DEF MessageInv, LinesInv, Bounded
<1>6. phase = "succ" => buf' = <<>>
  <2> SUFFICES ASSUME phase = "succ" PROVE Rest = <<>>
    BY <1>1
  <2>1. cur = Len(buf) /\ Len(buf) \in Nat
    BY LenProperties DEF MessageInv, EndInv, TypeOK
  <2>2. Len(Rest) = 0
    BY <2>1, RestOfBuffer DEF MessageInv
  <2> QED
    BY <1>2, <2>2, EmptySeq
<1>7. EndInv'
  BY <1>1, <1>2, <1>6 DEF MessageInv, EndInv, Over
<1> QED
  BY <1>3, <1>4, <1>5, <1>7 DEF MessageInv

LEMMA FinishKeeps == ASSUME MessageInv, Finish PROVE MessageInv'
<1>1. UNCHANGED sender /\ cur \in Nat /\ Len(buf) \in Nat
  BY LenProperties DEF Finish, MessageInv, TypeOK
<1>2. CASE Fail("corrupt")
  BY <1>1, <1>2, FailKeeps DEF Reasons
<1>3. CASE phase \in {"cont", "succ"} /\ Sync
  <2>1. CASE cur > Len(buf)
    BY <1>1, <1>3, <2>1, FailKeeps DEF Sync, Reasons
  <2>2. CASE ~(cur > Len(buf))
    BY <1>1, <1>3, <2>2, ReturnKeeps DEF Sync
  <2> QED
    BY <2>1, <2>2
<1> QED
  BY <1>2, <1>3 DEF Finish

LEMMA SegmentKeeps == ASSUME MessageInv, Segment PROVE MessageInv'
<1>1. /\ phase = "filling" /\ phase' = "loop"
      /\ UNCHANGED <<open, why, message, last, stack, top, newPart, buf, cur, kept>>
      /\ UNCHANGED <<at, type, nested, text, owed, orderly>>
  BY DEF Segment, session, parts, sender
<1> QED
  BY <1>1 DEF MessageInv, TypeOK, Phases, StackInv, PartsNest, Multipart, LinesInv, Bounded,
              EndInv, Over

LEMMA MessageAcceptedKeeps == ASSUME MessageInv, MessageAccepted PROVE MessageInv'
<1>1. /\ open /\ phase = "idle" /\ last = "EOM" /\ message /\ message' = FALSE
      /\ UNCHANGED <<open, why, last, stack, top, newPart, buf, cur, kept, phase>>
      /\ UNCHANGED <<at, type, nested, text, owed, orderly>>
  BY DEF MessageAccepted, parts, sender
<1> QED
  BY <1>1 DEF MessageInv, TypeOK, Phases, StackInv, PartsNest, Multipart, LinesInv, Bounded,
              EndInv, Over

LEMMA DataGrantedKeeps == ASSUME MessageInv, DataGranted PROVE MessageInv'
<1>1. /\ open /\ phase = "idle" /\ ~message /\ message' = TRUE /\ last' = "DATA"
      /\ at' = "header" /\ type' = "none" /\ nested' = <<>> /\ text' = FALSE
      /\ UNCHANGED <<open, why, stack, top, newPart, buf, cur, kept, phase, owed, orderly>>
  BY DEF DataGranted, parts
<1>2. <<>> \in Seq(Boundaries)
  BY EmptySeq
<1>3. TypeOK'
  BY <1>1, <1>2 DEF MessageInv, TypeOK, Pieces
<1>4. orderly => buf = <<>>
  BY <1>1 DEF MessageInv, EndInv, Over
<1>5. EndInv'
  BY <1>1, <1>4 DEF MessageInv, EndInv, Over
<1> QED
  BY <1>1, <1>3, <1>5 DEF MessageInv, StackInv, PartsNest, Multipart, LinesInv, Bounded

LEMMA InitKeeps == ASSUME Init PROVE MessageInv
<1>1. [i \in Indices |-> ClearPart] \in StackType /\ 0 \in Indices
  BY DEF StackType, ClearPart, States, Types, Indices
<1>2. <<>> \in Seq(Boundaries) /\ <<>> \in Seq(Lines) /\ Len(<<>>) = 0
  BY EmptySeq
<1>3. TypeOK
  BY <1>1, <1>2 DEF Init, TypeOK, StackType, Reasons, Phases, Pieces
<1>4. stack[0] = ClearPart
  BY <1>1 DEF Init
<1>5. StackInv
  BY <1>4 DEF Init, StackInv, PartsNest, Multipart, ClearPart
<1>6. LinesInv /\ EndInv
  BY <1>2 DEF Init, LinesInv, EndInv, Over
<1> QED
  BY <1>3, <1>5, <1>6 DEF MessageInv

LEMMA StepKeeps == ASSUME MessageInv, [Next]_vars PROVE MessageInv'
<1>1. CASE SendLine
  BY <1>1, SendLineKeeps
<1>2. CASE SendRest
  BY <1>2, SendRestKeeps
<1>3. CASE Segment
  BY <1>3, SegmentKeeps
<1>4. CASE Turn
  BY <1>4, TurnStepKeeps
<1>5. CASE Finish
  BY <1>5, FinishKeeps
<1>6. CASE MessageAccepted
  BY <1>6, MessageAcceptedKeeps
<1>7. CASE DataGranted
  BY <1>7, DataGrantedKeeps
<1>8. CASE Teardown
  BY <1>8, FailKeeps DEF Teardown, Reasons
<1>9. CASE UNCHANGED vars
  <2>1. /\ UNCHANGED <<open, why, message, last, stack, top, newPart, buf, cur, kept, phase>>
        /\ UNCHANGED <<at, type, nested, text, owed, orderly>>
    BY <1>9 DEF vars, tracker, session, parts, sender
  <2> QED
    BY <2>1 DEF MessageInv, TypeOK, StackInv, PartsNest, Multipart, LinesInv, Bounded,
                EndInv, Over
<1> QED
  BY <1>1, <1>2, <1>3, <1>4, <1>5, <1>6, <1>7, <1>8, <1>9 DEF Next, Parse

LEMMA MessageInvariant == Spec => []MessageInv
<1>1. Init => MessageInv
  BY InitKeeps
<1>2. MessageInv /\ [Next]_vars => MessageInv'
  BY StepKeeps
<1> QED
  BY <1>1, <1>2, PTL DEF Spec

-----------------------------------------------------------------------------
\* Every value the tracker keeps has its type; part_stack_top is an index of
\* part_stack whatever is sent: push_part_stack and pop_part_stack (message.re)
\* refuse what would leave the stack.
THEOREM MessageTypes == Spec => []TypeOK
<1>1. MessageInv => TypeOK
  BY DEF MessageInv
<1> QED
  BY <1>1, MessageInvariant, PTL

\* Below the top of part_stack there are only multiparts with a boundary and its
\* first entry is no part, so the parsers of body, preamble and epilogue find the
\* boundary where they look for it, and no pop_part_stack finds the stack empty.
THEOREM MessagePartsNest == Spec => []PartsNest
<1>1. MessageInv => PartsNest
  BY DEF MessageInv, StackInv
<1> QED
  BY <1>1, MessageInvariant, PTL

\* When parse_smtp_message sees the end of a message, part_stack is as it was when
\* the first message began, whatever the parts of this one were; and between
\* orderly messages it is so too.
THEOREM MessageBalanced == Spec => []BalancedAtEnd
<1>1. MessageInv => BalancedAtEnd
  BY DEF MessageInv, EndInv, BalancedAtEnd, Over
<1> QED
  BY <1>1, MessageInvariant, PTL

-----------------------------------------------------------------------------
(***************************************************************************)
(* In an orderly dialogue whose segments leave enough of a delimiter to be *)
(* found, the stack of parts of SmtpMessage follows the message the client *)
(* sends: whatever is nested in whatever, and wherever segments end.       *)
(*                                                                         *)
(* The tracker is behind the client by the lines of the buffer it has not  *)
(* read.  So the invariant relates the two by a path: the positions in the *)
(* message before each of these lines and behind the last, of which the    *)
(* first is what the stack says and the last where the client is.          *)
(***************************************************************************)
USE DepthAssumption, BoundariesAssumption

-----------------------------------------------------------------------------
(***************************************************************************)
(* Positions in a message.                                                 *)
(***************************************************************************)
Inside == {"preamble", "body", "epilogue"}

\* Where a client is: the piece of the message, the type its header has
\* declared, the multiparts that are open, whether the line before was text.
\* The stack has room for what is open and declared, and for a message in it.
Positions ==
    {p \in [at : Pieces, type : {"none", "single", "rfc822"} \cup Boundaries,
            nested : Seq(Boundaries), text : BOOLEAN] :
       /\ p.at # "header" => p.type = "none"
       /\ Len(p.nested) + 2 <= MaxDepth
       /\ p.type \in Boundaries => Len(p.nested) + 3 <= MaxDepth}
Client == [at |-> at, type |-> type, nested |-> nested, text |-> text]

\* The line l, which the tracker follows, leads from c to d.
ReadsField(c, l, d) ==
    /\ c.at = "header" /\ d.at = "header" /\ d.nested = c.nested /\ d.text = FALSE
    /\ \/ l.kind = "field" /\ d.type = c.type
       \/ l.kind \in {"single", "rfc822"} /\ c.type = "none" /\ d.type = l.kind
       \/ l.kind = "multi" /\ c.type = "none" /\ l.id \in Boundaries /\ d.type = l.id
ReadsBlank(c, l, d) ==
    /\ l.kind = "blank" /\ c.at = "header" /\ d.type = "none" /\ d.text = FALSE
    /\ c.type = "none" => c.nested = <<>>
    /\ IF c.type \in Boundaries
       THEN d.at = "preamble" /\ d.nested = Append(c.nested, c.type)
       ELSE d.at = (IF c.type = "rfc822" THEN "header" ELSE "body") /\ d.nested = c.nested
ReadsText(c, l, d) ==
    /\ l.kind = "text" /\ c.at \in Inside
    /\ d.at = c.at /\ d.type = c.type /\ d.nested = c.nested /\ d.text = TRUE
ReadsMark(c, l, d) ==
    /\ c.at \in Inside /\ c.nested # <<>> /\ l.id = Last(c.nested)
    /\ d.type = "none" /\ d.text = FALSE
    /\ \/ l.kind = "delim" /\ d.at = "header" /\ d.nested = c.nested
       \/ l.kind = "close" /\ c.at # "preamble" /\ d.at = "epilogue" /\ d.nested = Front(c.nested)
ReadsDot(c, l, d) ==
    /\ l = Line("dot", None) /\ c.at \in {"body", "epilogue"} /\ c.nested = <<>> /\ c.text = TRUE
    /\ d.at = "done" /\ d.type = "none" /\ d.nested = c.nested /\ d.text = FALSE
Reads(c, l, d) ==
    \/ l.form = "head" /\ d = c
    \/ /\ l.form = "whole"
       /\ \/ ReadsField(c, l, d) \/ ReadsBlank(c, l, d) \/ ReadsText(c, l, d)
          \/ ReadsMark(c, l, d) \/ ReadsDot(c, l, d)

\* What the stack says of the position p.
Bounds(s, n) == [i \in 1..n |-> s[i].bound]
Where == IF newPart THEN "header"
         ELSE IF stack[top].state = "fields" THEN "header" ELSE stack[top].state
Declared == IF newPart \/ stack[top].state # "fields" THEN "none"
            ELSE IF stack[top].type = "multi" THEN stack[top].bound ELSE stack[top].type
Around == IF newPart \/ stack[top].state \in {"preamble", "epilogue"} THEN top ELSE top - 1
Seen(p) == p.at = Where /\ p.type = Declared /\ p.nested = Bounds(stack, Around)

\* From what the tracker has seen to where the client is.
Path(c) ==
    /\ c \in [cur..Len(buf) -> Positions] /\ Seen(c[cur]) /\ c[Len(buf)] = Client
    /\ \A k \in (cur + 1)..Len(buf) : Reads(c[k - 1], buf[k], c[k])

-----------------------------------------------------------------------------
(***************************************************************************)
(* The invariant.                                                          *)
(***************************************************************************)
\* Only the last line of the buffer may be cut, and then its rest is owed.
CutLast ==
    /\ \A i \in 1..Len(buf) : IsWhole(buf[i]) \/ (i = Len(buf) /\ owed # <<>>)
    /\ owed # <<>> => /\ cur < Len(buf) /\ IsWhole(owed[1])
                      /\ buf[Len(buf)] = [owed[1] EXCEPT !.form = "head"]

\* The line of text in front of the end of a message stays with it.
KeptFrom(k) ==
    /\ k < Len(buf) => buf[k + 1] # Line("dot", None)
    /\ (\A i \in (k + 1)..Len(buf) : ~IsWhole(buf[i])) => text = FALSE
TextKept == KeptFrom(cur)

Follows ==
    orderly /\ open /\ ~Over =>
      /\ cur <= Len(buf) /\ CutLast /\ TextKept
      /\ phase \in {"cont", "idle"} => at # "done"
      /\ \E c : Path(c)
NoneLost == orderly => why \in {"none", "peer", "refused"}
Begins == orderly /\ open /\ phase \in {"idle", "filling"} => cur = 0
Tracks == Follows /\ NoneLost /\ Begins

FollowInv == MessageInv /\ Tracks

-----------------------------------------------------------------------------
(***************************************************************************)
(* The boundaries on the stack.                                            *)
(***************************************************************************)
LEMMA BoundsSeq ==
    ASSUME NEW s \in StackType, NEW n \in Nat, n < MaxDepth,
           \A i \in 1..n : s[i].bound # None
    PROVE  /\ Bounds(s, n) \in Seq(Boundaries) /\ Len(Bounds(s, n)) = n
           /\ \A i \in 1..n : Bounds(s, n)[i] = s[i].bound
<1>1. \A i \in 1..n : s[i].bound \in Boundaries
  BY DEF StackType, Indices
<1>2. Bounds(s, n) \in [1..n -> Boundaries]
  BY <1>1 DEF Bounds
<1>3. Bounds(s, n) \in Seq(Boundaries)
  BY <1>2
<1>4. Len(Bounds(s, n)) = n
  BY <1>2, <1>3, LenProperties
<1> QED
  BY <1>3, <1>4 DEF Bounds

LEMMA BoundsAgree ==
    ASSUME NEW s, NEW t, NEW n \in Nat, \A i \in 1..n : s[i].bound = t[i].bound
    PROVE  Bounds(s, n) = Bounds(t, n)
BY DEF Bounds

LEMMA BoundsNone == ASSUME NEW s PROVE Bounds(s, 0) = <<>>
<1>1. 1..0 = {}
  OBVIOUS
<1>2. Bounds(s, 0) \in [1..0 -> Boundaries]
  BY <1>1 DEF Bounds
<1>3. Bounds(s, 0) \in Seq(Boundaries) /\ Len(Bounds(s, 0)) = 0
  BY <1>2
<1> QED
  BY <1>3, EmptySeq

LEMMA BoundsMore ==
    ASSUME NEW s \in StackType, NEW n \in Nat, n + 1 < MaxDepth,
           \A i \in 1..(n + 1) : s[i].bound # None
    PROVE  /\ Bounds(s, n + 1) = Append(Bounds(s, n), s[n + 1].bound)
           /\ Front(Bounds(s, n + 1)) = Bounds(s, n)
           /\ Last(Bounds(s, n + 1)) = s[n + 1].bound
           /\ Bounds(s, n + 1) # <<>>
<1>1. /\ Bounds(s, n + 1) \in Seq(Boundaries) /\ Len(Bounds(s, n + 1)) = n + 1
      /\ \A i \in 1..(n + 1) : Bounds(s, n + 1)[i] = s[i].bound
  BY DepthAssumption, BoundsSeq
<1>2. /\ Bounds(s, n) \in Seq(Boundaries) /\ Len(Bounds(s, n)) = n
      /\ \A i \in 1..n : Bounds(s, n)[i] = s[i].bound
  BY DepthAssumption, BoundsSeq
<1>3. s[n + 1].bound \in Boundaries
  BY DEF StackType, Indices
<1>4. Bounds(s, n + 1) = Append(Bounds(s, n), s[n + 1].bound)
  <2>1. /\ Append(Bounds(s, n), s[n + 1].bound) \in Seq(Boundaries)
        /\ Len(Append(Bounds(s, n), s[n + 1].bound)) = n + 1
        /\ \A i \in 1..n : Append(Bounds(s, n), s[n + 1].bound)[i] = s[i].bound
        /\ Append(Bounds(s, n), s[n + 1].bound)[n + 1] = s[n + 1].bound
    BY <1>2, <1>3, AppendProperties
  <2>2. \A i \in 1..(n + 1) : Bounds(s, n + 1)[i] = Append(Bounds(s, n), s[n + 1].bound)[i]
    BY <1>1, <2>1
  <2> QED
    BY <1>1, <2>1, <2>2, SeqEqual
<1>5. Front(Bounds(s, n + 1)) = Bounds(s, n)
  <2>1. /\ SubSeq(Bounds(s, n + 1), 1, n) \in Seq(Boundaries)
        /\ Len(SubSeq(Bounds(s, n + 1), 1, n)) = IF 1 <= n THEN n - 1 + 1 ELSE 0
        /\ \A i \in 1..(n - 1 + 1) : SubSeq(Bounds(s, n + 1), 1, n)[i] = Bounds(s, n + 1)[1 + i - 1]
    <3>1. \A i \in 1..n : Bounds(s, n + 1)[i] \in Boundaries
      BY <1>1, ElementOfSeq
    <3> QED
      BY <3>1, SubSeqProperties
  <2>2. Front(Bounds(s, n + 1)) = SubSeq(Bounds(s, n + 1), 1, n)
    BY <1>1 DEF Front
  <2>3. /\ Len(SubSeq(Bounds(s, n + 1), 1, n)) = n
        /\ \A i \in 1..n : SubSeq(Bounds(s, n + 1), 1, n)[i] = Bounds(s, n)[i]
    BY <1>1, <1>2, <2>1
  <2> QED
    BY <1>2, <2>1, <2>2, <2>3, SeqEqual
<1>6. Last(Bounds(s, n + 1)) = s[n + 1].bound
  BY <1>1 DEF Last
<1>7. Bounds(s, n + 1) # <<>>
  BY <1>1, EmptySeq
<1> QED
  BY <1>4, <1>5, <1>6, <1>7

-----------------------------------------------------------------------------
(***************************************************************************)
(* Along a path.                                                           *)
(***************************************************************************)
LEMMA LeastOf ==
    ASSUME NEW S, S \subseteq Nat, S # {}
    PROVE  \E x \in S : \A y \in S : x <= y
<1>1. \A x, y \in Nat : x < y => <<x, y>> \in OpToRel(<, Nat)
  BY DEF OpToRel
<1>2. PICK x \in S : \A y \in S : ~(<<y, x>> \in OpToRel(<, Nat))
  BY NatLessThanWellFounded, WFMin
<1>3. \A y \in S : ~(y < x)
  BY <1>1, <1>2
<1> QED
  BY <1>3

\* The parts that are open and what is being read there, without what was read
\* last.
Same(p, q) == p.at = q.at /\ p.type = q.type /\ p.nested = q.nested
Quiet(l) == l.kind = "text" \/ l.form = "head"

LEMMA Numbers ==
    ASSUME MessageInv
    PROVE  /\ cur \in Nat /\ Len(buf) \in Nat
           /\ \A k \in (cur + 1)..Len(buf) : buf[k] \in Lines /\ k \in 1..Len(buf)
<1>1. buf \in Seq(Lines) /\ cur \in Nat
  BY DEF MessageInv, TypeOK
<1>2. Len(buf) \in Nat
  BY <1>1, LenProperties
<1> QED
  BY <1>1, <1>2, ElementOfSeq

LEMMA QuietStep ==
    ASSUME NEW p, NEW q, NEW l, Reads(p, l, q), Quiet(l)
    PROVE  Same(q, p)
BY DEF Reads, Quiet, Same, ReadsField, ReadsBlank, ReadsText, ReadsMark, ReadsDot, Line

\* Lines of text, and a line that is cut, move nothing.
LEMMA QuietPath ==
    ASSUME MessageInv, NEW c, Path(c), NEW n \in cur..Len(buf),
           \A j \in (cur + 1)..n : Same(c[j - 1], c[cur]) => Quiet(buf[j])
    PROVE  /\ \A m \in cur..n : Same(c[m], c[cur])
           /\ \A j \in (cur + 1)..n : Quiet(buf[j])
<1>1. cur \in Nat /\ Len(buf) \in Nat /\ n \in Nat
  BY Numbers
<1>2. \A m \in cur..n : Same(c[m], c[cur])
  <2> DEFINE S == {m \in cur..n : ~Same(c[m], c[cur])}
  <2> SUFFICES ASSUME S # {} PROVE FALSE
    OBVIOUS
  <2>1. PICK m \in S : \A y \in S : m <= y
    <3>1. S \subseteq Nat
      BY <1>1
    <3> QED
      BY <3>1, LeastOf
  <2>2. m # cur
    BY <2>1 DEF Same
  <2>3. m - 1 \in cur..n /\ m \in (cur + 1)..n /\ m - 1 \notin S
    BY <1>1, <2>1, <2>2
  <2>4. Same(c[m - 1], c[cur])
    BY <2>3
  <2>5. Quiet(buf[m]) /\ Reads(c[m - 1], buf[m], c[m])
    BY <1>1, <2>3, <2>4 DEF Path
  <2>6. Same(c[m], c[m - 1])
    BY <2>5, QuietStep
  <2> QED
    BY <2>1, <2>4, <2>6 DEF Same
<1>3. ASSUME NEW j \in (cur + 1)..n PROVE Quiet(buf[j])
  <2>1. j - 1 \in cur..n
    BY <1>1
  <2> QED
    BY <1>2, <2>1
<1> QED
  BY <1>2, <1>3

\* What the tracker reads up to k leaves it on the path.
LEMMA PathFrom ==
    ASSUME MessageInv, NEW c, Path(c), NEW k \in cur..Len(buf), cur' = k,
           UNCHANGED <<buf, sender>>, Seen(c[k])'
    PROVE  \E d : Path(d)'
<1>1. cur \in Nat /\ Len(buf) \in Nat /\ k \in Nat
  BY Numbers
<1> PICK d : d = [m \in k..Len(buf) |-> c[m]]
  OBVIOUS
<1>2. \A m \in k..Len(buf) : m \in cur..Len(buf) /\ c[m] \in Positions /\ d[m] = c[m]
  BY <1>1 DEF Path
<1>3. d \in [k..Len(buf) -> Positions]
  BY <1>2
<1>4. Client' = Client /\ Len(buf') = Len(buf) /\ buf' = buf
  BY DEF Client, sender
<1>5. d[Len(buf)] = Client
  BY <1>1, <1>2 DEF Path
<1>6. \A m \in (k + 1)..Len(buf) : Reads(d[m - 1], buf[m], d[m])
  <2> TAKE m \in (k + 1)..Len(buf)
  <2>1. m - 1 \in k..Len(buf) /\ m \in k..Len(buf) /\ m \in (cur + 1)..Len(buf)
    BY <1>1
  <2> QED
    BY <1>2, <2>1 DEF Path
<1>7. d[k] = c[k]
  BY <1>1, <1>2
<1>8. Path(d)'
  BY <1>3, <1>4, <1>5, <1>6, <1>7 DEF Path
<1> QED
  BY <1>8

\* A full stop alone comes behind a line of text.
LEMMA DotReads ==
    ASSUME MessageInv, NEW c, Path(c), NEW k \in (cur + 1)..Len(buf),
           buf[k] = Line("dot", None)
    PROVE  ReadsDot(c[k - 1], buf[k], c[k])
<1>1. Reads(c[k - 1], buf[k], c[k])
  BY DEF Path
<1>2. buf[k].kind = "dot" /\ buf[k].form = "whole"
  BY DEF Line
<1> QED
  BY <1>1, <1>2 DEF Reads, ReadsField, ReadsBlank, ReadsText, ReadsMark

\* Behind a line that is not text, nothing need be kept.
LEMMA TextBehind ==
    ASSUME MessageInv, NEW c, Path(c), CutLast, NEW k \in cur..Len(buf), c[k].text = FALSE
    PROVE  KeptFrom(k)
<1>1. cur \in Nat /\ Len(buf) \in Nat /\ k \in Nat
  BY Numbers
<1>2. ASSUME k < Len(buf), buf[k + 1] = Line("dot", None) PROVE FALSE
  <2>1. k + 1 \in (cur + 1)..Len(buf) /\ k + 1 - 1 = k
    BY <1>1, <1>2
  <2>2. ReadsDot(c[k + 1 - 1], buf[k + 1], c[k + 1])
    BY <1>2, <2>1, DotReads
  <2> QED
    BY <2>1, <2>2 DEF ReadsDot
<1>3. ASSUME \A i \in (k + 1)..Len(buf) : ~IsWhole(buf[i]) PROVE text = FALSE
  <2>1. c[Len(buf)] = Client
    BY DEF Path
  <2>2. CASE k = Len(buf)
    BY <2>1, <2>2 DEF Client
  <2>3. CASE k # Len(buf)
    <3>1. k + 1 \in (cur + 1)..Len(buf) /\ k + 1 - 1 = k /\ k + 1 \in 1..Len(buf)
      BY <1>1, <2>3
    <3>2. ~IsWhole(buf[k + 1]) /\ k + 1 = Len(buf)
      BY <1>3, <2>3, <3>1 DEF CutLast
    <3>3. Reads(c[k], buf[k + 1], c[k + 1])
      BY <3>1 DEF Path
    <3>4. c[k + 1] = c[k]
      BY <3>2, <3>3 DEF Reads, IsWhole
    <3> QED
      BY <2>1, <3>2, <3>4 DEF Client
  <2> QED
    BY <2>2, <2>3
<1> QED
  BY <1>2, <1>3 DEF KeptFrom

\* When nothing but text is left, what is held back is enough.
LEMMA HeldBehind ==
    ASSUME MessageInv, CutLast, TextKept, cur < Len(buf),
           \A j \in (cur + 1)..Len(buf) : Quiet(buf[j])
    PROVE  /\ Len(buf) - Held \in cur..Len(buf) /\ Len(buf) - Held < Len(buf)
           /\ KeptFrom(Len(buf) - Held)
<1>1. cur \in Nat /\ Len(buf) \in Nat
  BY Numbers
<1>2. /\ Len(Rest) = Len(buf) - cur /\ Rest \in Seq(Lines)
      /\ \A i \in 1..Len(Rest) : cur + i \in 1..Len(buf) /\ Rest[i] = buf[cur + i]
  BY RestOfBuffer DEF MessageInv
<1>8. Len(Rest) = Len(buf) - cur /\ Len(Rest) \in Nat
  BY <1>1, <1>2, LenProperties
<1>3. Rest # <<>> /\ Last(Rest) = buf[Len(buf)]
  <2>1. Rest # <<>>
    BY <1>1, <1>2, EmptySeq
  <2>2. Len(Rest) \in 1..Len(Rest) /\ cur + Len(Rest) = Len(buf)
    BY <1>1, <1>2
  <2> QED
    BY <1>2, <2>1, <2>2 DEF Last
<1>4. \A j \in (cur + 1)..Len(buf) : buf[j] # Line("dot", None)
  BY DEF Quiet, Line
<1>5. CASE IsWhole(buf[Len(buf)])
  <2>1. Held = 1
    BY <1>3, <1>5 DEF Held
  <2> QED
    BY <1>1, <1>4, <1>5, <2>1 DEF KeptFrom
<1>6. CASE ~IsWhole(buf[Len(buf)]) /\ Len(Rest) = 1
  <2>1. Held = 1 /\ Len(buf) - 1 = cur
    <3>1. Held = 1
      BY <1>3, <1>6 DEF Held
    <3>2. Len(Rest) = 1
      BY <1>6
    <3>3. Len(buf) - cur = 1
      BY <1>8, <3>2, Zenon
    <3>4. Len(buf) - 1 = cur
      BY <1>1, <3>3
    <3> QED
      BY <3>1, <3>4
  <2> QED
    BY <1>1, <1>4, <2>1 DEF TextKept, KeptFrom
<1>7. CASE ~IsWhole(buf[Len(buf)]) /\ Len(Rest) # 1
  <2>1. Held = 2 /\ Len(buf) - 2 >= cur
    BY <1>1, <1>2, <1>3, <1>7 DEF Held
  <2>2. IsWhole(buf[Len(buf) - 1])
    BY <1>1, <2>1 DEF CutLast
  <2> QED
    BY <1>1, <1>4, <2>1, <2>2 DEF KeptFrom
<1> QED
  BY <1>5, <1>6, <1>7

\* The boundary the parsers look for is that of the innermost multipart.  The
\* first line with it is one the client means.
LEMMA FoundReads ==
    ASSUME MessageInv, NEW c, Path(c), CutLast, NEW bound,
           c[cur].at \in Inside, c[cur].nested # <<>>, bound = Last(c[cur].nested),
           NEW k \in Found(bound)
    PROVE  /\ k \in (cur + 1)..Len(buf) /\ IsWhole(buf[k])
           /\ c[k].type = "none" /\ c[k].text = FALSE
           /\ \/ buf[k].kind = "delim" /\ c[k].at = "header" /\ c[k].nested = c[cur].nested
              \/ /\ buf[k].kind = "close" /\ c[cur].at # "preamble"
                 /\ c[k].at = "epilogue" /\ c[k].nested = Front(c[cur].nested)
<1>1. cur \in Nat /\ Len(buf) \in Nat
  BY Numbers
<1>2. /\ k \in (cur + 1)..Len(buf) /\ buf[k].kind \in {"delim", "close"}
      /\ buf[k].form \in {"whole", "bare"}
      /\ \A j \in (cur + 1)..(k - 1) : j \notin Marks(bound)
  BY <1>1 DEF Found, Marks
<1>3. IsWhole(buf[k])
  <2> SUFFICES ASSUME ~IsWhole(buf[k]) PROVE FALSE
    OBVIOUS
  <2>1. k = Len(buf) /\ owed # <<>>
    BY <1>1, <1>2 DEF CutLast
  <2>2. buf[k].form = "head"
    <3>1. owed[1] \in Lines
      BY <2>1, EmptySeq, ElementOfSeq DEF MessageInv, TypeOK
    <3> QED
      BY <2>1, <3>1 DEF CutLast, Lines
  <2> QED
    BY <1>2, <2>2
<1>4. \A j \in (cur + 1)..(k - 1) : Same(c[j - 1], c[cur]) => Quiet(buf[j])
  <2> SUFFICES ASSUME NEW j \in (cur + 1)..(k - 1), Same(c[j - 1], c[cur]), ~Quiet(buf[j])
               PROVE  FALSE
    OBVIOUS
  <2>1. j \in (cur + 1)..Len(buf)
    BY <1>1, <1>2
  <2>2. Reads(c[j - 1], buf[j], c[j])
    BY <2>1 DEF Path
  <2>3. c[j - 1].at \in Inside /\ c[j - 1].nested = c[cur].nested
    BY DEF Same
  <2>4. ReadsMark(c[j - 1], buf[j], c[j]) /\ buf[j].form = "whole"
    BY <2>2, <2>3 DEF Reads, ReadsField, ReadsBlank, ReadsText, ReadsDot, Quiet, Inside
  <2>5. j \in Marks(bound)
    BY <2>1, <2>3, <2>4 DEF Marks, ReadsMark
  <2> QED
    BY <1>2, <2>5
<1>5. k - 1 \in cur..Len(buf)
  BY <1>1, <1>2
<1>6. Same(c[k - 1], c[cur])
  BY <1>1, <1>4, <1>5, QuietPath
<1>7. Reads(c[k - 1], buf[k], c[k])
  BY <1>2 DEF Path
<1>8. ReadsMark(c[k - 1], buf[k], c[k])
  BY <1>2, <1>3, <1>7 DEF Reads, ReadsField, ReadsBlank, ReadsText, ReadsDot, Line, IsWhole
<1> QED
  BY <1>2, <1>3, <1>6, <1>8 DEF ReadsMark, Same

\* When there is none, all that is left is text.
LEMMA NoneFound ==
    ASSUME MessageInv, NEW c, Path(c), NEW bound, cur <= Len(buf),
           c[cur].at \in Inside, c[cur].nested # <<>>, bound = Last(c[cur].nested),
           Found(bound) = {}
    PROVE  /\ \A m \in cur..Len(buf) : Same(c[m], c[cur])
           /\ \A j \in (cur + 1)..Len(buf) : Quiet(buf[j])
<1>1. cur \in Nat /\ Len(buf) \in Nat
  BY Numbers
<1>2. Marks(bound) = {}
  <2> SUFFICES ASSUME Marks(bound) # {} PROVE FALSE
    OBVIOUS
  <2>1. Marks(bound) \subseteq Nat
    BY <1>1 DEF Marks
  <2>2. PICK x \in Marks(bound) : \A y \in Marks(bound) : x <= y
    BY <2>1, LeastOf
  <2> QED
    BY <2>2 DEF Found
<1>3. ASSUME NEW j \in (cur + 1)..Len(buf), Same(c[j - 1], c[cur]) PROVE Quiet(buf[j])
  <2>1. Reads(c[j - 1], buf[j], c[j])
    BY DEF Path
  <2>2. c[j - 1].at \in Inside /\ c[j - 1].nested = c[cur].nested
    BY <1>3 DEF Same
  <2>3. j \notin Marks(bound)
    BY <1>2
  <2> QED
    BY <2>1, <2>2, <2>3 DEF Reads, ReadsField, ReadsBlank, ReadsText, ReadsMark, ReadsDot,
                           Quiet, Inside, Marks
<1>4. Len(buf) \in cur..Len(buf)
  BY <1>1
<1> QED
  BY <1>3, <1>4, QuietPath

\* In the outermost part all that is left is text, but for the end.
LEMMA NoEnd ==
    ASSUME MessageInv, orderly, open, NEW c, Path(c), CutLast, TextKept, cur < Len(buf),
           c[cur].at \in Inside, c[cur].nested = <<>>, ~EndOfMessage(Rest)
    PROVE  /\ \A m \in cur..Len(buf) : Same(c[m], c[cur])
           /\ \A j \in (cur + 1)..Len(buf) : Quiet(buf[j])
<1>1. cur \in Nat /\ Len(buf) \in Nat
  BY Numbers
<1>2. /\ Len(Rest) = Len(buf) - cur /\ Rest \in Seq(Lines)
      /\ \A i \in 1..Len(Rest) : cur + i \in 1..Len(buf) /\ Rest[i] = buf[cur + i]
  BY RestOfBuffer DEF MessageInv
<1>6. Len(Rest) = Len(buf) - cur /\ Len(Rest) \in Nat
  BY <1>1, <1>2, LenProperties
<1>3. ASSUME NEW j \in (cur + 1)..Len(buf), buf[j] = Line("dot", None) PROVE FALSE
  <2>1. j \in 1..Len(buf)
    BY <1>1
  <2>2. owed = <<>>
    BY <1>3, <2>1 DEF MessageInv, EndInv
  <2>3. ReadsDot(c[j - 1], buf[j], c[j])
    BY <1>3, DotReads
  <2>4. j = Len(buf)
    <3> SUFFICES ASSUME j # Len(buf) PROVE FALSE
      OBVIOUS
    <3>1. j + 1 \in (cur + 1)..Len(buf) /\ j + 1 - 1 = j /\ j + 1 \in 1..Len(buf)
      BY <1>1
    <3>2. Reads(c[j], buf[j + 1], c[j + 1])
      BY <3>1 DEF Path
    <3>3. buf[j + 1].form = "whole"
      BY <2>2, <3>1 DEF CutLast, IsWhole
    <3> QED
      BY <2>3, <3>2, <3>3 DEF Reads, ReadsField, ReadsBlank, ReadsText, ReadsMark, ReadsDot,
                              Inside
  <2>5. Len(Rest) = 1
    <3>1. Last(Rest) = Line("dot", None)
      BY <1>1, <1>2, <1>3, <2>4 DEF Last
    <3> QED
      BY <1>1, <1>2, <3>1 DEF EndOfMessage
  <2>6. j = cur + 1
    <3>1. Len(buf) - cur = 1
      BY <1>6, <2>5, Zenon
    <3> QED
      BY <1>1, <2>4, <3>1
  <2> QED
    BY <1>3, <2>6 DEF TextKept, KeptFrom
<1>4. ASSUME NEW j \in (cur + 1)..Len(buf), Same(c[j - 1], c[cur]) PROVE Quiet(buf[j])
  <2>1. Reads(c[j - 1], buf[j], c[j])
    BY DEF Path
  <2>2. c[j - 1].at \in Inside /\ c[j - 1].nested = <<>>
    BY <1>4 DEF Same
  <2>3. buf[j] # Line("dot", None)
    BY <1>3
  <2> QED
    BY <2>1, <2>2, <2>3 DEF Reads, ReadsField, ReadsBlank, ReadsText, ReadsMark, ReadsDot,
                           Quiet, Inside
<1>5. Len(buf) \in cur..Len(buf)
  BY <1>1
<1> QED
  BY <1>4, <1>5, QuietPath

-----------------------------------------------------------------------------
(***************************************************************************)
(* The client's steps.                                                     *)
(***************************************************************************)
LEMMA ClientAt ==
    ASSUME at' \in Pieces, type' \in {"none", "single", "rfc822"} \cup Boundaries,
           nested' \in Seq(Boundaries), text' \in BOOLEAN,
           at' # "header" => type' = "none", Len(nested') + 2 <= MaxDepth,
           type' \in Boundaries => Len(nested') + 3 <= MaxDepth
    PROVE  Client' \in Positions
<1>1. Client' = [at |-> at', type |-> type', nested |-> nested', text |-> text']
  BY DEF Client
<1>2. Client' \in [at : Pieces, type : {"none", "single", "rfc822"} \cup Boundaries,
                   nested : Seq(Boundaries), text : BOOLEAN]
  BY <1>1, Zenon
<1>3. Client'.at = at' /\ Client'.type = type' /\ Client'.nested = nested'
  BY <1>1
<1> QED
  BY <1>2, <1>3, Zenon DEF Positions

\* A line the tracker follows leads from where the client is to where it is then.
LEMMA ClientReads ==
    ASSUME MessageInv, Client \in Positions, NEW l \in Lines, l.form = "whole",
           SenderMoves(l), Followed(l), Bounded(l)
    PROVE  Client' \in Positions /\ Reads(Client, l, Client')
<1>1. /\ at \in Pieces /\ type \in {"none", "single", "rfc822"} \cup Boundaries
      /\ nested \in Seq(Boundaries) /\ text \in BOOLEAN /\ Len(nested) \in Nat
      /\ at # "header" => type = "none"
      /\ Len(nested) + 2 <= MaxDepth
      /\ type \in Boundaries => Len(nested) + 3 <= MaxDepth
      /\ at = "preamble" => nested # <<>>
  BY LenProperties DEF MessageInv, TypeOK, LinesInv, Positions, Client
<1>2. /\ at' \in Pieces /\ type' \in {"none", "single", "rfc822"} \cup Boundaries
      /\ nested' \in Seq(Boundaries) /\ text' \in BOOLEAN
  BY Moves
<1>3. l \in LegalLines /\ text' = (l.kind = "text")
  BY DEF Followed, SenderMoves
<1>4. CASE at = "header"
  <2>1. \/ l.kind = "field" \/ l.kind = "blank"
        \/ l.kind \in {"single", "rfc822"} /\ type = "none"
        \/ l.kind = "multi" /\ type = "none"
    BY <1>3, <1>4 DEF LegalLines, HeaderLines, Line
  <2>2. CASE l.kind # "blank"
    <3>1. at' = "header" /\ nested' = nested /\ text' = FALSE
      BY <1>3, <1>4, <2>1, <2>2 DEF SenderMoves
    <3>2. type' = IF l.kind = "field" THEN type ELSE IF l.kind = "multi" THEN l.id ELSE l.kind
      BY <2>1, <2>2 DEF SenderMoves
    <3>3. Client' \in Positions
      <4>1. type' \in Boundaries => Len(nested) + 3 <= MaxDepth
        BY <1>1, <2>1, <2>2, <3>2 DEF Followed
      <4> QED
        BY <1>1, <1>2, <3>1, <4>1, <3>1, ClientAt DEF None
    <3>4. ReadsField(Client, l, Client')
      <4>1. l.kind = "multi" => l.id \in Boundaries
        BY DEF Bounded
      <4> QED
        BY <1>4, <2>1, <2>2, <3>1, <3>2, <4>1 DEF ReadsField, Client
    <3> QED
      BY <3>3, <3>4 DEF Reads
  <2>3. CASE l.kind = "blank"
    <3>1. type' = "none" /\ text' = FALSE /\ (type = "none" => nested = <<>>)
      BY <1>3, <2>3 DEF SenderMoves, Followed
    <3>2. CASE type \in Boundaries
      <4>1. at' = "preamble" /\ nested' = Append(nested, type)
        BY <1>3, <2>3, <3>2 DEF SenderMoves
      <4>2. Len(nested') + 2 <= MaxDepth
        BY <1>1, <3>2, <4>1, AppendProperties
      <4>3. Client' \in Positions
        BY <1>2, <3>1, <4>1, <4>2, ClientAt DEF None
      <4>4. ReadsBlank(Client, l, Client')
        BY <1>4, <2>3, <3>1, <3>2, <4>1 DEF ReadsBlank, Client
      <4> QED
        BY <4>3, <4>4 DEF Reads
    <3>3. CASE type \notin Boundaries
      <4>1. at' = (IF type = "rfc822" THEN "header" ELSE "body") /\ nested' = nested
        BY <1>3, <2>3, <3>3 DEF SenderMoves
      <4>3. Client' \in Positions
        BY <1>1, <1>2, <3>1, <4>1, ClientAt DEF None
      <4>4. ReadsBlank(Client, l, Client')
        BY <1>4, <2>3, <3>1, <3>3, <4>1 DEF ReadsBlank, Client
      <4> QED
        BY <4>3, <4>4 DEF Reads
    <3> QED
      BY <3>2, <3>3
  <2> QED
    BY <2>2, <2>3
<1>5. CASE at # "header"
  <2>1. type = "none" /\ type' = "none" /\ l.kind # "blank"
    BY <1>1, <1>3, <1>5 DEF LegalLines, Delimiters, Line, SenderMoves
  <2>2. at \in Inside
    BY <1>1, <1>3, <1>5 DEF LegalLines, Inside
  <2>3. CASE l.kind = "text"
    <3>1. at' = at /\ nested' = nested /\ text' = TRUE
      BY <1>3, <2>3 DEF SenderMoves
    <3>2. Client' \in Positions
      BY <1>1, <1>2, <2>1, <3>1, ClientAt DEF None
    <3>3. ReadsText(Client, l, Client')
      BY <2>1, <2>2, <2>3, <3>1 DEF ReadsText, Client
    <3> QED
      BY <3>2, <3>3 DEF Reads
  <2>4. CASE l.kind = "delim"
    <3>1. at' = "header" /\ nested' = nested /\ text' = FALSE
      BY <1>3, <2>4 DEF SenderMoves
    <3>2. nested # <<>> /\ l.id = Last(nested)
      BY <1>1, <1>3, <1>5, <2>4 DEF LegalLines, Delimiters, Inner, Last, Line
    <3>3. Client' \in Positions
      BY <1>1, <1>2, <2>1, <3>1, ClientAt DEF None
    <3>4. ReadsMark(Client, l, Client')
      BY <2>1, <2>2, <2>4, <3>1, <3>2 DEF ReadsMark, Client
    <3> QED
      BY <3>3, <3>4 DEF Reads
  <2>5. CASE l.kind = "close"
    <3>1. at' = "epilogue" /\ nested' = Front(nested) /\ text' = FALSE
      BY <1>3, <2>5 DEF SenderMoves
    <3>2. nested # <<>> /\ l.id = Last(nested) /\ at # "preamble"
      BY <1>1, <1>3, <1>5, <2>5 DEF LegalLines, Delimiters, Inner, Last, Line
    <3>3. Len(nested') <= Len(nested)
      <4>1. \A i \in 1..(Len(nested) - 1) : nested[i] \in Boundaries
        BY <1>1, ElementOfSeq
      <4> QED
        BY <1>1, <3>1, <4>1, SubSeqProperties DEF Front
    <3>4. Client' \in Positions
      <4>1. Len(nested') \in Nat /\ Len(nested') + 2 <= MaxDepth
        BY <1>1, <1>2, <3>3, LenProperties
      <4> QED
        BY <1>2, <2>1, <4>1, <3>1, ClientAt DEF None
    <3>5. ReadsMark(Client, l, Client')
      BY <2>1, <2>2, <2>5, <3>1, <3>2 DEF ReadsMark, Client
    <3> QED
      BY <3>4, <3>5 DEF Reads
  <2>6. CASE l.kind = "dot"
    <3>1. at' = "done" /\ nested' = nested /\ text' = FALSE
      BY <1>3, <2>6 DEF SenderMoves
    <3>2. /\ nested = <<>> /\ l = Line("dot", None) /\ at \in {"body", "epilogue"}
      BY <1>1, <1>3, <1>5, <2>6 DEF LegalLines, Delimiters, Line
    <3>3. text = TRUE
      BY <1>1, <2>6 DEF Followed
    <3>4. Client' \in Positions
      BY <1>1, <1>2, <2>1, <3>1, ClientAt DEF None
    <3>5. ReadsDot(Client, l, Client')
      BY <2>1, <3>1, <3>2, <3>3 DEF ReadsDot, Client
    <3> QED
      BY <3>4, <3>5 DEF Reads
  <2>7. l.kind \in {"text", "delim", "close", "dot"}
    BY <1>3, <1>5 DEF LegalLines, Delimiters, Line
  <2> QED
    BY <2>3, <2>4, <2>5, <2>6, <2>7
<1> QED
  BY <1>4, <1>5

-----------------------------------------------------------------------------
(***************************************************************************)
(* What keeps the tracker on the path.                                     *)
(***************************************************************************)
LEMMA NotOrderly == ASSUME ~orderly' PROVE Tracks'
BY DEF Tracks, Follows, NoneLost, Begins

LEMMA FailTracks ==
    ASSUME NEW reason \in {"peer", "refused"}, Fail(reason)
    PROVE  Tracks'
BY DEF Fail, Tracks, Follows, NoneLost, Begins

\* The multiparts around the top of the stack have a boundary.
LEMMA AroundFits ==
    ASSUME MessageInv
    PROVE  /\ top \in Nat /\ top < MaxDepth /\ stack \in StackType /\ newPart \in BOOLEAN
           /\ Around \in 0..top
           /\ ~newPart /\ stack[top].state \in {"fields", "body"} => top >= 1
           /\ \A i \in 1..Around : stack[i].bound # None
           /\ Bounds(stack, Around) \in Seq(Boundaries)
           /\ Len(Bounds(stack, Around)) = Around
<1>1. top \in Nat /\ top < MaxDepth /\ stack \in StackType /\ newPart \in BOOLEAN
  BY DEF MessageInv, TypeOK, StackType, Indices
<1>2. stack[top].state \in States
  BY <1>1 DEF StackType, Indices
<1>3. ~newPart /\ stack[top].state \in {"fields", "body"} => top >= 1
  BY <1>1 DEF MessageInv, StackInv
<1>4. Around \in 0..top
  BY <1>1, <1>2, <1>3 DEF Around, States
<1>5. \A i \in 1..(top - 1) : stack[i].bound # None
  BY DEF MessageInv, StackInv, PartsNest
<1>6. Around = top /\ top >= 1 => stack[top].bound # None
  <2> SUFFICES ASSUME Around = top, top >= 1 PROVE Multipart(stack[top])
    BY DEF Multipart
  <2>1. newPart \/ stack[top].state \in {"preamble", "epilogue"}
    BY <1>1 DEF Around
  <2> QED
    BY <2>1 DEF MessageInv, StackInv
<1>7. \A i \in 1..Around : stack[i].bound # None
  BY <1>1, <1>4, <1>5, <1>6
<1>8. Around \in Nat /\ Around < MaxDepth
  BY <1>1, <1>4
<1> QED
  BY <1>1, <1>3, <1>4, <1>7, <1>8, BoundsSeq

LEMMA LoopTracks ==
    ASSUME FollowInv, orderly, open, ~Over, NEW c, Path(c), NEW k \in cur..Len(buf), cur' = k,
           UNCHANGED <<buf, why, sender>>, Seen(c[k])', KeptFrom(k),
           owed # <<>> => k < Len(buf),
           phase' = "loop" \/ (phase' = "cont" /\ at # "done")
    PROVE  Tracks'
<1>1. cur \in Nat /\ Len(buf) \in Nat
  BY Numbers DEF FollowInv
<1>2. UNCHANGED <<at, type, nested, text, owed, orderly>>
  BY DEF sender
<1>3. \E d : Path(d)'
  BY PathFrom DEF FollowInv
<1>4. cur' <= Len(buf') /\ CutLast'
  BY <1>1, <1>2 DEF FollowInv, Tracks, Follows, CutLast, IsWhole
<1>5. TextKept'
  BY <1>2 DEF TextKept, KeptFrom, IsWhole
<1>6. Follows'
  BY <1>2, <1>3, <1>4, <1>5 DEF Follows
<1> QED
  BY <1>2, <1>6 DEF FollowInv, Tracks, NoneLost, Begins

LEMMA StayTracks ==
    ASSUME FollowInv, orderly, open, ~Over, NEW c, Path(c), NEW k \in cur..Len(buf), cur' = k,
           UNCHANGED <<session, parts, buf, sender>>, Same(c[k], c[cur]), KeptFrom(k),
           owed # <<>> => k < Len(buf), phase' = "cont", at # "done"
    PROVE  Tracks'
<1>1. UNCHANGED <<stack, top, newPart, buf, why, sender>>
  BY DEF session, parts
<1>2. Seen(c[k])
  BY DEF Same, Path, Seen
<1>3. Seen(c[k])'
  BY <1>1, <1>2 DEF Seen, Where, Declared, Around
<1> QED
  BY <1>1, <1>3, LoopTracks

\* Where nothing but text is left, the next segment begins in the same place.
LEMMA TextTracks ==
    ASSUME FollowInv, orderly, open, ~Over, NEW c, Path(c), cur < Len(buf),
           UNCHANGED <<session, parts, buf, sender>>, cur' = Len(buf) - Held, phase' = "cont",
           c[cur].at # "done",
           \A m \in cur..Len(buf) : Same(c[m], c[cur]),
           \A j \in (cur + 1)..Len(buf) : Quiet(buf[j])
    PROVE  Tracks'
<1>1. cur \in Nat /\ Len(buf) \in Nat
  BY Numbers DEF FollowInv
<1>2. CutLast /\ TextKept
  BY DEF FollowInv, Tracks, Follows
<1>3. /\ Len(buf) - Held \in cur..Len(buf) /\ Len(buf) - Held < Len(buf)
      /\ KeptFrom(Len(buf) - Held)
  BY <1>2, HeldBehind DEF FollowInv
<1>4. at # "done"
  <2>1. Same(c[Len(buf)], c[cur]) /\ c[Len(buf)] = Client
    BY <1>1 DEF Path
  <2> QED
    BY <2>1 DEF Same, Client
<1> QED
  BY <1>3, <1>4, StayTracks

-----------------------------------------------------------------------------
(***************************************************************************)
(* The steps of the loop.                                                  *)
(***************************************************************************)
LEMMA PushTracks ==
    ASSUME FollowInv, orderly, open, ~Over, phase = "loop", cur < Len(buf), newPart,
           UNCHANGED sender, Push
    PROVE  Tracks'
<1>1. cur \in Nat /\ Len(buf) \in Nat
  BY Numbers DEF FollowInv
<1>2. PICK c : Path(c)
  BY DEF FollowInv, Tracks, Follows
<1>3. /\ top \in Nat /\ top < MaxDepth /\ stack \in StackType
      /\ Len(Bounds(stack, Around)) = Around /\ Around = top
  BY AroundFits DEF FollowInv, Around
<1>4. c[cur] \in Positions /\ Seen(c[cur])
  BY <1>1, <1>2 DEF Path
<1>5. top + 2 <= MaxDepth
  BY <1>3, <1>4 DEF Positions, Seen
<1>6. /\ top' = top + 1 /\ newPart' = FALSE /\ stack' = [stack EXCEPT ![top + 1] = ClearPart]
      /\ UNCHANGED <<why, buf, cur, phase>>
  <2>1. ~Full
    BY <1>3, <1>5 DEF Full
  <2> QED
    BY <2>1, Zenon DEF Push, session
<1>7. stack'[top'] = ClearPart /\ \A j \in 0..top : stack'[j] = stack[j]
  BY <1>3, <1>5, <1>6 DEF StackType, Indices
<1>8. Where' = "header" /\ Declared' = "none" /\ Around' = top
  BY <1>3, <1>6, <1>7 DEF Where, Declared, Around, ClearPart
<1>9. Bounds(stack', top) = Bounds(stack, top)
  BY <1>3, <1>7, BoundsAgree
<1>10. Seen(c[cur])'
  BY <1>3, <1>4, <1>6, <1>8, <1>9 DEF Seen, Where, Declared
<1>11. cur \in cur..Len(buf) /\ KeptFrom(cur)
  BY <1>1 DEF FollowInv, Tracks, Follows, TextKept
<1> QED
  BY <1>2, <1>6, <1>10, <1>11, LoopTracks

\* A delimiter ends what is above a multipart, and its next part begins.
LEMMA NextPartTracks ==
    ASSUME FollowInv, orderly, open, ~Over, phase = "loop", UNCHANGED sender,
           NEW c, Path(c), NEW k \in (cur + 1)..Len(buf), IsWhole(buf[k]),
           c[k].at = "header", c[k].type = "none", c[k].text = FALSE,
           NEW n \in Nat, n <= top, c[k].nested = Bounds(stack, top - n), NextPart(k, n)
    PROVE  Tracks'
<1>1. cur \in Nat /\ Len(buf) \in Nat /\ k \in cur..Len(buf)
  BY Numbers DEF FollowInv
<1>2. CutLast
  BY DEF FollowInv, Tracks, Follows
<1>3. /\ top \in Indices /\ top \in Nat /\ top - n \in Indices /\ top - n \in Nat /\ stack \in StackType
  BY AroundFits DEF FollowInv, Indices
<1>4. /\ top' = top - n /\ newPart' = TRUE /\ cur' = k /\ phase' = "loop"
      /\ stack' = InState(Popped(stack, n), top - n, "fields")
      /\ UNCHANGED <<why, buf>>
  <2>1. ~(n > top)
    BY <1>3
  <2> QED
    BY <2>1, Zenon DEF NextPart, Advance
<1>5. /\ Popped(stack, n) \in StackType
      /\ \A j \in Indices : j <= top - n => Popped(stack, n)[j] = stack[j]
  BY <1>3, PoppedShape
<1>6. \A j \in Indices : j <= top - n => stack'[j].bound = stack[j].bound
  <2>1. "fields" \in States
    BY DEF States
  <2> QED
    BY <1>3, <1>4, <1>5, <2>1, StateSet
<1>7. Bounds(stack', top - n) = Bounds(stack, top - n)
  <2>1. \A j \in 1..(top - n) : j \in Indices /\ j <= top - n
    BY <1>3 DEF Indices
  <2> QED
    BY <1>3, <1>6, <2>1, BoundsAgree
<1>8. Where' = "header" /\ Declared' = "none" /\ Around' = top - n
  BY <1>4 DEF Where, Declared, Around
<1>9. Seen(c[k])'
  BY <1>7, <1>8 DEF Seen
<1>10. KeptFrom(k)
  BY <1>1, <1>2, TextBehind DEF FollowInv
<1>11. owed # <<>> => k < Len(buf)
  <2> SUFFICES ASSUME owed # <<>>, k = Len(buf) PROVE FALSE
    BY <1>1
  <2>1. owed[1] \in Lines
    BY EmptySeq, ElementOfSeq DEF FollowInv, MessageInv, TypeOK
  <2> QED
    BY <1>2, <2>1 DEF CutLast, IsWhole, Lines
<1> QED
  BY <1>1, <1>4, <1>9, <1>10, <1>11, LoopTracks

\* A closing delimiter ends a multipart.
LEMMA ClosedTracks ==
    ASSUME FollowInv, orderly, open, ~Over, phase = "loop", ~newPart, UNCHANGED sender,
           NEW c, Path(c), NEW k \in (cur + 1)..Len(buf), IsWhole(buf[k]),
           c[k].at = "epilogue", c[k].type = "none", c[k].text = FALSE,
           NEW n \in Nat, n <= top, c[k].nested = Bounds(stack, top - n), Closed(k, n)
    PROVE  Tracks'
<1>1. cur \in Nat /\ Len(buf) \in Nat /\ k \in cur..Len(buf)
  BY Numbers DEF FollowInv
<1>2. CutLast
  BY DEF FollowInv, Tracks, Follows
<1>3. /\ top \in Indices /\ top \in Nat /\ top - n \in Indices /\ top - n \in Nat /\ stack \in StackType
  BY AroundFits DEF FollowInv, Indices
<1>4. /\ top' = top - n /\ cur' = k /\ phase' = "loop"
      /\ stack' = InState(Popped(stack, n), top - n, "epilogue")
      /\ UNCHANGED <<why, buf>>
  <2>1. ~(n > top) /\ buf[k].form # "bare"
    BY <1>3 DEF IsWhole
  <2> QED
    BY <2>1, Zenon DEF Closed, Advance
<1>5. newPart' = newPart
  <2>1. ~(n > top)
    BY <1>3
  <2> QED
    BY <2>1, Zenon DEF Closed
<1>6. /\ Popped(stack, n) \in StackType
      /\ \A j \in Indices : j <= top - n => Popped(stack, n)[j] = stack[j]
  BY <1>3, PoppedShape
<1>7. /\ \A j \in Indices : j <= top - n => stack'[j].bound = stack[j].bound
      /\ stack'[top - n].state = "epilogue"
  <2>1. "epilogue" \in States
    BY DEF States
  <2>2. /\ \A j \in Indices : j # top - n => stack'[j] = Popped(stack, n)[j]
        /\ stack'[top - n].bound = Popped(stack, n)[top - n].bound
        /\ stack'[top - n].state = "epilogue"
    BY <1>3, <1>4, <1>6, <2>1, StateSet
  <2> QED
    BY <1>3, <1>6, <2>2
<1>8. Bounds(stack', top - n) = Bounds(stack, top - n)
  <2>1. \A j \in 1..(top - n) : j \in Indices /\ j <= top - n
    BY <1>3 DEF Indices
  <2> QED
    BY <1>3, <1>7, <2>1, BoundsAgree
<1>9. Where' = "epilogue" /\ Declared' = "none" /\ Around' = top - n
  BY <1>4, <1>5, <1>7 DEF Where, Declared, Around
<1>10. Seen(c[k])'
  BY <1>8, <1>9 DEF Seen
<1>11. KeptFrom(k)
  BY <1>1, <1>2, TextBehind DEF FollowInv
<1>12. owed # <<>> => k < Len(buf)
  <2> SUFFICES ASSUME owed # <<>>, k = Len(buf) PROVE FALSE
    BY <1>1
  <2>1. owed[1] \in Lines
    BY EmptySeq, ElementOfSeq DEF FollowInv, MessageInv, TypeOK
  <2> QED
    BY <1>2, <2>1 DEF CutLast, IsWhole, Lines
<1> QED
  BY <1>1, <1>4, <1>10, <1>11, <1>12, LoopTracks

\* One line of a header is read.
LEMMA HeaderLine ==
    ASSUME FollowInv, orderly, open, ~Over, cur < Len(buf), ~newPart,
           stack[top].state = "fields", NEW c, Path(c)
    PROVE  /\ Rest # <<>> /\ Head(Rest) = buf[cur + 1] /\ buf[cur + 1] \in Lines
           /\ cur + 1 \in (cur + 1)..Len(buf) /\ cur + 1 \in cur..Len(buf)
           /\ top \in Nat /\ top >= 1 /\ Seen(c[cur]) /\ c[cur] \in Positions
           /\ c[cur].at = "header"
           /\ c[cur].type = IF stack[top].type = "multi" THEN stack[top].bound ELSE stack[top].type
           /\ c[cur].nested = Bounds(stack, top - 1)
           /\ Reads(c[cur], buf[cur + 1], c[cur + 1])
           /\ CutLast
<1>1. cur \in Nat /\ Len(buf) \in Nat
  BY Numbers DEF FollowInv
<1>2. Rest # <<>> /\ Head(Rest) = buf[cur + 1] /\ buf[cur + 1] \in Lines
  <2>1. Rest \in Seq(Lines) /\ Len(Rest) = Len(buf) - cur /\ Rest[1] = buf[cur + 1]
    BY <1>1, RestOfBuffer DEF FollowInv, MessageInv
  <2>2. Rest # <<>>
    BY <1>1, <2>1, EmptySeq
  <2> QED
    BY <2>1, <2>2, HeadTailProperties
<1>3. cur + 1 \in (cur + 1)..Len(buf) /\ cur + 1 - 1 = cur
  BY <1>1
<1>4. top \in Nat /\ top >= 1
  BY AroundFits DEF FollowInv
<1>5. Seen(c[cur]) /\ c[cur] \in Positions /\ Reads(c[cur], buf[cur + 1], c[cur + 1])
  BY <1>1, <1>3 DEF Path
<1>6. Where = "header" /\ Around = top - 1
  BY DEF Where, Around
<1>7. Declared = IF stack[top].type = "multi" THEN stack[top].bound ELSE stack[top].type
  BY DEF Declared
<1>8. CutLast
  BY DEF FollowInv, Tracks, Follows
<1> QED
  BY <1>1, <1>2, <1>3, <1>4, <1>5, <1>6, <1>7, <1>8 DEF Seen

\* A field sets the type of the part whose header it is in.
LEMMA FieldTracks ==
    ASSUME FollowInv, orderly, open, ~Over, phase = "loop", cur < Len(buf), ~newPart,
           stack[top].state = "fields", UNCHANGED sender,
           NEW c, Path(c), IsWhole(buf[cur + 1]), ReadsField(c[cur], buf[cur + 1], c[cur + 1]),
           stack' = [stack EXCEPT ![top] = TypeOfField(@, buf[cur + 1])],
           Advance(cur + 1, "loop"), UNCHANGED <<top, newPart, last>>
    PROVE  Tracks'
<1> DEFINE l == buf[cur + 1]
           p == TypeOfField(stack[top], l)
<1>1. cur \in Nat /\ Len(buf) \in Nat
  BY Numbers DEF FollowInv
<1>16. PICK k : k = cur + 1
  OBVIOUS
<1>2. /\ l \in Lines /\ cur + 1 \in (cur + 1)..Len(buf) /\ cur + 1 \in cur..Len(buf)
      /\ top \in Nat /\ top >= 1 /\ c[cur].at = "header"
      /\ c[cur].type = IF stack[top].type = "multi" THEN stack[top].bound ELSE stack[top].type
      /\ c[cur].nested = Bounds(stack, top - 1) /\ CutLast
  BY HeaderLine
<1>3. stack \in StackType /\ top \in Indices
  BY <1>2, AroundFits DEF FollowInv, Indices
<1>4. /\ stack'[top] = p /\ \A j \in Indices : j # top => stack'[j] = stack[j]
  BY <1>3 DEF StackType
<1>5. stack[top] \in [state : States, type : Types, bound : Boundaries \cup {None}]
  BY <1>3 DEF StackType
<1>6. /\ p.state = "fields"
      /\ c[cur + 1].type = IF p.type = "multi" THEN p.bound ELSE p.type
  <2>1. CASE l.kind = "field"
    BY <1>2, <1>5, <2>1 DEF TypeOfField, ReadsField
  <2>2. CASE l.kind = "multi"
    BY <1>5, <2>2 DEF TypeOfField, ReadsField
  <2>3. CASE l.kind \in {"single", "rfc822"}
    BY <1>5, <2>3 DEF TypeOfField, ReadsField
  <2> QED
    BY <2>1, <2>2, <2>3 DEF ReadsField
<1> HIDE DEF p, l
<1>7. UNCHANGED <<why, buf, top>> /\ cur' = cur + 1 /\ phase' = "loop"
  BY DEF Advance
<1>8. newPart' = newPart
  OBVIOUS
<1>9. Where' = "header" /\ Around' = top - 1
  BY <1>4, <1>6, <1>7, <1>8 DEF Where, Around
<1>10. Declared' = IF p.type = "multi" THEN p.bound ELSE p.type
  BY <1>4, <1>6, <1>7, <1>8 DEF Declared
<1>11. Bounds(stack', top - 1) = Bounds(stack, top - 1)
  <2>1. top - 1 \in Nat /\ \A j \in 1..(top - 1) : j \in Indices /\ j # top
    BY <1>2, <1>3 DEF Indices
  <2>2. \A j \in 1..(top - 1) : stack'[j].bound = stack[j].bound
    BY <1>4, <2>1
  <2> QED
    BY <2>1, <2>2, BoundsAgree
<1>12. c[cur + 1].at = "header" /\ c[cur + 1].nested = c[cur].nested /\ c[cur + 1].text = FALSE
  BY DEF ReadsField
<1>13. Seen(c[k])'
  BY <1>2, <1>6, <1>9, <1>10, <1>11, <1>12, <1>16 DEF Seen
<1>14. KeptFrom(k)
  BY <1>2, <1>12, <1>16, TextBehind DEF FollowInv
<1>15. owed # <<>> => cur + 1 < Len(buf)
  <2> SUFFICES ASSUME owed # <<>>, cur + 1 = Len(buf) PROVE FALSE
    BY <1>1
  <2>1. owed[1] \in Lines
    BY EmptySeq, ElementOfSeq DEF FollowInv, MessageInv, TypeOK
  <2> QED
    BY <1>2, <2>1 DEF CutLast, IsWhole, Lines
<1> QED
  BY <1>2, <1>7, <1>13, <1>14, <1>15, <1>16, LoopTracks

\* A blank line ends a header, and the stack says what comes behind it.
LEMMA BlankTracks ==
    ASSUME FollowInv, orderly, open, ~Over, phase = "loop", cur < Len(buf), ~newPart,
           stack[top].state = "fields", UNCHANGED sender,
           NEW c, Path(c), NEW k, k = cur + 1, IsWhole(buf[k]),
           ReadsBlank(c[cur], buf[k], c[k]), EndOfHeader(k)
    PROVE  Tracks'
<1> DEFINE t == stack[top].type
<1>1. cur \in Nat /\ Len(buf) \in Nat
  BY Numbers DEF FollowInv
<1>2. /\ k \in (cur + 1)..Len(buf) /\ k \in cur..Len(buf)
      /\ top \in Nat /\ top >= 1
      /\ c[cur].type = IF t = "multi" THEN stack[top].bound ELSE t
      /\ c[cur].nested = Bounds(stack, top - 1) /\ CutLast
  BY HeaderLine
<1>3. /\ stack \in StackType /\ top \in Indices /\ top - 1 \in Nat /\ top - 1 \in Indices
      /\ top < MaxDepth
  BY <1>2, AroundFits DEF FollowInv, Indices
<1>4. /\ stack[top] \in [state : States, type : Types, bound : Boundaries \cup {None}]
      /\ t \in Types
      /\ t = "multi" => stack[top].bound \in Boundaries
  <2>1. t = "multi" => stack[top].bound # None
    BY DEF FollowInv, MessageInv, StackInv
  <2> QED
    BY <1>3, <2>1 DEF StackType
<1>5. KeptFrom(k)
  BY <1>2, TextBehind DEF FollowInv, ReadsBlank
<1>6. owed # <<>> => k < Len(buf)
  <2> SUFFICES ASSUME owed # <<>>, k = Len(buf) PROVE FALSE
    BY <1>1
  <2>1. owed[1] \in Lines
    BY EmptySeq, ElementOfSeq DEF FollowInv, MessageInv, TypeOK
  <2> QED
    BY <1>2, <2>1 DEF CutLast, IsWhole, Lines
<1>7. ~(t = "none" /\ top # 1)
  <2> SUFFICES ASSUME t = "none", top # 1 PROVE FALSE
    OBVIOUS
  <2>1. c[cur].nested = <<>>
    BY <1>2 DEF ReadsBlank
  <2>2. Len(Bounds(stack, top - 1)) = top - 1
    <3>1. \A i \in 1..(top - 1) : stack[i].bound # None
      BY DEF FollowInv, MessageInv, StackInv, PartsNest
    <3> QED
      BY <1>2, <1>3, <3>1, BoundsSeq
  <2>3. Len(Bounds(stack, top - 1)) = 0
    BY <1>2, <2>1, EmptySeq
  <2> QED
    BY <1>2, <2>2, <2>3
<1> DEFINE n == PoppedAfterHeader(t)
<1>8. n = (IF t = "rfc822" THEN 1 ELSE 0) /\ ~(n > top) /\ n \in Nat
  BY <1>2 DEF PoppedAfterHeader
<1>9. /\ stack' = IF t = "rfc822" THEN Popped(stack, n)
                  ELSE InState(stack, top, IF t = "multi" THEN "preamble" ELSE "body")
      /\ top' = top - n /\ newPart' = (t = "rfc822")
      /\ cur' = k /\ phase' = "loop" /\ UNCHANGED <<why, buf>>
  <2>1. ~(t # "none" /\ n > top)
    BY <1>8
  <2> HIDE DEF n
  <2> QED
    BY <1>7, <2>1, Zenon DEF EndOfHeader, Advance, n
<1> SUFFICES Seen(c[k])'
  BY <1>2, <1>5, <1>6, <1>9, LoopTracks
<1> HIDE DEF n
<1>10. CASE t = "rfc822"
  <2>1. n = 1 /\ top' = top - 1 /\ stack' = Popped(stack, 1)
    BY <1>8, <1>9, <1>10
  <2>2. newPart'
    BY <1>9, <1>10, Zenon
  <2>3. Where' = "header" /\ Declared' = "none" /\ Around' = top - 1
    BY <2>1, <2>2 DEF Where, Declared, Around
  <2>4. \A j \in 1..(top - 1) : stack'[j].bound = stack[j].bound
    <3>1. \A j \in 1..(top - 1) : j \in Indices /\ j <= top - 1
      BY <1>3 DEF Indices
    <3> QED
      BY <1>3, <2>1, <3>1, PoppedShape
  <2>5. Bounds(stack', top - 1) = Bounds(stack, top - 1)
    BY <1>3, <2>4, BoundsAgree
  <2>6. c[k].at = "header" /\ c[k].type = "none" /\ c[k].nested = c[cur].nested
    BY <1>2, <1>10 DEF ReadsBlank
  <2> QED
    BY <1>2, <2>3, <2>5, <2>6 DEF Seen
<1>11. CASE t = "multi"
  <2>1. n = 0 /\ top' = top /\ stack' = InState(stack, top, "preamble")
    BY <1>2, <1>8, <1>9, <1>11
  <2>2. ~newPart'
    BY <1>9, <1>11, Zenon
  <2>3. /\ \A j \in Indices : stack'[j].bound = stack[j].bound
        /\ stack'[top].state = "preamble" /\ stack' \in StackType
    <3>1. "preamble" \in States
      BY DEF States
    <3>2. /\ \A j \in Indices : j # top => stack'[j] = stack[j]
          /\ stack'[top].bound = stack[top].bound
          /\ stack'[top].state = "preamble" /\ stack' \in StackType
      BY <1>3, <2>1, <3>1, StateSet
    <3> QED
      BY <3>2
  <2>4. Where' = "preamble" /\ Declared' = "none" /\ Around' = top
    BY <2>1, <2>2, <2>3 DEF Where, Declared, Around
  <2>5. Bounds(stack', top) = Bounds(stack, top)
    <3>1. \A j \in 1..top : j \in Indices
      BY <1>3 DEF Indices
    <3> QED
      BY <1>2, <2>3, <3>1, BoundsAgree
  <2>6. Bounds(stack, top) = Append(Bounds(stack, top - 1), stack[top].bound)
    <3>1. \A i \in 1..(top - 1) : stack[i].bound # None
      BY DEF FollowInv, MessageInv, StackInv, PartsNest
    <3>2. stack[top].bound # None
      BY <1>4, <1>11
    <3>3. \A i \in 1..(top - 1 + 1) : stack[i].bound # None
      BY <1>2, <3>1, <3>2
    <3>4. top - 1 + 1 = top
      BY <1>2
    <3> QED
      BY <1>3, <3>3, <3>4, BoundsMore
  <2>7. c[k].at = "preamble" /\ c[k].type = "none" /\ c[k].nested = Append(c[cur].nested, stack[top].bound)
    BY <1>2, <1>4, <1>11 DEF ReadsBlank
  <2> QED
    BY <1>2, <2>4, <2>5, <2>6, <2>7 DEF Seen
<1>12. CASE t \notin {"rfc822", "multi"}
  <2>1. n = 0 /\ top' = top /\ stack' = InState(stack, top, "body")
    BY <1>2, <1>8, <1>9, <1>12
  <2>2. ~newPart'
    BY <1>9, <1>12, Zenon
  <2>3. /\ \A j \in Indices : j # top => stack'[j] = stack[j]
        /\ stack'[top].state = "body"
    <3>1. "body" \in States
      BY DEF States
    <3> QED
      BY <1>3, <2>1, <3>1, StateSet
  <2>4. Where' = "body" /\ Declared' = "none" /\ Around' = top - 1
    BY <2>1, <2>2, <2>3 DEF Where, Declared, Around
  <2>5. Bounds(stack', top - 1) = Bounds(stack, top - 1)
    <3>1. \A j \in 1..(top - 1) : j \in Indices /\ j # top
      BY <1>3 DEF Indices
    <3>2. \A j \in 1..(top - 1) : stack'[j].bound = stack[j].bound
      BY <2>3, <3>1
    <3> QED
      BY <1>3, <3>2, BoundsAgree
  <2>6. c[cur].type = t /\ t \notin Boundaries
    BY <1>2, <1>4, <1>12 DEF Types, None
  <2>7. c[k].at = "body" /\ c[k].type = "none" /\ c[k].nested = c[cur].nested
    BY <1>12, <2>6 DEF ReadsBlank
  <2> QED
    BY <1>2, <2>4, <2>5, <2>7 DEF Seen
<1> QED
  BY <1>10, <1>11, <1>12

LEMMA FieldsParseTracks ==
    ASSUME FollowInv, orderly, open, ~Over, phase = "loop", cur < Len(buf), ~newPart,
           stack[top].state = "fields", UNCHANGED sender, FieldsParse
    PROVE  Tracks'
<1>1. cur \in Nat /\ Len(buf) \in Nat
  BY Numbers DEF FollowInv
<1>2. PICK c : Path(c)
  BY DEF FollowInv, Tracks, Follows
<1>3. PICK k : k = cur + 1
  OBVIOUS
<1>4. /\ Rest # <<>> /\ Head(Rest) = buf[k] /\ buf[k] \in Lines
      /\ c[cur].at = "header" /\ Reads(c[cur], buf[k], c[k]) /\ CutLast
      /\ k \in 1..Len(buf) /\ k \in cur..Len(buf)
  BY <1>1, <1>2, <1>3, HeaderLine
<1>5. KeptFrom(cur) /\ cur \in cur..Len(buf) /\ Same(c[cur], c[cur])
  BY <1>1 DEF FollowInv, Tracks, Follows, TextKept, Same
<1>6. ASSUME Continue(cur), c[k].at = "header", k = Len(buf) PROVE Tracks'
  <2>1. UNCHANGED <<session, parts, buf>> /\ cur' = cur /\ phase' = "cont"
    BY <1>6 DEF Continue
  <2>2. at = "header"
    BY <1>2, <1>6 DEF Path, Client
  <2> QED
    BY <1>2, <1>5, <2>1, <2>2, StayTracks
<1>7. CASE ~IsWhole(buf[k])
  <2>1. Continue(cur)
    BY <1>4, <1>7 DEF FieldsParse, IsWhole
  <2>2. k = Len(buf)
    BY <1>4, <1>7 DEF CutLast
  <2>3. c[k].at = "header"
    BY <1>4, <1>7 DEF Reads, IsWhole
  <2> QED
    BY <1>6, <2>1, <2>2, <2>3
<1>8. CASE IsWhole(buf[k])
  <2>1. \/ ReadsField(c[cur], buf[k], c[k]) /\ buf[k].kind \in FieldKinds
        \/ ReadsBlank(c[cur], buf[k], c[k])
    BY <1>4, <1>8 DEF Reads, IsWhole, ReadsField, ReadsText, ReadsMark, ReadsDot, Inside, FieldKinds
  <2>2. CASE ReadsBlank(c[cur], buf[k], c[k])
    <3>1. buf[k].kind = "blank" /\ "blank" \notin FieldKinds
      BY <2>2 DEF ReadsBlank, FieldKinds
    <3>2. EndOfHeader(k)
      BY <1>3, <1>4, <1>8, <3>1 DEF FieldsParse, IsWhole
    <3> QED
      BY <1>2, <1>3, <1>8, <2>2, <3>2, BlankTracks
  <2>3. CASE ReadsField(c[cur], buf[k], c[k]) /\ buf[k].kind \in FieldKinds
    <3>1. "blank" \notin FieldKinds
      BY DEF FieldKinds
    <3>2. CASE Len(Rest) = 1 /\ Continue(cur)
      <4>1. k = Len(buf)
        <5>1. Len(Rest) = Len(buf) - cur
          BY <1>1, RestOfBuffer DEF FollowInv, MessageInv
        <5>2. Len(buf) - cur = 1
          BY <3>2, <5>1, Zenon
        <5> QED
          BY <1>1, <1>3, <5>2
      <4>2. c[k].at = "header"
        BY <2>3 DEF ReadsField
      <4> QED
        BY <1>6, <3>2, <4>1, <4>2
    <3>3. CASE /\ stack' = [stack EXCEPT ![top] = TypeOfField(@, buf[k])]
               /\ Advance(cur + 1, "loop") /\ UNCHANGED <<top, newPart, last>>
      BY <1>2, <1>3, <1>8, <2>3, <3>3, FieldTracks
    <3> QED
      BY <1>4, <1>8, <2>3, <3>1, <3>2, <3>3 DEF FieldsParse, IsWhole
  <2> QED
    BY <2>1, <2>2, <2>3
<1> QED
  BY <1>7, <1>8

\* Outside headers the tracker looks for the boundary of the innermost multipart.
LEMMA InsideOf ==
    ASSUME FollowInv, orderly, open, ~Over, cur < Len(buf), ~newPart,
           stack[top].state \in Inside, NEW c, Path(c)
    PROVE  /\ cur \in Nat /\ Len(buf) \in Nat /\ top \in Nat /\ stack \in StackType
           /\ c[cur].at = stack[top].state /\ c[cur].at \in Inside /\ c[cur].at # "done"
           /\ c[cur].nested = Bounds(stack, Around) /\ Around \in 0..top
           /\ Around = 0 => c[cur].nested = <<>>
           /\ Around > 0 => /\ c[cur].nested # <<>> /\ Last(c[cur].nested) = stack[Around].bound
                            /\ Front(c[cur].nested) = Bounds(stack, Around - 1)
                            /\ stack[Around].bound # None
           /\ CutLast /\ TextKept
<1>1. cur \in Nat /\ Len(buf) \in Nat
  BY Numbers DEF FollowInv
<1>2. /\ top \in Nat /\ top < MaxDepth /\ stack \in StackType /\ Around \in 0..top
      /\ \A i \in 1..Around : stack[i].bound # None
  BY AroundFits DEF FollowInv
<1>3. Seen(c[cur])
  BY <1>1 DEF Path
<1>4. Where = stack[top].state
  BY DEF Where, Inside
<1>5. Around = 0 => Bounds(stack, Around) = <<>>
  BY BoundsNone
<1>6. ASSUME Around > 0
      PROVE  /\ Bounds(stack, Around) # <<>> /\ Last(Bounds(stack, Around)) = stack[Around].bound
             /\ Front(Bounds(stack, Around)) = Bounds(stack, Around - 1)
             /\ stack[Around].bound # None
  <2>1. Around - 1 \in Nat /\ Around - 1 + 1 = Around /\ Around < MaxDepth /\ Around \in 1..Around
    BY <1>2, <1>6
  <2> QED
    BY <1>2, <2>1, BoundsMore
<1>7. CutLast /\ TextKept
  BY DEF FollowInv, Tracks, Follows
<1> QED
  BY <1>1, <1>2, <1>3, <1>4, <1>5, <1>6, <1>7 DEF Seen, Inside

LEMMA SearchTracks ==
    ASSUME FollowInv, orderly, open, ~Over, ~Scraps, cur < Len(buf), ~newPart, Around > 0,
           stack[top].state \in Inside, UNCHANGED sender, NEW bound, bound = stack[Around].bound,
           Found(bound) = {}, Search
    PROVE  Tracks'
<1>1. PICK c : Path(c)
  BY DEF FollowInv, Tracks, Follows
<1>2. /\ cur \in Nat /\ Len(buf) \in Nat
      /\ c[cur].at \in Inside /\ c[cur].at # "done"
      /\ c[cur].nested # <<>> /\ bound = Last(c[cur].nested)
  BY <1>1, InsideOf
<1>3. /\ \A m \in cur..Len(buf) : Same(c[m], c[cur])
      /\ \A j \in (cur + 1)..Len(buf) : Quiet(buf[j])
  BY <1>1, <1>2, NoneFound DEF FollowInv
<1>4. cur' = Len(buf) - Held /\ phase' = "cont" /\ UNCHANGED <<session, parts, buf>>
  BY DEF Search
<1> QED
  BY <1>1, <1>2, <1>3, <1>4, TextTracks

LEMMA OuterTracks ==
    ASSUME FollowInv, orderly, open, ~Over, cur < Len(buf), ~newPart, Around = 0,
           stack[top].state \in Inside, UNCHANGED sender,
           ~EndOfMessage(Rest), Continue(Len(buf) - Held)
    PROVE  Tracks'
<1>1. PICK c : Path(c)
  BY DEF FollowInv, Tracks, Follows
<1>2. /\ c[cur].at \in Inside /\ c[cur].at # "done" /\ c[cur].nested = <<>>
      /\ CutLast /\ TextKept
  BY <1>1, InsideOf
<1>3. /\ \A m \in cur..Len(buf) : Same(c[m], c[cur])
      /\ \A j \in (cur + 1)..Len(buf) : Quiet(buf[j])
  BY <1>1, <1>2, NoEnd DEF FollowInv
<1>4. cur' = Len(buf) - Held /\ phase' = "cont" /\ UNCHANGED <<session, parts, buf>>
  BY DEF Continue
<1> QED
  BY <1>1, <1>2, <1>3, <1>4, TextTracks

LEMMA EndTracks ==
    ASSUME last' = "EOM", phase' = "succ", why' = why, FollowInv, UNCHANGED sender
    PROVE  Tracks'
<1>1. Over'
  BY DEF Over
<1>2. orderly' = orderly
  BY DEF sender
<1> QED
  BY <1>1, <1>2 DEF FollowInv, Tracks, Follows, NoneLost, Begins

LEMMA BodyParseTracks ==
    ASSUME FollowInv, orderly, open, ~Over, ~Scraps, phase = "loop", cur < Len(buf), ~newPart,
           stack[top].state = "body", UNCHANGED sender, BodyParse
    PROVE  Tracks'
<1>1. top \in Nat /\ top >= 1 /\ top - 1 \in Nat /\ Around = top - 1 /\ stack[top].state \in Inside
  BY AroundFits DEF FollowInv, Around, Inside
<1>2. CASE top = 1
  <2>1. OnlyPart /\ Around = 0
    BY <1>1, <1>2 DEF OnlyPart
  <2>2. CASE EndOfMessage(Rest)
    <3>1. last' = "EOM" /\ phase' = "succ" /\ why' = why
      BY <2>1, <2>2, Zenon DEF BodyParse, Advance
    <3> QED
      BY <3>1, EndTracks
  <2>3. CASE ~EndOfMessage(Rest)
    <3>1. Continue(Len(buf) - Held)
      BY <2>1, <2>3, Zenon DEF BodyParse
    <3> QED
      BY <1>1, <2>1, <2>3, <3>1, OuterTracks
  <2> QED
    BY <2>2, <2>3
<1>3. CASE top # 1
  <2>1. ~OnlyPart /\ Around > 0
    BY <1>1, <1>3 DEF OnlyPart
  <2>2. PICK bound : bound = stack[top - 1].bound
    OBVIOUS
  <2>3. PICK c : Path(c)
    BY DEF FollowInv, Tracks, Follows
  <2>4. /\ cur \in Nat /\ Len(buf) \in Nat
        /\ c[cur].at \in Inside /\ c[cur].nested = Bounds(stack, top - 1)
        /\ c[cur].nested # <<>> /\ bound = Last(c[cur].nested) /\ bound # None
        /\ Front(c[cur].nested) = Bounds(stack, top - 1 - 1) /\ CutLast
    BY <1>1, <2>1, <2>2, <2>3, InsideOf
  <2>5. CASE Found(bound) = {}
    <3>1. Search
      BY <2>1, <2>2, <2>4, <2>5, Zenon DEF BodyParse
    <3> QED
      BY <1>1, <2>1, <2>2, <2>5, <3>1, SearchTracks
  <2>6. CASE Found(bound) # {}
    <3>1. PICK k \in Found(bound) : IF buf[k].kind = "delim" THEN NextPart(k, 1)
                                    ELSE Closed(k, PoppedWithLastPart)
      BY <2>1, <2>2, <2>4, <2>6, Zenon DEF BodyParse
    <3>2. /\ k \in (cur + 1)..Len(buf) /\ IsWhole(buf[k])
          /\ c[k].type = "none" /\ c[k].text = FALSE
          /\ \/ buf[k].kind = "delim" /\ c[k].at = "header" /\ c[k].nested = c[cur].nested
             \/ /\ buf[k].kind = "close" /\ c[k].at = "epilogue"
                /\ c[k].nested = Front(c[cur].nested)
      BY <2>3, <2>4, FoundReads DEF FollowInv
    <3>3. CASE buf[k].kind = "delim" /\ c[k].at = "header" /\ c[k].nested = c[cur].nested
      BY <1>1, <2>3, <2>4, <3>1, <3>2, <3>3, NextPartTracks
    <3>4. CASE buf[k].kind = "close" /\ c[k].at = "epilogue" /\ c[k].nested = Front(c[cur].nested)
      <4>1. PoppedWithLastPart = 2
        BY <1>1, <1>3 DEF PoppedWithLastPart, FollowInv, MessageInv, StackInv, PartsNest
      <4>2. 2 \in Nat /\ 2 <= top /\ top - 1 - 1 = top - 2
        BY <1>1, <1>3
      <4>3. Closed(k, 2)
        BY <3>1, <3>4, <4>1
      <4> QED
        BY <2>3, <2>4, <3>2, <3>4, <4>2, <4>3, ClosedTracks
    <3> QED
      BY <3>2, <3>3, <3>4
  <2> QED
    BY <2>5, <2>6
<1> QED
  BY <1>2, <1>3

LEMMA PreambleParseTracks ==
    ASSUME FollowInv, orderly, open, ~Over, ~Scraps, phase = "loop", cur < Len(buf), ~newPart,
           stack[top].state = "preamble", UNCHANGED sender, PreambleParse
    PROVE  Tracks'
<1>1. top \in Nat /\ top >= 1 /\ Around = top /\ Around > 0 /\ stack[top].state \in Inside
  BY AroundFits DEF FollowInv, MessageInv, StackInv, Around, Inside
<1>2. PICK bound : bound = stack[top].bound
  OBVIOUS
<1>3. PICK c : Path(c)
  BY DEF FollowInv, Tracks, Follows
<1>4. /\ cur \in Nat /\ Len(buf) \in Nat
      /\ c[cur].at = "preamble" /\ c[cur].at \in Inside /\ c[cur].nested = Bounds(stack, top)
      /\ c[cur].nested # <<>> /\ bound = Last(c[cur].nested) /\ bound # None /\ CutLast
  BY <1>1, <1>2, <1>3, InsideOf
<1>5. CASE Found(bound) = {}
  <2>1. Search
    BY <1>2, <1>4, <1>5, Zenon DEF PreambleParse
  <2> QED
    BY <1>1, <1>2, <1>5, <2>1, SearchTracks
<1>6. CASE Found(bound) # {}
  <2>1. PICK k \in Found(bound) :
          IF buf[k].kind = "delim" THEN NextPart(k, 0) ELSE Fail("parse")
    BY <1>2, <1>4, <1>6, Zenon DEF PreambleParse
  <2>2. /\ k \in (cur + 1)..Len(buf) /\ IsWhole(buf[k])
        /\ c[k].type = "none" /\ c[k].text = FALSE
        /\ buf[k].kind = "delim" /\ c[k].at = "header" /\ c[k].nested = c[cur].nested
    BY <1>3, <1>4, FoundReads DEF FollowInv
  <2>3. NextPart(k, 0) /\ 0 \in Nat /\ 0 <= top /\ top - 0 = top
    BY <1>1, <2>1, <2>2
  <2> QED
    BY <1>3, <1>4, <2>2, <2>3, NextPartTracks
<1> QED
  BY <1>5, <1>6

LEMMA EpilogueParseTracks ==
    ASSUME FollowInv, orderly, open, ~Over, ~Scraps, phase = "loop", cur < Len(buf), ~newPart,
           stack[top].state = "epilogue", UNCHANGED sender, EpilogueParse
    PROVE  Tracks'
<1>1. top \in Nat /\ Around = top /\ stack[top].state \in Inside
  BY AroundFits DEF FollowInv, Around, Inside
<1>2. CASE top = 0
  <2>1. CASE EndOfMessage(Rest)
    <3>1. last' = "EOM" /\ phase' = "succ" /\ why' = why
      BY <1>2, <2>1, Zenon DEF EpilogueParse
    <3> QED
      BY <3>1, EndTracks
  <2>2. CASE ~EndOfMessage(Rest)
    <3>1. Continue(Len(buf) - Held)
      BY <1>2, <2>2, Zenon DEF EpilogueParse
    <3> QED
      BY <1>1, <1>2, <2>2, <3>1, OuterTracks
  <2> QED
    BY <2>1, <2>2
<1>3. CASE top # 0
  <2>1. Around > 0 /\ top >= 1
    BY <1>1, <1>3
  <2>2. PICK bound : bound = stack[top].bound
    OBVIOUS
  <2>3. PICK c : Path(c)
    BY DEF FollowInv, Tracks, Follows
  <2>4. /\ cur \in Nat /\ Len(buf) \in Nat
        /\ c[cur].at \in Inside /\ c[cur].nested = Bounds(stack, top)
        /\ c[cur].nested # <<>> /\ bound = Last(c[cur].nested) /\ bound # None
        /\ Front(c[cur].nested) = Bounds(stack, top - 1) /\ CutLast
    BY <1>1, <2>1, <2>2, <2>3, InsideOf
  <2>5. CASE Found(bound) = {}
    <3>1. Search
      BY <1>3, <2>2, <2>4, <2>5, Zenon DEF EpilogueParse
    <3> QED
      BY <1>1, <2>1, <2>2, <2>5, <3>1, SearchTracks
  <2>6. CASE Found(bound) # {}
    <3>1. PICK k \in Found(bound) :
            IF buf[k].kind = "delim" THEN NextPart(k, 0) ELSE Closed(k, 1)
      BY <1>3, <2>2, <2>4, <2>6, Zenon DEF EpilogueParse
    <3>2. /\ k \in (cur + 1)..Len(buf) /\ IsWhole(buf[k])
          /\ c[k].type = "none" /\ c[k].text = FALSE
          /\ \/ buf[k].kind = "delim" /\ c[k].at = "header" /\ c[k].nested = c[cur].nested
             \/ /\ buf[k].kind = "close" /\ c[k].at = "epilogue"
                /\ c[k].nested = Front(c[cur].nested)
      BY <2>3, <2>4, FoundReads DEF FollowInv
    <3>3. CASE buf[k].kind = "delim" /\ c[k].at = "header" /\ c[k].nested = c[cur].nested
      <4>1. NextPart(k, 0) /\ 0 \in Nat /\ 0 <= top /\ top - 0 = top
        BY <1>1, <3>1, <3>3
      <4> QED
        BY <2>3, <2>4, <3>2, <3>3, <4>1, NextPartTracks
    <3>4. CASE buf[k].kind = "close" /\ c[k].at = "epilogue" /\ c[k].nested = Front(c[cur].nested)
      <4>1. Closed(k, 1) /\ 1 \in Nat /\ 1 <= top
        BY <2>1, <3>1, <3>4
      <4> QED
        BY <2>3, <2>4, <3>2, <3>4, <4>1, ClosedTracks
    <3> QED
      BY <3>2, <3>3, <3>4
  <2> QED
    BY <2>5, <2>6
<1> QED
  BY <1>2, <1>3

LEMMA TurnTracks == ASSUME FollowInv, ~Scraps, Turn PROVE Tracks'
<1>1. phase = "loop" /\ UNCHANGED sender /\ orderly' = orderly
  BY DEF Turn, sender
<1>2. CASE ~orderly
  BY <1>1, <1>2, NotOrderly
<1>3. CASE orderly
  <2>1. open /\ ~Over
    BY <1>1, <1>3, InLoop DEF FollowInv
  <2>2. cur \in Nat /\ Len(buf) \in Nat /\ cur <= Len(buf)
    BY <1>3, <2>1, Numbers DEF FollowInv, Tracks, Follows
  <2>3. stack[top].state \in States /\ newPart \in BOOLEAN
    BY DEF FollowInv, MessageInv, TypeOK
  <2>4. CASE cur >= Len(buf)
    <3>1. Continue(cur)
      BY <2>4 DEF Turn
    <3>2. PICK c : Path(c)
      BY <1>3, <2>1 DEF FollowInv, Tracks, Follows
    <3>3. cur \in cur..Len(buf) /\ cur = Len(buf) /\ c[cur] = Client /\ Seen(c[cur])
      BY <2>2, <2>4, <3>2 DEF Path
    <3>4. at = Where
      BY <3>3 DEF Seen, Client
    <3>5. Where # "done"
      BY <2>3 DEF Where, States
    <3>6. KeptFrom(cur) /\ CutLast
      BY <1>3, <2>1 DEF FollowInv, Tracks, Follows, TextKept
    <3>7. owed # <<>> => cur < Len(buf)
      BY <3>6 DEF CutLast
    <3>8. UNCHANGED <<session, parts, buf, sender>> /\ cur' = cur /\ phase' = "cont"
      BY <1>1, <3>1 DEF Continue
    <3>9. Same(c[cur], c[cur]) /\ at # "done"
      BY <3>4, <3>5 DEF Same
    <3> QED
      BY <1>3, <2>1, <3>2, <3>3, <3>6, <3>7, <3>8, <3>9, StayTracks
  <2>5. CASE ~(cur >= Len(buf))
    <3>1. cur < Len(buf)
      BY <2>2, <2>5
    <3>2. CASE newPart /\ Push
      BY <1>1, <1>3, <2>1, <3>1, <3>2, PushTracks
    <3>3. CASE ~newPart /\ stack[top].state = "fields" /\ FieldsParse
      BY <1>1, <1>3, <2>1, <3>1, <3>3, FieldsParseTracks
    <3>4. CASE ~newPart /\ stack[top].state = "body" /\ BodyParse
      BY <1>1, <1>3, <2>1, <3>1, <3>4, BodyParseTracks
    <3>5. CASE ~newPart /\ stack[top].state = "preamble" /\ PreambleParse
      BY <1>1, <1>3, <2>1, <3>1, <3>5, PreambleParseTracks
    <3>6. CASE ~newPart /\ stack[top].state = "epilogue" /\ EpilogueParse
      BY <1>1, <1>3, <2>1, <3>1, <3>6, EpilogueParseTracks
    <3>7. CASE Fail("refused")
      BY <3>7, FailTracks
    <3> QED
      BY <2>3, <2>5, <3>2, <3>3, <3>4, <3>5, <3>6, <3>7 DEF Turn, States
  <2> QED
    BY <2>4, <2>5
<1> QED
  BY <1>2, <1>3

-----------------------------------------------------------------------------
(***************************************************************************)
(* The other steps.                                                        *)
(***************************************************************************)
\* What has been read leaves the buffer.
LEMMA ReturnTracks ==
    ASSUME FollowInv, phase \in {"cont", "succ"}, cur <= Len(buf), UNCHANGED sender, Return(Rest)
    PROVE  Tracks'
<1>1. /\ buf' = Rest /\ cur' = 0 /\ phase' = "idle"
      /\ UNCHANGED <<open, why, message, last, stack, top, newPart, kept>>
      /\ UNCHANGED <<at, type, nested, text, owed, orderly>>
  BY DEF Return, session, parts, sender
<1>2. NoneLost' /\ Begins'
  BY <1>1 DEF FollowInv, Tracks, NoneLost, Begins
<1>3. ASSUME orderly, open, ~Over PROVE Follows'
  <2>1. cur \in Nat /\ Len(buf) \in Nat
    BY Numbers DEF FollowInv
  <2>2. /\ Len(Rest) = Len(buf) - cur /\ Len(Rest) \in Nat
        /\ \A j \in 1..Len(Rest) : cur + j \in 1..Len(buf) /\ Rest[j] = buf[cur + j]
    <3>1. /\ Rest \in Seq(Lines) /\ Len(Rest) = IF cur < Len(buf) THEN Len(buf) - cur ELSE 0
          /\ \A j \in 1..Len(Rest) : cur + j \in 1..Len(buf) /\ Rest[j] = buf[cur + j]
      BY RestOfBuffer DEF FollowInv, MessageInv
    <3>2. Len(Rest) = Len(buf) - cur
      BY <2>1, <3>1
    <3> QED
      BY <3>1, <3>2, LenProperties
  <2>3. PICK n : n = Len(Rest)
    OBVIOUS
  <2>4. PICK b : b = cur
    OBVIOUS
  <2>5. n \in Nat /\ b \in Nat /\ Len(buf) = b + n
    BY <2>1, <2>2, <2>3, <2>4
  <2>6. \A j \in 1..n : b + j \in 1..Len(buf) /\ Rest[j] = buf[b + j]
    BY <2>2, <2>3, <2>4
  <2>7. CutLast /\ TextKept
    BY <1>3 DEF FollowInv, Tracks, Follows
  <2>8. PICK c : Path(c)
    BY <1>3 DEF FollowInv, Tracks, Follows
  <2>9. at # "done"
    <3>1. CASE phase = "cont"
      BY <1>3, <3>1 DEF FollowInv, Tracks, Follows
    <3>2. CASE phase = "succ"
      <4>1. cur = Len(buf) /\ newPart
        BY <3>2 DEF FollowInv, MessageInv, EndInv
      <4>2. c[cur] = Client /\ Seen(c[cur])
        BY <2>8, <4>1 DEF Path
      <4> QED
        BY <4>1, <4>2 DEF Seen, Where, Client
    <3> QED
      BY <3>1, <3>2
  <2>10. CutLast'
    <3>1. \A j \in 1..n : IsWhole(Rest[j]) \/ (j = n /\ owed # <<>>)
      BY <2>5, <2>6, <2>7 DEF CutLast
    <3>2. owed # <<>> => /\ 0 < n /\ IsWhole(owed[1])
                         /\ Rest[n] = [owed[1] EXCEPT !.form = "head"]
      <4> SUFFICES ASSUME owed # <<>> PROVE /\ 0 < n /\ IsWhole(owed[1])
                                            /\ Rest[n] = [owed[1] EXCEPT !.form = "head"]
        OBVIOUS
      <4>1. cur < Len(buf) /\ IsWhole(owed[1]) /\ buf[Len(buf)] = [owed[1] EXCEPT !.form = "head"]
        BY <2>7 DEF CutLast
      <4>2. 0 < n /\ n \in 1..n
        BY <2>4, <2>5, <4>1
      <4> QED
        BY <2>5, <2>6, <4>1, <4>2
    <3> QED
      BY <1>1, <2>3, <3>1, <3>2 DEF CutLast, IsWhole
  <2>11. TextKept'
    <3>1. 0 < n => Rest[1] # Line("dot", None)
      <4> SUFFICES ASSUME 0 < n PROVE Rest[1] # Line("dot", None)
        OBVIOUS
      <4>1. 1 \in 1..n /\ cur < Len(buf)
        BY <2>4, <2>5
      <4> QED
        BY <2>4, <2>6, <2>7, <4>1 DEF TextKept, KeptFrom
    <3>2. (\A j \in 1..n : ~IsWhole(Rest[j])) => text = FALSE
      <4> SUFFICES ASSUME \A j \in 1..n : ~IsWhole(Rest[j]) PROVE text = FALSE
        OBVIOUS
      <4>1. ASSUME NEW m \in (cur + 1)..Len(buf) PROVE ~IsWhole(buf[m])
        <5>1. m - b \in 1..n /\ b + (m - b) = m
          BY <2>4, <2>5
        <5> QED
          BY <2>6, <5>1
      <4> QED
        BY <2>7, <4>1 DEF TextKept, KeptFrom
    <3>3. cur' = 0 /\ 0 + 1 = 1 /\ Len(buf') = n
      BY <1>1, <2>3
    <3> QED
      BY <1>1, <3>1, <3>2, <3>3 DEF TextKept, KeptFrom, IsWhole
  <2>12. PICK d : d = [m \in 0..n |-> c[b + m]]
    OBVIOUS
  <2>13. \A m \in 0..n : b + m \in cur..Len(buf) /\ d[m] = c[b + m] /\ d[m] \in Positions
    BY <2>4, <2>5, <2>8, <2>12 DEF Path
  <2>14. d \in [0..n -> Positions]
    BY <2>12, <2>13
  <2>15. Seen(d[0]) /\ d[n] = Client
    BY <2>4, <2>5, <2>8, <2>13 DEF Path
  <2>16. \A m \in 1..n : Reads(d[m - 1], Rest[m], d[m])
    <3> TAKE m \in 1..n
    <3>1. PICK q : q = b + m
      OBVIOUS
    <3>2. /\ q \in (cur + 1)..Len(buf) /\ q - 1 = b + (m - 1)
          /\ m - 1 \in 0..n /\ m \in 0..n
      BY <2>4, <2>5, <3>1
    <3>3. Reads(c[q - 1], buf[q], c[q])
      BY <2>8, <3>2 DEF Path
    <3>4. d[m - 1] = c[q - 1] /\ d[m] = c[q] /\ Rest[m] = buf[q]
      BY <2>6, <2>13, <3>1, <3>2
    <3> QED
      BY <3>3, <3>4
  <2>17. Seen(d[0])' /\ Client' = Client
    BY <1>1, <2>15 DEF Seen, Where, Declared, Around, Client
  <2>18. Path(d)'
    <3>1. cur' = 0 /\ Len(buf') = n /\ buf' = Rest /\ 0 + 1 = 1
      BY <1>1, <2>3
    <3> QED
      BY <2>14, <2>15, <2>16, <2>17, <3>1 DEF Path
  <2>19. cur' <= Len(buf')
    BY <1>1, <2>3, <2>5
  <2> QED
    BY <1>1, <2>9, <2>10, <2>11, <2>18, <2>19 DEF Follows
<1>4. ASSUME ~(orderly /\ open /\ ~Over) PROVE Follows'
  BY <1>1, <1>4 DEF Follows, Over
<1> QED
  BY <1>2, <1>3, <1>4 DEF Tracks

LEMMA FinishTracks == ASSUME FollowInv, Finish PROVE Tracks'
<1>1. UNCHANGED sender /\ orderly' = orderly
  BY DEF Finish, sender
<1>2. CASE ~orderly
  BY <1>1, <1>2, NotOrderly
<1>3. CASE orderly
  <2>1. cur \in Nat /\ buf \in Seq(Lines) /\ Len(buf) \in Nat
    BY LenProperties DEF FollowInv, MessageInv, TypeOK
  <2>2. open
    BY DEF Finish, FollowInv, MessageInv, EndInv
  <2>3. phase = "cont" => ~Over /\ cur <= Len(buf) /\ at # "done"
    BY <1>3, <2>2, InLoop DEF FollowInv, Tracks, Follows
  <2>4. phase = "succ" => cur <= Len(buf)
    BY <2>1 DEF FollowInv, MessageInv, EndInv
  <2>5. ~(phase = "cont" /\ Corrupt)
    <3> SUFFICES ASSUME phase = "cont", Corrupt PROVE FALSE
      OBVIOUS
    <3>1. \E j \in 1..Len(buf) : buf[j] = Line("dot", None)
      <4>1. CASE EndOfMessage(buf)
        <5>1. Len(buf) \in 1..Len(buf) /\ buf[Len(buf)] = Line("dot", None)
          BY <2>1, <4>1 DEF EndOfMessage, Last
        <5> QED
          BY <5>1
      <4>2. CASE buf = <<Line("dot", None)>>
        <5>1. Len(buf) = 1 /\ buf[1] = Line("dot", None)
          BY <4>2
        <5>2. 1 \in 1..Len(buf)
          BY <5>1
        <5> QED
          BY <5>1, <5>2
      <4> QED
        BY <4>1, <4>2 DEF Corrupt
    <3> QED
      BY <1>3, <2>2, <2>3, <3>1 DEF FollowInv, MessageInv, EndInv
  <2>6. phase \in {"cont", "succ"} /\ Sync
    BY <2>5 DEF Finish
  <2>7. ~(cur > Len(buf)) /\ cur <= Len(buf)
    BY <2>1, <2>3, <2>4, <2>6
  <2>8. Return(Rest)
    BY <2>6, <2>7 DEF Sync
  <2> QED
    BY <1>1, <2>6, <2>7, <2>8, ReturnTracks
<1> QED
  BY <1>2, <1>3

\* One more line, or the beginning of one, is in the buffer.
LEMMA AppendTracks ==
    ASSUME FollowInv, orderly, open, phase \in {"idle", "filling"}, owed = <<>>,
           NEW l \in Lines, l.form # "tail", Arrives(l),
           Client' \in Positions, Reads(Client, l, Client'),
           IsWhole(l) \/ (/\ owed' # <<>> /\ IsWhole(owed'[1])
                          /\ l = [owed'[1] EXCEPT !.form = "head"]),
           IsWhole(l) => owed' = <<>>,
           ~IsWhole(l) => text' = text,
           l = Line("dot", None) => text = TRUE
    PROVE  Tracks'
<1>1. /\ buf' = Append(buf, l) /\ phase' = "filling"
      /\ UNCHANGED <<open, why, message, last, stack, top, newPart, cur, kept>>
  BY DEF Arrives, Joined, session, parts
<1>2. cur = 0
  BY DEF FollowInv, Tracks, Begins
<1>3. NoneLost' /\ Begins'
  BY <1>1, <1>2 DEF FollowInv, Tracks, NoneLost, Begins
<1>4. ASSUME ~Over PROVE Follows'
  <2>1. PICK n : n = Len(buf)
    OBVIOUS
  <2>2. buf \in Seq(Lines) /\ n \in Nat
    BY <2>1, LenProperties DEF FollowInv, MessageInv, TypeOK
  <2>3. /\ Len(buf') = n + 1 /\ buf'[n + 1] = l /\ \A j \in 1..n : buf'[j] = buf[j]
    BY <1>1, <2>1, <2>2, AppendProperties
  <2>4. CutLast /\ TextKept
    BY <1>4 DEF FollowInv, Tracks, Follows
  <2>5. PICK c : Path(c)
    BY <1>4 DEF FollowInv, Tracks, Follows
  <2>6. \A j \in 1..n : IsWhole(buf[j])
    BY <2>1, <2>4 DEF CutLast
  <2>7. CutLast'
    <3>1. \A j \in 1..(n + 1) : j \in 1..n \/ j = n + 1
      BY <2>2
    <3>2. \A j \in 1..(n + 1) : IsWhole(buf'[j]) \/ (j = n + 1 /\ owed' # <<>>)
      BY <2>3, <2>6, <3>1
    <3>3. owed' # <<>> => /\ 0 < n + 1 /\ IsWhole(owed'[1])
                          /\ buf'[n + 1] = [owed'[1] EXCEPT !.form = "head"]
      BY <2>2, <2>3
    <3> QED
      BY <1>1, <1>2, <2>3, <3>2, <3>3 DEF CutLast, IsWhole
  <2>8. TextKept'
    <3>1. buf'[1] # Line("dot", None)
      <4>1. CASE n = 0
        <5>1. text = FALSE
          <6>1. \A j \in (cur + 1)..Len(buf) : ~IsWhole(buf[j])
            BY <1>2, <2>1, <4>1
          <6> QED
            BY <2>4, <6>1 DEF TextKept, KeptFrom
        <5> QED
          BY <2>3, <4>1, <5>1
      <4>2. CASE n # 0
        <5>1. 1 \in 1..n /\ cur < Len(buf)
          BY <1>2, <2>1, <2>2, <4>2
        <5> QED
          BY <1>2, <2>3, <2>4, <5>1 DEF TextKept, KeptFrom
      <4> QED
        BY <4>1, <4>2
    <3>2. (\A j \in 1..(n + 1) : ~IsWhole(buf'[j])) => text' = FALSE
      <4> SUFFICES ASSUME \A j \in 1..(n + 1) : ~IsWhole(buf'[j]) PROVE text' = FALSE
        OBVIOUS
      <4>1. n + 1 \in 1..(n + 1) /\ 1..n \subseteq 1..(n + 1)
        BY <2>2
      <4>2. ~IsWhole(l)
        BY <2>3, <4>1
      <4>3. \A j \in (cur + 1)..Len(buf) : ~IsWhole(buf[j])
        BY <1>2, <2>1, <2>3, <4>1
      <4>4. text = FALSE
        BY <2>4, <4>3 DEF TextKept, KeptFrom
      <4> QED
        BY <4>2, <4>4
    <3>3. cur' = 0 /\ 0 + 1 = 1 /\ Len(buf') = n + 1
      BY <1>1, <1>2, <2>3
    <3> QED
      BY <3>1, <3>2, <3>3 DEF TextKept, KeptFrom, IsWhole
  <2>9. PICK x : x = Client'
    OBVIOUS
  <2>10. PICK d : d = [m \in 0..(n + 1) |-> IF m = n + 1 THEN x ELSE c[m]]
    OBVIOUS
  <2>11. /\ \A m \in 0..n : d[m] = c[m] /\ c[m] \in Positions
         /\ d[n + 1] = x
    BY <1>2, <2>1, <2>2, <2>5, <2>10 DEF Path
  <2>12. d \in [0..(n + 1) -> Positions]
    <3>1. x \in Positions
      BY <2>9
    <3>2. \A m \in 0..(n + 1) : m \in 0..n \/ m = n + 1
      BY <2>2
    <3>3. \A m \in 0..(n + 1) : d[m] \in Positions
      BY <2>11, <3>1, <3>2
    <3> QED
      BY <2>10, <3>3
  <2>13. Seen(d[0]) /\ d[n] = Client
    BY <1>2, <2>1, <2>2, <2>5, <2>11 DEF Path
  <2>14. \A m \in 1..(n + 1) : Reads(d[m - 1], buf'[m], d[m])
    <3> TAKE m \in 1..(n + 1)
    <3>1. CASE m = n + 1
      <4>1. m - 1 = n
        BY <2>2, <3>1
      <4>2. Reads(d[n], buf'[n + 1], d[n + 1])
        BY <2>3, <2>9, <2>11, <2>13
      <4> QED
        BY <3>1, <4>1, <4>2
    <3>2. CASE m # n + 1
      <4>1. m \in 1..n /\ m \in 0..n /\ m - 1 \in 0..n /\ m \in (cur + 1)..Len(buf)
        BY <1>2, <2>1, <2>2, <3>2
      <4>2. Reads(c[m - 1], buf[m], c[m])
        BY <2>5, <4>1 DEF Path
      <4> QED
        BY <2>3, <2>11, <4>1, <4>2
    <3> QED
      BY <3>1, <3>2
  <2>15. Seen(d[0])'
    BY <1>1, <2>13 DEF Seen, Where, Declared, Around
  <2>16. Path(d)'
    <3>1. cur' = 0 /\ 0 + 1 = 1 /\ Len(buf') = n + 1
      BY <1>1, <1>2, <2>3
    <3> QED
      BY <2>9, <2>11, <2>12, <2>14, <2>15, <3>1 DEF Path
  <2>17. cur' <= Len(buf')
    BY <1>1, <1>2, <2>2, <2>3
  <2> QED
    BY <1>1, <2>7, <2>8, <2>16, <2>17 DEF Follows
<1>5. ASSUME Over PROVE Follows'
  BY <1>1, <1>5 DEF Follows, Over
<1> QED
  BY <1>3, <1>4, <1>5 DEF Tracks

\* A path ends where the client is.
LEMMA ClientPlace ==
    ASSUME FollowInv, orderly, open, ~Over
    PROVE  Client \in Positions
<1>1. cur \in Nat /\ Len(buf) \in Nat /\ cur <= Len(buf)
  BY Numbers DEF FollowInv, Tracks, Follows
<1>2. PICK c : Path(c)
  BY DEF FollowInv, Tracks, Follows
<1>3. Len(buf) \in cur..Len(buf)
  BY <1>1
<1> QED
  BY <1>2, <1>3 DEF Path

LEMMA SendLineTracks == ASSUME FollowInv, SendLine PROVE Tracks'
<1>1. CASE ~orderly'
  BY <1>1, NotOrderly
<1>2. CASE orderly'
  <2>1. /\ open /\ message /\ phase \in {"idle", "filling"} /\ at # "done" /\ owed = <<>>
    BY DEF SendLine
  <2>2. PICK l \in AnyLine \cup LegalLines :
          \/ /\ SenderMoves(l) /\ Arrives(l) /\ owed' = <<>>
             /\ orderly' = (orderly /\ Followed(l))
          \/ \E f \in {"head", "bare"} :
               /\ Arrives([l EXCEPT !.form = f]) /\ owed' = <<l>>
               /\ orderly' = (orderly /\ f = "head")
               /\ UNCHANGED <<at, type, nested, text>>
    BY DEF SendLine
  <2>3. l \in Lines /\ Bounded(l) /\ l.form = "whole"
    BY LineSent DEF FollowInv
  <2>4. orderly
    BY <1>2, <2>2
  <2>5. ~Over /\ Client \in Positions
    <3>1. ~Over
      BY <2>1, <2>4 DEF FollowInv, MessageInv, EndInv, Over
    <3> QED
      BY <2>1, <2>4, <3>1, ClientPlace
  <2>6. CASE /\ SenderMoves(l) /\ Arrives(l) /\ owed' = <<>>
             /\ orderly' = (orderly /\ Followed(l))
    <3>1. Followed(l)
      BY <1>2, <2>6
    <3>2. Client' \in Positions /\ Reads(Client, l, Client')
      BY <2>3, <2>5, <2>6, <3>1, ClientReads DEF FollowInv
    <3>3. l = Line("dot", None) => text = TRUE
      <4>1. text \in BOOLEAN
        BY DEF FollowInv, MessageInv, TypeOK
      <4> QED
        BY <3>1, <4>1 DEF Followed, Line
    <3>4. IsWhole(l) /\ l.form # "tail"
      BY <2>3 DEF IsWhole
    <3> QED
      BY <2>1, <2>3, <2>4, <2>6, <3>2, <3>3, <3>4, AppendTracks
  <2>7. ASSUME NEW f \in {"head", "bare"}, Arrives([l EXCEPT !.form = f]), owed' = <<l>>,
               orderly' = (orderly /\ f = "head"), UNCHANGED <<at, type, nested, text>>
        PROVE  Tracks'
    <3>1. f = "head"
      BY <1>2, <2>7
    <3>2. PICK h : h = [l EXCEPT !.form = "head"]
      OBVIOUS
    <3>3. h \in Lines /\ h.form = "head"
      BY <2>3, <3>2 DEF Lines, Forms
    <3>4. ~IsWhole(h) /\ h # Line("dot", None)
      BY <3>3 DEF IsWhole, Line
    <3>5. Client' = Client
      BY <2>7 DEF Client
    <3>6. Client' \in Positions /\ Reads(Client, h, Client')
      BY <2>5, <3>3, <3>5 DEF Reads
    <3>7. owed' # <<>> /\ owed'[1] = l /\ IsWhole(owed'[1])
      BY <2>3, <2>7 DEF IsWhole
    <3>8. h = [owed'[1] EXCEPT !.form = "head"]
      BY <3>2, <3>7
    <3>9. Arrives(h) /\ text' = text
      BY <2>7, <3>1, <3>2
    <3> QED
      BY <2>1, <2>4, <3>3, <3>4, <3>6, <3>7, <3>8, <3>9, AppendTracks
  <2> QED
    BY <2>2, <2>6, <2>7
<1> QED
  BY <1>1, <1>2

\* The rest of the last line of the buffer arrives.
LEMMA SendRestTracks == ASSUME FollowInv, SendRest PROVE Tracks'
<1>1. CASE ~orderly'
  BY <1>1, NotOrderly
<1>2. CASE orderly'
  <2>1. PICK l : l = owed[1]
    OBVIOUS
  <2>2. /\ open /\ message /\ phase = "idle" /\ owed # <<>> /\ owed' = <<>>
        /\ SenderMoves(l) /\ orderly /\ Followed(l) /\ Arrives([l EXCEPT !.form = "tail"])
    BY <1>2, <2>1 DEF SendRest
  <2>3. l \in Lines /\ Bounded(l)
    BY <2>1, <2>2, EmptySeq, ElementOfSeq DEF FollowInv, MessageInv, TypeOK, LinesInv
  <2>4. ~Over
    BY <2>2 DEF FollowInv, MessageInv, EndInv, Over
  <2>5. Client \in Positions
    BY <2>2, <2>4, ClientPlace
  <2>6. CutLast /\ TextKept /\ cur = 0
    BY <2>2, <2>4 DEF FollowInv, Tracks, Follows, Begins
  <2>7. PICK n : n = Len(buf)
    OBVIOUS
  <2>8. /\ buf \in Seq(Lines) /\ n \in Nat /\ 0 < n /\ n \in 1..n /\ l.form = "whole"
        /\ buf[n] = [l EXCEPT !.form = "head"] /\ \A j \in 1..n : IsWhole(buf[j]) \/ j = n
    BY <2>1, <2>2, <2>6, <2>7, LenProperties DEF FollowInv, MessageInv, TypeOK, CutLast, IsWhole
  <2>9. buf[n].form = "head"
    BY <2>3, <2>8 DEF Lines
  <2>10. Client' \in Positions /\ Reads(Client, l, Client')
    BY <2>2, <2>3, <2>5, <2>8, ClientReads DEF FollowInv
  <2>11. /\ buf' = Append(Front(buf), l) /\ phase' = "filling"
         /\ UNCHANGED <<open, why, message, last, stack, top, newPart, cur, kept>>
    <3>1. [l EXCEPT !.form = "tail"].form = "tail"
      BY <2>3 DEF Lines
    <3>2. buf # <<>> /\ ~IsWhole(Last(buf))
      BY <2>7, <2>8, <2>9, EmptySeq DEF IsWhole, Last
    <3>3. [[l EXCEPT !.form = "tail"] EXCEPT !.form = "whole"] = l
      BY <2>3, <2>8 DEF Lines
    <3> QED
      BY <2>2, <3>1, <3>2, <3>3 DEF Arrives, Joined, session, parts
  <2>12. /\ Len(buf') = n /\ buf'[n] = l /\ \A j \in 1..(n - 1) : buf'[j] = buf[j]
    <3>1. \A j \in 1..(n - 1) : buf[j] \in Lines
      BY <2>7, <2>8, ElementOfSeq
    <3>2. /\ SubSeq(buf, 1, n - 1) \in Seq(Lines)
          /\ Len(SubSeq(buf, 1, n - 1)) = n - 1
          /\ \A j \in 1..(n - 1) : SubSeq(buf, 1, n - 1)[j] = buf[j]
      <4>1. /\ SubSeq(buf, 1, n - 1) \in Seq(Lines)
            /\ Len(SubSeq(buf, 1, n - 1)) = IF 1 <= n - 1 THEN n - 1 - 1 + 1 ELSE 0
            /\ \A j \in 1..(n - 1 - 1 + 1) : SubSeq(buf, 1, n - 1)[j] = buf[1 + j - 1]
        BY <2>8, <3>1, SubSeqProperties
      <4> QED
        BY <2>8, <4>1
    <3>3. Front(buf) = SubSeq(buf, 1, n - 1)
      BY <2>7 DEF Front
    <3>4. /\ Len(Append(Front(buf), l)) = n - 1 + 1
          /\ \A j \in 1..(n - 1) : Append(Front(buf), l)[j] = Front(buf)[j]
          /\ Append(Front(buf), l)[n - 1 + 1] = l
      BY <2>3, <3>2, <3>3, AppendProperties
    <3>5. n - 1 + 1 = n
      BY <2>8
    <3> QED
      BY <2>11, <3>2, <3>3, <3>4, <3>5
  <2>13. CutLast'
    <3>1. \A j \in 1..n : IsWhole(buf'[j])
      <4> TAKE j \in 1..n
      <4>1. j \in 1..(n - 1) \/ j = n
        BY <2>8
      <4>2. CASE j = n
        BY <2>8, <2>12, <4>2 DEF IsWhole
      <4>3. CASE j \in 1..(n - 1)
        <5>1. j # n
          BY <2>8, <4>3
        <5> QED
          BY <2>8, <2>12, <4>3, <5>1
      <4> QED
        BY <4>1, <4>2, <4>3
    <3> QED
      BY <2>2, <2>12, <3>1 DEF CutLast, IsWhole
  <2>14. TextKept'
    <3>1. buf'[1] # Line("dot", None)
      <4>1. CASE n = 1
        <5>1. \A j \in (cur + 1)..Len(buf) : ~IsWhole(buf[j])
          BY <2>6, <2>7, <2>9, <4>1 DEF IsWhole
        <5>2. text = FALSE
          BY <2>6, <5>1 DEF TextKept, KeptFrom
        <5> QED
          BY <2>2, <2>12, <4>1, <5>2 DEF Followed, Line
      <4>2. CASE n # 1
        <5>1. 1 \in 1..(n - 1) /\ cur < Len(buf) /\ cur + 1 = 1
          BY <2>6, <2>7, <2>8, <4>2
        <5> QED
          BY <2>6, <2>12, <5>1 DEF TextKept, KeptFrom
      <4> QED
        BY <4>1, <4>2
    <3>2. IsWhole(buf'[n])
      BY <2>8, <2>12 DEF IsWhole
    <3>3. cur' = 0 /\ 0 + 1 = 1 /\ Len(buf') = n
      BY <2>6, <2>11, <2>12
    <3> QED
      BY <2>8, <3>1, <3>2, <3>3 DEF TextKept, KeptFrom, IsWhole
  <2>15. PICK c : Path(c)
    BY <2>2, <2>4 DEF FollowInv, Tracks, Follows
  <2>16. PICK x : x = Client'
    OBVIOUS
  <2>17. PICK d : d = [m \in 0..n |-> IF m = n THEN x ELSE c[m]]
    OBVIOUS
  <2>18. /\ \A m \in 0..(n - 1) : d[m] = c[m] /\ c[m] \in Positions
         /\ d[n] = x
    <3>1. \A m \in 0..(n - 1) : m \in 0..n /\ m # n
      BY <2>8
    <3>2. \A m \in 0..n : c[m] \in Positions
      BY <2>6, <2>7, <2>15 DEF Path
    <3>3. n \in 0..n
      BY <2>8
    <3> QED
      BY <2>17, <3>1, <3>2, <3>3
  <2>19. d \in [0..n -> Positions]
    <3>1. x \in Positions
      BY <2>10, <2>16
    <3>2. \A m \in 0..n : m \in 0..(n - 1) \/ m = n
      BY <2>8
    <3>3. \A m \in 0..n : d[m] \in Positions
      BY <2>18, <3>1, <3>2
    <3> QED
      BY <2>17, <3>3
  <2>20. d[n - 1] = Client
    <3>1. n \in (cur + 1)..Len(buf)
      BY <2>6, <2>7, <2>8
    <3>2. Reads(c[n - 1], buf[n], c[n]) /\ c[n] = Client
      BY <2>7, <2>15, <3>1 DEF Path
    <3>3. n - 1 \in 0..(n - 1)
      BY <2>8
    <3> QED
      BY <2>9, <2>18, <3>2, <3>3 DEF Reads
  <2>21. \A m \in 1..n : Reads(d[m - 1], buf'[m], d[m])
    <3> TAKE m \in 1..n
    <3>1. CASE m = n
      BY <2>10, <2>12, <2>16, <2>18, <2>20, <3>1
    <3>2. CASE m # n
      <4>1. m \in 1..(n - 1) /\ m \in 0..(n - 1) /\ m - 1 \in 0..(n - 1) /\ m \in (cur + 1)..Len(buf)
        BY <2>6, <2>7, <2>8, <3>2
      <4>2. Reads(c[m - 1], buf[m], c[m])
        BY <2>15, <4>1 DEF Path
      <4> QED
        BY <2>12, <2>18, <4>1, <4>2
    <3> QED
      BY <3>1, <3>2
  <2>22. Seen(d[0])'
    <3>1. 0 \in 0..(n - 1)
      BY <2>8
    <3>2. Seen(d[0])
      BY <2>6, <2>15, <2>18, <3>1 DEF Path
    <3> QED
      BY <2>11, <3>2 DEF Seen, Where, Declared, Around
  <2>23. Path(d)'
    <3>1. cur' = 0 /\ 0 + 1 = 1 /\ Len(buf') = n
      BY <2>6, <2>11, <2>12
    <3> QED
      BY <2>16, <2>18, <2>19, <2>21, <2>22, <3>1 DEF Path
  <2>24. cur' <= Len(buf')
    BY <2>6, <2>8, <2>11, <2>12
  <2>25. Follows'
    BY <2>11, <2>13, <2>14, <2>23, <2>24 DEF Follows
  <2>26. NoneLost' /\ Begins'
    BY <2>2, <2>6, <2>11 DEF FollowInv, Tracks, NoneLost, Begins
  <2> QED
    BY <2>25, <2>26 DEF Tracks
<1> QED
  BY <1>1, <1>2

LEMMA SegmentTracks == ASSUME FollowInv, Segment PROVE Tracks'
<1>1. /\ phase' = "loop"
      /\ UNCHANGED <<open, why, message, last, stack, top, newPart, buf, cur, kept>>
      /\ UNCHANGED <<at, type, nested, text, owed, orderly>>
  BY DEF Segment, session, parts, sender
<1> QED
  BY <1>1 DEF FollowInv, Tracks, Follows, NoneLost, Begins, Over, CutLast, TextKept, KeptFrom,
              Path, Seen, Where, Declared, Around, Client

LEMMA MessageAcceptedTracks == ASSUME FollowInv, MessageAccepted PROVE Tracks'
<1>1. /\ message' = FALSE
      /\ UNCHANGED <<open, why, last, stack, top, newPart, buf, cur, kept, phase>>
      /\ UNCHANGED <<at, type, nested, text, owed, orderly>>
  BY DEF MessageAccepted, parts, sender
<1> QED
  BY <1>1 DEF FollowInv, Tracks, Follows, NoneLost, Begins, Over

\* A message begins where the last one has left the stack.
LEMMA DataGrantedTracks == ASSUME FollowInv, DataGranted PROVE Tracks'
<1>1. /\ open /\ phase = "idle" /\ ~message /\ message' = TRUE /\ last' = "DATA" /\ owed = <<>>
      /\ at' = "header" /\ type' = "none" /\ nested' = <<>> /\ text' = FALSE
      /\ UNCHANGED <<open, why, stack, top, newPart, buf, cur, kept, phase, owed, orderly>>
  BY DEF DataGranted, parts
<1>2. CASE ~orderly'
  BY <1>2, NotOrderly
<1>3. CASE orderly'
  <2>1. /\ orderly /\ top = 0 /\ newPart /\ buf = <<>> /\ cur = 0
    BY <1>1, <1>3 DEF FollowInv, MessageInv, EndInv, Over, Tracks, Begins
  <2>2. Len(buf) = 0 /\ Len(<<>>) = 0 /\ <<>> \in Seq(Boundaries)
    BY <2>1, EmptySeq
  <2>3. Client' \in Positions
    <3>1. Len(nested') + 2 <= MaxDepth /\ nested' \in Seq(Boundaries)
      BY <1>1, <2>2
    <3> QED
      BY <1>1, <3>1, ClientAt DEF Pieces, None
  <2>4. PICK d : d = [m \in 0..0 |-> Client']
    OBVIOUS
  <2>5. d[0] = Client' /\ d \in [0..0 -> Positions]
    BY <2>3, <2>4
  <2>6. Seen(d[0])'
    <3>1. Where' = "header" /\ Declared' = "none" /\ Around' = 0
      BY <1>1, <2>1 DEF Where, Declared, Around
    <3>2. Bounds(stack', 0) = <<>>
      BY BoundsNone
    <3>3. Client'.at = "header" /\ Client'.type = "none" /\ Client'.nested = <<>>
      BY <1>1 DEF Client
    <3> QED
      BY <2>5, <3>1, <3>2, <3>3 DEF Seen
  <2>7. buf' = <<>> /\ cur' = 0 /\ Len(buf') = 0
    BY <1>1, <2>1, <2>2
  <2>8. Path(d)'
    <3>1. \A m \in (0 + 1)..0 : FALSE
      OBVIOUS
    <3> QED
      BY <2>5, <2>6, <2>7, <3>1 DEF Path
  <2>9. CutLast' /\ TextKept'
    BY <1>1, <2>7 DEF CutLast, TextKept, KeptFrom
  <2>10. Follows'
    BY <1>1, <2>7, <2>8, <2>9 DEF Follows
  <2> QED
    BY <1>1, <2>7, <2>10 DEF FollowInv, Tracks, NoneLost, Begins
<1> QED
  BY <1>2, <1>3

LEMMA StepTracks == ASSUME FollowInv, ~Scraps, [Next]_vars PROVE Tracks'
<1>1. CASE SendLine
  BY <1>1, SendLineTracks
<1>2. CASE SendRest
  BY <1>2, SendRestTracks
<1>3. CASE Segment
  BY <1>3, SegmentTracks
<1>4. CASE Turn
  BY <1>4, TurnTracks
<1>5. CASE Finish
  BY <1>5, FinishTracks
<1>6. CASE MessageAccepted
  BY <1>6, MessageAcceptedTracks
<1>7. CASE DataGranted
  BY <1>7, DataGrantedTracks
<1>8. CASE Teardown
  BY <1>8, FailTracks DEF Teardown
<1>9. CASE UNCHANGED vars
  <2>1. /\ UNCHANGED <<open, why, message, last, stack, top, newPart, buf, cur, kept, phase>>
        /\ UNCHANGED <<at, type, nested, text, owed, orderly>>
    BY <1>9 DEF vars, tracker, session, parts, sender
  <2> QED
    BY <2>1 DEF FollowInv, Tracks, Follows, NoneLost, Begins, Over, CutLast, TextKept, KeptFrom,
                Path, Seen, Where, Declared, Around, Client
<1> QED
  BY <1>1, <1>2, <1>3, <1>4, <1>5, <1>6, <1>7, <1>8, <1>9 DEF Next, Parse

LEMMA FollowInvariant == ASSUME ~Scraps PROVE Spec => []FollowInv
<1>1. Init => FollowInv
  <2> SUFFICES ASSUME Init PROVE FollowInv
    OBVIOUS
  <2>1. MessageInv
    BY InitKeeps
  <2>2. Tracks
    BY DEF Init, Tracks, Follows, NoneLost, Begins, Over
  <2> QED
    BY <2>1, <2>2 DEF FollowInv
<1>2. FollowInv /\ [Next]_vars => FollowInv'
  <2> SUFFICES ASSUME FollowInv, [Next]_vars PROVE FollowInv'
    OBVIOUS
  <2>1. MessageInv'
    BY StepKeeps DEF FollowInv
  <2>2. Tracks'
    BY StepTracks
  <2> QED
    BY <2>1, <2>2 DEF FollowInv
<1> QED
  BY <1>1, <1>2, PTL DEF Spec

-----------------------------------------------------------------------------
\* When a segment has been read, the multiparts on part_stack (message.re) are
\* those the client has open: no line of a message of nested parts is taken for a
\* line of another part.  The hypothesis leaves out the segments that end with less
\* of a piece than its boundary is long, orderly the messages the tracker does
\* not follow (Followed) and those in which a close delimiter is cut bare.
THEOREM MessageFollowed == ASSUME ~Scraps PROVE Spec => []OpenParts
<1>1. FollowInv => OpenParts
  <2> SUFFICES ASSUME FollowInv, orderly, Settled PROVE Open = nested
    BY DEF OpenParts
  <2>1. open /\ ~Over /\ phase = "idle" /\ \A j \in 1..Len(buf) : Quiet(buf[j])
    BY DEF Settled, Over, Quiet
  <2>2. PICK c : Path(c)
    BY <2>1 DEF FollowInv, Tracks, Follows
  <2>3. cur = 0 /\ Len(buf) \in Nat
    BY <2>1, Numbers DEF FollowInv, Tracks, Begins
  <2>4. \A m \in cur..Len(buf) : Same(c[m], c[cur])
    <3>1. Len(buf) \in cur..Len(buf) /\ (cur + 1)..Len(buf) = 1..Len(buf)
      BY <2>3
    <3> QED
      BY <2>1, <2>2, <3>1, QuietPath DEF FollowInv
  <2>5. c[Len(buf)] = Client /\ c[cur].nested = Bounds(stack, Around)
    BY <2>2 DEF Path, Seen
  <2>6. c[cur].nested = nested
    BY <2>3, <2>4, <2>5 DEF Same, Client
  <2> QED
    BY <2>5, <2>6 DEF Open, Bounds, Around
<1> QED
  BY <1>1, FollowInvariant, PTL

\* A message the tracker follows ends for it when it ends for the client: the end
\* is found behind whatever parts there were, it is not found before, and the
\* session is neither closed for a corrupt message nor lost to a parser.  Of the
\* legal messages Followed leaves out (an empty body, a full stop right behind a
\* close delimiter, a part without a Content-Type, too deep a nesting) nothing is
\* said: the test of message.re:2094 closes the first two.
THEOREM MessageEndSeen == ASSUME ~Scraps PROVE Spec => []EndSeen
<1>1. FollowInv => EndSeen
  BY DEF FollowInv, Tracks, Follows, NoneLost, EndSeen, Over
<1> QED
  BY <1>1, FollowInvariant, PTL
=============================================================================

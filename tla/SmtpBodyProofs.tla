---------------------------- MODULE SmtpBodyProofs ----------------------------
(***************************************************************************)
(* The decoders of SmtpBody, for bodies of every length in any characters  *)
(* and pieces: the memory they touch (how far a run of literal characters  *)
(* reaches, what base64 writes), and that what they decode is what the     *)
(* client encoded, as long as no piece ends inside a code.                 *)
(***************************************************************************)
EXTENDS SmtpBody, SequenceTheorems, FiniteSetTheorems, WellFoundedInduction, TLAPS

QpStates == {"normal", "cr", "coded", "out"}

\* The indices of a call.
CallInv ==
    /\ mechanism \in Mechanisms /\ state \in States
    /\ piece \in Seq(0..127) /\ sent \in Seq(0..127) /\ cur \in 0..Len(piece) /\ start \in 0..cur /\ count \in Nat
    /\ state \in {"normal", "cr", "coded", "out"} => mechanism = "quoted-printable"
    /\ state = "base64" => mechanism = "base64"
    /\ state = "binary" => mechanism = "binary"
    /\ state \in {"base64", "binary"} => start = 0 /\ count = 0
    /\ state = "coded" => cur < Len(piece)

\* The run ends where the reader stands, or one character on: behind "=" and
\* one character that end the piece.
RunInv ==
    state \in QpStates =>
      \/ start + count <= cur
      \/ /\ start + count = cur + 1 /\ cur + 1 >= Len(piece)
         /\ Len(piece) >= 2 /\ piece[Len(piece) - 1] = EQ

\* Where "=" was read.
CodeInv == state = "coded" => Char(cur) = EQ

LEMMA LengthOfPiece == CallInv => Len(piece) \in Nat
BY LenProperties DEF CallInv

LEMMA WriteEffect ==
    ASSUME NEW val, NEW n, NEW next, Write(val, n, next)
    PROVE  /\ state' \in {next, "idle"} /\ count' = n
           /\ UNCHANGED <<mechanism, piece, chunk, stream, sent>>
BY DEF Write

LEMMA PiecesType ==
    ASSUME mechanism \in Mechanisms, NEW k \in Int,
           NEW p \in SeqOf(Characters[mechanism], k)
    PROVE  p \in Seq(0..127)
<1>1. PICK m \in 0..k : p \in [1..m -> Characters[mechanism]]
  BY DEF SeqOf
<1>2. Characters[mechanism] \subseteq 0..127
  BY CharactersAssumption
<1>3. m \in Nat
  BY <1>1
<1>4. \A i \in 1..m : p[i] \in 0..127
  BY <1>1, <1>2
<1>5. p \in [1..m -> 0..127]
  BY <1>1, <1>4
<1> QED
  BY <1>3, <1>5, SeqDef

Runs == CallInv /\ RunInv /\ CodeInv

LEMMA RunsAtFirst == Init => Runs
<1> SUFFICES ASSUME Init PROVE Runs
  OBVIOUS
<1>1. <<>> \in Seq(0..127) /\ Len(<<>>) = 0
  BY EmptySeq
<1> QED
  BY <1>1 DEF Init, Runs, CallInv, RunInv, CodeInv, States, QpStates

LEMMA BodyParseRuns == ASSUME Runs, BodyParse PROVE Runs'
<1>1. PICK p \in SeqOf(Characters[mechanism], MaxSent[mechanism] - Len(sent)) \ {<<>>} :
         piece' = p /\ sent' = sent \o p /\ \E s \in Allocated(Len(p)) :
                          state' = (IF s.ok THEN Entry(mechanism) ELSE "idle")
  BY DEF BodyParse
<1>2. p \in Seq(0..127)
  <2>1. MaxSent[mechanism] - Len(sent) \in Int
    BY MaxSentAssumption, LenProperties DEF Runs, CallInv
  <2> QED
    BY <1>1, <2>1, PiecesType DEF Runs, CallInv
<1>3. state' \in {"idle", Entry(mechanism)}
  BY <1>1
<1>4. cur' = 0 /\ start' = 0 /\ count' = 0 /\ mechanism' = mechanism
  BY DEF BodyParse
<1>6. sent' \in Seq(0..127)
  BY <1>1, <1>2, ConcatProperties DEF Runs, CallInv
<1>5. Len(p) \in Nat /\ Len(p) > 0
  BY <1>1, <1>2, LenProperties, EmptySeq
<1> QED
  BY <1>1, <1>2, <1>3, <1>4, <1>5, <1>6
  DEF Runs, CallInv, RunInv, CodeInv, Entry, Mechanisms, States, QpStates

\* What a run's end does to the invariant: the next run begins behind the
\* characters read, or is the character that was read last.
LEMMA WriteRuns ==
    ASSUME Runs, mechanism = "quoted-printable", NEW val, NEW n \in {0, 1},
           NEW next \in {"normal", "out"}, Write(val, n, next),
           cur' \in cur..Len(piece), start' \in 0..cur',
           \/ start' + n <= cur'
           \/ /\ n = 1 /\ start' = cur' /\ cur' + 1 = Len(piece)
              /\ Len(piece) >= 2 /\ piece[Len(piece) - 1] = EQ
    PROVE  Runs'
<1>1. /\ state' \in {next, "idle"} /\ count' = n /\ mechanism' = mechanism
      /\ piece' = piece /\ sent' = sent
  BY WriteEffect
<1>2. Len(piece) \in Nat
  BY LengthOfPiece DEF Runs
<1>3. CallInv'
  BY <1>1, <1>2 DEF Runs, CallInv, Mechanisms, States
<1>4. RunInv'
  <2>1. CASE start' + n <= cur'
    BY <1>1, <2>1 DEF RunInv
  <2>2. CASE /\ n = 1 /\ start' = cur' /\ cur' + 1 = Len(piece)
             /\ Len(piece) >= 2 /\ piece[Len(piece) - 1] = EQ
    <3>1. start' + count' = cur' + 1 /\ cur' + 1 >= Len(piece')
      BY <1>1, <1>2, <2>2 DEF Runs, CallInv
    <3> QED
      BY <1>1, <1>2, <2>2, <3>1 DEF RunInv
  <2> QED
    BY <2>1, <2>2
<1>5. CodeInv'
  BY <1>1 DEF CodeInv
<1> QED
  BY <1>3, <1>4, <1>5 DEF Runs

LEMMA TurnRuns == ASSUME Runs, Turn PROVE Runs'
<1>1. /\ Len(piece) \in Nat /\ cur \in Nat /\ start \in Nat /\ count \in Nat
      /\ piece \in Seq(0..127) /\ cur <= Len(piece) /\ start <= cur
  BY LengthOfPiece DEF Runs, CallInv
<1>2. CASE Base64Char
  BY <1>1, <1>2 DEF Base64Char, input, run, More, Runs, CallInv, RunInv, CodeInv, States, QpStates
<1>3. CASE Base64End
  BY <1>1, <1>3 DEF Base64End, Done, input, run, Runs, CallInv, RunInv, CodeInv, States, QpStates
<1>4. CASE QpEqual
  BY <1>1, <1>4 DEF QpEqual, More, Char, input, run, Runs, CallInv, RunInv, CodeInv, States, QpStates
<1>5. CASE QpNewline
  BY <1>1, <1>5, WriteRuns DEF QpNewline, More, Skip, Runs, CallInv
<1>6. CASE QpReturn
  BY <1>1, <1>6 DEF QpReturn, More, input, run, Runs, CallInv, RunInv, CodeInv, States, QpStates
<1>7. CASE QpLiteral
  <2>1. /\ state = "normal" /\ cur < Len(piece) /\ cur' = cur + 1
        /\ mechanism = "quoted-printable"
    BY <1>7 DEF QpLiteral, More, Runs, CallInv
  <2>2. CASE count < MaxRun
    BY <1>1, <1>7, <2>1, <2>2 DEF QpLiteral, input, Runs, CallInv, RunInv, CodeInv, States, QpStates
  <2>3. CASE ~(count < MaxRun)
    BY <1>1, <1>7, <2>1, <2>3, WriteRuns DEF QpLiteral
  <2> QED
    BY <2>2, <2>3
<1>8. CASE QpBreak
  BY <1>1, <1>8, WriteRuns DEF QpBreak, More, Skip, Runs, CallInv
<1>9. CASE QpSoftBreak
  BY <1>1, <1>9, WriteRuns DEF QpSoftBreak, Skip, Runs, CallInv
<1>10. CASE QpOctet
  BY <1>1, <1>10, WriteRuns DEF QpOctet, Skip, Runs, CallInv
<1>11. CASE QpCut
  <2>1. /\ state = "coded" /\ cur < Len(piece) /\ mechanism = "quoted-printable"
        /\ Write(<<>>, 1, "normal") /\ cur' = cur + 1 /\ piece[cur + 1] = EQ
    BY <1>11 DEF QpCut, Runs, CallInv, CodeInv, Char
  <2>2. CASE start' = cur
    BY <1>1, <2>1, <2>2, WriteRuns
  <2>3. CASE cur + 2 = Len(piece) /\ start' = cur + 1
    BY <1>1, <2>1, <2>3, WriteRuns
  <2> QED
    BY <1>11, <2>2, <2>3 DEF QpCut
<1>12. CASE QpEnd
  BY <1>1, <1>12 DEF QpEnd, Done, Runs, CallInv, RunInv, CodeInv, States, QpStates
<1>13. CASE Binary
  <2>1. Len(Stripped(piece)) \in 0..Len(piece)
    <3> SUFFICES ASSUME piece # <<>> PROVE Len(Stripped(piece)) \in 0..Len(piece)
      BY <1>1 DEF Stripped
    <3>1. Len(piece) > 0
      BY <1>1, EmptySeq, LenProperties
    <3>2. ASSUME NEW n \in 0..Len(piece) PROVE Len(SubSeq(piece, 1, n)) = n
      BY <1>1, SubSeqProperties, ElementOfSeq
    <3> QED
      BY <1>1, <3>1, <3>2 DEF Stripped, Front
  <2> QED
    BY <1>1, <1>13, <2>1 DEF Binary, Done, run, Runs, CallInv, RunInv, CodeInv, States, QpStates
<1> QED
  BY <1>2, <1>3, <1>4, <1>5, <1>6, <1>7, <1>8, <1>9, <1>10, <1>11, <1>12, <1>13 DEF Turn

-----------------------------------------------------------------------------
(***************************************************************************)
(* base64: three bytes for every four characters that were read.           *)
(***************************************************************************)
OutType == [str : Seq(Bytes), room : Nat, ok : BOOLEAN]

\* q quanta are complete.
Quanta(q) == Len(out.str) = 3 * q /\ 4 * q + Len(chunk) <= cur

Base64Inv ==
    mechanism = "base64" =>
      /\ out \in OutType /\ chunk \in Seq(0..63) /\ Len(chunk) < 4
      /\ state \in {"idle", "base64"}
      /\ state = "base64" => out.room = Base64Room(Len(piece)) /\ \E q \in Nat : Quanta(q)
      /\ state = "idle" => Len(out.str) <= out.room

LEMMA PutEffect ==
    ASSUME out \in OutType, NEW bytes \in Seq(Bytes), Put(bytes)
    PROVE  /\ out' \in OutType /\ out'.room = out.room
           /\ Len(out'.str) = Len(out.str) + Len(bytes)
<1>1. out.str \o bytes \in Seq(Bytes) /\ Len(out.str \o bytes) = Len(out.str) + Len(bytes)
  BY ConcatProperties DEF OutType
<1> QED
  BY <1>1 DEF Put, OutType

LEMMA OctetsAreBytes ==
    \A a, b \in 0..63 : /\ AsChar(a * 4) \in Bytes /\ AsChar(a * 4 + b \div 16) \in Bytes
                        /\ AsChar(a * 16 + b \div 4) \in Bytes /\ AsChar(a * 64 + b) \in Bytes
BY DEF AsChar, Bytes

LEMMA OctetTypes ==
    ASSUME NEW c \in Seq(0..63)
    PROVE  /\ Len(c) = 1 => AsChar(c[1] * 4) \in Bytes
           /\ Len(c) = 2 => Out0(c) \in Bytes
           /\ Len(c) = 3 => Out0(c) \in Bytes /\ Out1(c) \in Bytes
           /\ Len(c) = 4 => Out0(c) \in Bytes /\ Out1(c) \in Bytes /\ Out2(c) \in Bytes
<1>1. \A i \in 1..Len(c) : c[i] \in 0..63
  BY ElementOfSeq
<1>2. ASSUME Len(c) = 1 PROVE AsChar(c[1] * 4) \in Bytes
  <2>1. c[1] \in 0..63
    BY <1>1, <1>2
  <2> QED
    BY <2>1, OctetsAreBytes
<1>3. ASSUME Len(c) = 2 PROVE Out0(c) \in Bytes
  <2>1. c[1] \in 0..63 /\ c[2] \in 0..63
    BY <1>1, <1>3
  <2> QED
    BY <2>1, OctetsAreBytes DEF Out0
<1>4. ASSUME Len(c) = 3 PROVE Out0(c) \in Bytes /\ Out1(c) \in Bytes
  <2>1. c[1] \in 0..63 /\ c[2] \in 0..63 /\ c[3] \in 0..63
    BY <1>1, <1>4
  <2> QED
    BY <2>1, OctetsAreBytes DEF Out0, Out1
<1>5. ASSUME Len(c) = 4 PROVE Out0(c) \in Bytes /\ Out1(c) \in Bytes /\ Out2(c) \in Bytes
  <2>1. c[1] \in 0..63 /\ c[2] \in 0..63 /\ c[3] \in 0..63 /\ c[4] \in 0..63
    BY <1>1, <1>5
  <2> QED
    BY <2>1, OctetsAreBytes DEF Out0, Out1, Out2
<1> QED
  BY <1>2, <1>3, <1>4, <1>5

LEMMA Base64CharHolds ==
    ASSUME Runs, Base64Inv, Base64Char PROVE Base64Inv'
<1> SUFFICES ASSUME mechanism = "base64" PROVE Base64Inv'
  BY DEF Base64Char, input, Base64Inv
<1> DEFINE v == Base64Value(Char(cur))
           c == IF v = -1 THEN chunk ELSE Append(chunk, v)
<1>1. /\ state = "base64" /\ state' = state /\ cur' = cur + 1 /\ mechanism' = mechanism
      /\ piece' = piece /\ cur < Len(piece) /\ cur \in Nat
      /\ IF Len(c) = 4 THEN chunk' = <<>> /\ Put(<<Out0(c), Out1(c), Out2(c)>>)
                       ELSE chunk' = c /\ UNCHANGED out
  BY LengthOfPiece DEF Base64Char, input, More, Runs, CallInv
<1>2. /\ out \in OutType /\ chunk \in Seq(0..63) /\ Len(chunk) \in Nat /\ Len(chunk) < 4
      /\ out.room = Base64Room(Len(piece))
  BY <1>1, LenProperties DEF Base64Inv
<1>3. PICK q \in Nat : Quanta(q)
  BY <1>1 DEF Base64Inv
<1>4. v \in 0..63 \cup {-1}
  <2>1. piece \in Seq(0..127) /\ cur + 1 \in 1..Len(piece)
    BY <1>1, LengthOfPiece DEF Runs, CallInv
  <2>2. Char(cur) \in 0..127
    BY <2>1, ElementOfSeq DEF Char
  <2> QED
    BY <2>2 DEF Base64Value
<1>5. c \in Seq(0..63) /\ Len(c) \in Nat /\ Len(c) <= Len(chunk) + 1
  <2> HIDE DEF v
  <2>1. CASE v = -1
    BY <1>2, <2>1
  <2>2. CASE v \in 0..63
    <3>1. Append(chunk, v) \in Seq(0..63) /\ Len(Append(chunk, v)) = Len(chunk) + 1
      BY <1>2, <2>2, AppendProperties
    <3>2. v # -1
      BY <2>2
    <3>3. c = Append(chunk, v)
      BY <3>2
    <3> HIDE DEF c
    <3> QED
      BY <1>2, <3>1, <3>3
  <2> QED
    BY <1>4, <2>1, <2>2
<1>6. /\ piece' = piece /\ mechanism' = mechanism /\ state' = "base64"
  BY <1>1
<1> HIDE DEF c, v
<1>7. CASE Len(c) = 4
  <2> DEFINE bytes == <<Out0(c), Out1(c), Out2(c)>>
  <2>1. Out0(c) \in Bytes /\ Out1(c) \in Bytes /\ Out2(c) \in Bytes
    BY <1>5, <1>7, OctetTypes
  <2>2. bytes \in Seq(Bytes) /\ Len(bytes) = 3
    BY <2>1
  <2>3. chunk' = <<>> /\ Put(bytes)
    BY <1>1, <1>7
  <2> HIDE DEF bytes
  <2>4. /\ out' \in OutType /\ out'.room = out.room /\ Len(out'.str) = Len(out.str) + 3
    BY <1>2, <2>2, <2>3, PutEffect
  <2>5. chunk' \in Seq(0..63) /\ Len(chunk') = 0
    BY <2>3, EmptySeq
  <2>6. Quanta(q + 1)'
    BY <1>1, <1>2, <1>3, <1>5, <1>7, <2>4, <2>5 DEF Quanta
  <2> QED
    BY <1>2, <1>6, <2>4, <2>5, <2>6 DEF Base64Inv
<1>8. CASE Len(c) # 4
  <2>1. chunk' = c /\ out' = out
    BY <1>1, <1>8
  <2>2. Quanta(q)'
    BY <1>1, <1>2, <1>3, <1>5, <2>1 DEF Quanta
  <2>3. chunk' \in Seq(0..63) /\ Len(chunk') < 4
    <3> DEFINE n == Len(c)
               m == Len(chunk)
    <3>1. n \in Nat /\ n # 4 /\ m \in Nat /\ m < 4 /\ n <= m + 1
      BY <1>2, <1>5, <1>8
    <3> HIDE DEF n, m
    <3>2. n < 4
      BY <3>1
    <3> QED
      BY <1>5, <2>1, <3>2 DEF n
  <2> QED
    BY <1>2, <1>6, <2>1, <2>2, <2>3 DEF Base64Inv
<1> QED
  BY <1>7, <1>8

LEMMA LeftoverLength ==
    ASSUME chunk \in Seq(0..63), Len(chunk) < 4
    PROVE  Leftover \in Seq(Bytes) /\ Len(Leftover) \in 0..2
<1>1. Len(chunk) \in Nat /\ Unset \in Bytes
  BY LenProperties DEF Bytes
<1>2. \A b \in Bytes : <<b>> \in Seq(Bytes) /\ Len(<<b>>) = 1
  OBVIOUS
<1>3. CASE Len(chunk) = 0
  BY <1>3, EmptySeq DEF Leftover
<1>4. CASE Len(chunk) = 1
  <2>1. AsChar(chunk[1] * 4) \in Bytes
    BY <1>4, OctetTypes
  <2>2. Leftover = <<IF out.str = <<>> THEN Unset ELSE AsChar(chunk[1] * 4)>>
    BY <1>4 DEF Leftover
  <2> QED
    BY <1>1, <1>2, <2>1, <2>2
<1>5. CASE Len(chunk) = 2
  <2>1. Out0(chunk) \in Bytes /\ Leftover = <<Out0(chunk)>>
    BY <1>5, OctetTypes DEF Leftover
  <2> QED
    BY <1>2, <2>1
<1>6. CASE Len(chunk) = 3
  <2>1. Out0(chunk) \in Bytes /\ Out1(chunk) \in Bytes /\ Leftover = <<Out0(chunk), Out1(chunk)>>
    BY <1>6, OctetTypes DEF Leftover
  <2> QED
    BY <2>1
<1>7. Len(chunk) = 0 \/ Len(chunk) = 1 \/ Len(chunk) = 2 \/ Len(chunk) = 3
  <2> DEFINE n == Len(chunk)
  <2>1. n \in Nat /\ n < 4
    BY <1>1
  <2> HIDE DEF n
  <2>2. n = 0 \/ n = 1 \/ n = 2 \/ n = 3
    BY <2>1
  <2> QED
    BY <2>2 DEF n
<1> QED
  BY <1>3, <1>4, <1>5, <1>6, <1>7

LEMMA RoomForQuanta == \A q, n \in Nat : 4 * q <= n => 3 * q + 3 <= Base64Room(n)
BY DEF Base64Room

LEMMA Base64EndHolds ==
    ASSUME Runs, Base64Inv, Base64End PROVE Base64Inv'
<1>1. /\ state = "base64" /\ state' = "idle" /\ mechanism' = mechanism /\ chunk' = chunk
      /\ Put(Leftover) /\ mechanism = "base64" /\ cur \in Nat /\ cur <= Len(piece)
      /\ Len(piece) \in Nat
  BY LengthOfPiece DEF Base64End, Done, input, Runs, CallInv
<1>2. /\ out \in OutType /\ chunk \in Seq(0..63) /\ Len(chunk) \in Nat /\ Len(chunk) < 4
      /\ out.room = Base64Room(Len(piece))
  BY <1>1, LenProperties DEF Base64Inv
<1>3. PICK q \in Nat : Quanta(q)
  BY <1>1 DEF Base64Inv
<1>4. Leftover \in Seq(Bytes) /\ Len(Leftover) \in 0..2
  BY <1>2, LeftoverLength
<1>5. out' \in OutType /\ out'.room = out.room /\ Len(out'.str) = Len(out.str) + Len(Leftover)
  BY <1>1, <1>2, <1>4, PutEffect
<1>6. Len(out'.str) <= out'.room
  <2>1. /\ Len(out'.str) = 3 * q + Len(Leftover) /\ 4 * q <= Len(piece)
        /\ out'.room = Base64Room(Len(piece))
    BY <1>1, <1>2, <1>3, <1>5 DEF Quanta
  <2>2. 3 * q + 3 <= Base64Room(Len(piece))
    BY <1>1, <2>1, RoomForQuanta
  <2>3. Len(Leftover) \in Nat /\ Len(Leftover) <= 2
    <3> DEFINE n == Len(Leftover)
    <3>1. n \in 0..2
      BY <1>4
    <3> HIDE DEF n
    <3>2. n \in Nat /\ n <= 2
      BY <3>1
    <3> QED
      BY <3>2 DEF n
  <2>5. 3 * q \in Nat
    OBVIOUS
  <2>4. Base64Room(Len(piece)) \in Nat
    BY <1>1 DEF Base64Room
  <2> HIDE DEF Base64Room
  <2> QED
    BY <2>1, <2>2, <2>3, <2>4, <2>5
<1> QED
  BY <1>1, <1>2, <1>5, <1>6 DEF Base64Inv

LEMMA BodyParseBase64 == ASSUME Runs, Base64Inv, BodyParse PROVE Base64Inv'
<1> SUFFICES ASSUME mechanism = "base64" PROVE Base64Inv'
  BY DEF BodyParse, Base64Inv
<1>1. PICK p \in SeqOf(Characters[mechanism], MaxSent[mechanism] - Len(sent)) \ {<<>>} :
         piece' = p /\ \E s \in Allocated(Len(p)) :
                          out' = s /\ state' = (IF s.ok THEN Entry(mechanism) ELSE "idle")
  BY DEF BodyParse
<1>2. p \in Seq(0..127)
  <2>1. MaxSent[mechanism] - Len(sent) \in Int
    BY MaxSentAssumption, LenProperties DEF Runs, CallInv
  <2> QED
    BY <1>1, <2>1, PiecesType DEF Runs, CallInv
<1>3. Len(p) \in Nat /\ Base64Room(Len(p)) \in Nat
  BY <1>2, LenProperties DEF Base64Room
<1>4. <<>> \in Seq(Bytes) /\ <<>> \in Seq(0..63) /\ Len(<<>>) = 0
  BY EmptySeq
<1>5. PICK s \in {[NullString EXCEPT !.room = Base64Room(Len(p))], [NullString EXCEPT !.ok = FALSE]} :
         out' = s /\ state' = (IF s.ok THEN "base64" ELSE "idle")
  BY <1>1, MayRefuseAssumption DEF Allocated, Entry
<1>6. CASE s = [NullString EXCEPT !.room = Base64Room(Len(p))]
  <2>1. s \in OutType /\ s.str = <<>> /\ s.room = Base64Room(Len(p)) /\ s.ok = TRUE
    BY <1>3, <1>4, <1>6 DEF NullString, OutType
  <2>2. chunk' = <<>> /\ cur' = 0 /\ mechanism' = mechanism
    BY DEF BodyParse
  <2>3. Quanta(0)'
    BY <1>4, <1>5, <2>1, <2>2 DEF Quanta
  <2> QED
    BY <1>1, <1>4, <1>5, <2>1, <2>2, <2>3 DEF Base64Inv
<1>7. CASE s = [NullString EXCEPT !.ok = FALSE]
  <2>1. s \in OutType /\ s.str = <<>> /\ s.room = 0 /\ s.ok = FALSE
    BY <1>4, <1>7 DEF NullString, OutType
  <2>2. chunk' = <<>> /\ mechanism' = mechanism
    BY DEF BodyParse
  <2> QED
    BY <1>4, <1>5, <2>1, <2>2 DEF Base64Inv
<1> QED
  BY <1>5, <1>6, <1>7

LEMMA Base64AtFirst == Init => Base64Inv
<1> SUFFICES ASSUME Init PROVE Base64Inv
  OBVIOUS
<1>1. <<>> \in Seq(Bytes) /\ <<>> \in Seq(0..63) /\ Len(<<>>) = 0
  BY EmptySeq
<1> QED
  BY <1>1 DEF Init, Base64Inv, NullString, OutType

LEMMA TurnBase64 == ASSUME Runs, Base64Inv, Turn PROVE Base64Inv'
<1>1. CASE Base64Char
  BY <1>1, Base64CharHolds
<1>2. CASE Base64End
  BY <1>2, Base64EndHolds
<1>3. CASE ~Base64Char /\ ~Base64End
  <2>1. mechanism' = mechanism /\ state \in {"normal", "cr", "coded", "out", "binary"}
    BY <1>3 DEF Turn, QpEqual, QpNewline, QpReturn, QpLiteral, QpBreak, QpSoftBreak, QpOctet,
                QpCut, QpEnd, Binary, Write, input
  <2> QED
    BY <2>1 DEF Base64Inv
<1> QED
  BY <1>1, <1>2, <1>3

-----------------------------------------------------------------------------
(***************************************************************************)
(* The strings of the other decoders: a power of two is found for every    *)
(* length, so a string that is granted its memory has room for what is     *)
(* appended and a NUL.                                                     *)
(***************************************************************************)
\* Every set of naturals has a least element.
LEMMA LeastNatural ==
    ASSUME NEW T, T \subseteq Nat, T # {}
    PROVE  Min(T) \in T /\ \A y \in T : Min(T) <= y
<1>1. PICK x \in T : \A y \in T : ~(<<y, x>> \in OpToRel(<, Nat))
  BY NatLessThanWellFounded, WFMin
<1>2. \A y, z \in Nat : y < z => <<y, z>> \in OpToRel(<, Nat)
  BY DEF OpToRel
<1>3. \A y \in T : ~(y < x)
  BY <1>1, <1>2
<1>4. \A y \in T : x <= y
  BY <1>3
<1> QED
  BY <1>4 DEF Min

\* A set of n members has as many subsets of one member.
LEMMA PowerOfTwo == \A n \in Nat : 2 ^ n \in Nat /\ n <= 2 ^ n
<1> SUFFICES ASSUME NEW n \in Nat PROVE 2 ^ n \in Nat /\ n <= 2 ^ n
  OBVIOUS
<1> DEFINE f == [i \in 1..n |-> {i}]
<1>1. IsFiniteSet(1..n) /\ Cardinality(1..n) = n
  BY FS_Interval
<1>2. IsFiniteSet(SUBSET (1..n)) /\ Cardinality(SUBSET (1..n)) = 2 ^ n
  BY <1>1, FS_SUBSET
<1>3. f \in Injection(1..n, SUBSET (1..n))
  BY DEF Injection, IsInjective
<1>4. Cardinality(1..n) <= Cardinality(SUBSET (1..n))
  BY <1>2, <1>3, FS_Injection
<1> QED
  BY <1>1, <1>2, <1>4, FS_CardinalityType

LEMMA PowerFound == \A n \in Nat : NearestPower(n) \in Nat /\ NearestPower(n) >= n
<1> SUFFICES ASSUME NEW n \in Nat PROVE NearestPower(n) \in Nat /\ NearestPower(n) >= n
  OBVIOUS
<1> DEFINE T == {p \in {2 ^ k : k \in 0..n} : p >= n}
<1>1. T \subseteq Nat
  BY PowerOfTwo
<1>2. 2 ^ n \in T
  BY PowerOfTwo
<1>3. Min(T) \in T
  BY <1>1, <1>2, LeastNatural
<1>4. NearestPower(n) \in T
  BY <1>3 DEF NearestPower
<1> QED
  BY <1>1, <1>4

\* A string that holds what it has room for, with its NUL, or has no memory.
Holds(s) == s \in OutType /\ (s.room = 0 \/ Len(s.str) < s.room)

LEMMA Expanded ==
    ASSUME NEW s, Holds(s), NEW n \in Nat, NEW t \in MaybeExpand(s, n)
    PROVE  /\ Holds(t) /\ t.str = s.str /\ Len(s.str) \in Nat
           /\ t.ok => t.room >= Len(s.str) + n + 1
<1>1. s \in OutType /\ Len(s.str) \in Nat /\ s.room \in Nat
  BY LenProperties DEF Holds, OutType
<1>2. CASE Needed(s, n) <= s.room /\ t = s
  BY <1>1, <1>2 DEF Needed
<1>3. CASE t = [s EXCEPT !.room = NearestPower(Needed(s, n))]
  <2>1. /\ Needed(s, n) \in Nat /\ Needed(s, n) = Len(s.str) + n + 1
    BY <1>1 DEF Needed
  <2>2. NearestPower(Needed(s, n)) \in Nat /\ NearestPower(Needed(s, n)) >= Needed(s, n)
    BY <2>1, PowerFound
  <2>3. t \in OutType /\ t.str = s.str /\ t.room = NearestPower(Needed(s, n))
    BY <1>1, <1>3, <2>2 DEF OutType
  <2> QED
    BY <1>1, <2>1, <2>2, <2>3 DEF Holds
<1>4. CASE t = [s EXCEPT !.ok = FALSE]
  <2>1. t \in OutType /\ t.str = s.str /\ t.room = s.room /\ t.ok = FALSE
    BY <1>1, <1>4 DEF OutType
  <2> QED
    BY <1>1, <2>1 DEF Holds
<1> QED
  BY <1>2, <1>3, <1>4, MayRefuseAssumption DEF MaybeExpand

LEMMA Appended ==
    ASSUME NEW s, Holds(s), NEW val \in Seq(Bytes), NEW t \in AppendLen(s, val)
    PROVE  Holds(t)
<1>1. Len(val) \in Nat
  BY LenProperties
<1>2. PICK u \in MaybeExpand(s, Len(val)) : t = IF u.ok THEN [u EXCEPT !.str = @ \o val] ELSE u
  BY DEF AppendLen
<1>3. /\ Holds(u) /\ u.str = s.str /\ Len(s.str) \in Nat
      /\ u.ok => u.room >= Len(s.str) + Len(val) + 1
  BY <1>1, <1>2, Expanded
<1>4. CASE ~u.ok
  BY <1>2, <1>3, <1>4
<1>5. CASE u.ok
  <2>1. u \in OutType /\ u.str \o val \in Seq(Bytes) /\ Len(u.str \o val) = Len(s.str) + Len(val)
    BY <1>3, ConcatProperties DEF Holds, OutType
  <2>2. t \in OutType /\ t.str = u.str \o val /\ t.room = u.room
    BY <1>2, <1>5, <2>1 DEF OutType
  <2>3. u.room \in Nat
    BY <2>1 DEF OutType
  <2> QED
    BY <1>1, <1>3, <1>5, <2>1, <2>2, <2>3 DEF Holds
<1> QED
  BY <1>4, <1>5

LEMMA NewStrings ==
    /\ Holds(NullString)
    /\ \A n \in Nat : \A s \in SizedNew(n) : Holds(s)
    /\ \A val \in Seq(Bytes) : \A s \in NewLen(val) : Holds(s)
<1>1. Holds(NullString)
  <2>1. <<>> \in Seq(Bytes)
    BY EmptySeq
  <2> QED
    BY <2>1 DEF NullString, Holds, OutType
<1>2. \A n \in Nat : \A s \in SizedNew(n) : Holds(s)
  BY <1>1, Expanded DEF SizedNew
<1>3. ASSUME NEW val \in Seq(Bytes), NEW s \in NewLen(val) PROVE Holds(s)
  <2>1. Len(val) \in Nat
    BY LenProperties
  <2>2. PICK u \in SizedNew(Len(val)) : s \in IF u.ok THEN AppendLen(u, val) ELSE {u}
    BY DEF NewLen
  <2> QED
    BY <1>2, <2>1, <2>2, Appended
<1> QED
  BY <1>1, <1>2, <1>3

LEMMA LiteralType == ASSUME Runs PROVE Literal \in Seq(Bytes)
<1>1. count \in Nat /\ start \in Nat /\ piece \in Seq(0..127) /\ Len(piece) \in Nat
  BY LengthOfPiece DEF Runs, CallInv
<1>2. ASSUME NEW i \in 1..count, start + i <= Len(piece) PROVE piece[start + i] \in Bytes
  <2>1. start + i \in 1..Len(piece)
    BY <1>1, <1>2
  <2>2. piece[start + i] \in 0..127
    BY <1>1, <2>1, ElementOfSeq
  <2> QED
    BY <2>2 DEF Bytes
<1>3. Behind \in Bytes
  BY DEF Bytes
<1>4. \A i \in 1..count : (IF start + i <= Len(piece) THEN piece[start + i] ELSE Behind) \in Bytes
  BY <1>2, <1>3
<1>5. Literal \in [1..count -> Bytes]
  BY <1>4 DEF Literal
<1> QED
  BY <1>1, <1>5, SeqDef

\* The strings, and the types of what no decoder's bounds depend on.
StringInv ==
    /\ mechanism # "base64" => Holds(out) /\ chunk = <<>>
    /\ count <= MaxRun /\ stream \in Seq(Bytes) /\ whole \in BOOLEAN

LEMMA WriteStrings ==
    ASSUME Runs, StringInv, mechanism # "base64", NEW val \in Seq(Bytes), NEW n \in {0, 1},
           NEW next, Write(val, n, next)
    PROVE  StringInv'
<1>1. PICK s \in Written(val) : out' = s /\ (whole' = whole \/ whole' = FALSE)
  BY DEF Write
<1>2. PICK u \in AppendLen(out, Literal) : s \in IF u.ok THEN AppendLen(u, val) ELSE {u}
  BY <1>1 DEF Written
<1>3. Holds(u)
  BY <1>2, LiteralType, Appended DEF StringInv
<1>4. Holds(s)
  BY <1>2, <1>3, Appended
<1>5. whole' \in BOOLEAN
  BY <1>1 DEF StringInv
<1>6. n <= MaxRun
  BY MaxRunAssumption
<1> QED
  BY <1>1, <1>4, <1>5, <1>6, WriteEffect DEF StringInv, Holds

\* What Write adds is made of bytes.
LEMMA WrittenTypes ==
    /\ CRLF \in Seq(Bytes) /\ <<>> \in Seq(Bytes)
    /\ \A i : <<ToChar(i)>> \in Seq(Bytes)
<1>1. CR \in Bytes /\ LF \in Bytes
  BY DEF CR, LF, Bytes
<1>2. \A ch : HexaToChar(ch) \in 0..15
  BY DEF HexaToChar
<1>3. \A i : ToChar(i) \in Bytes
  BY <1>2 DEF ToChar, Bytes
<1> QED
  BY <1>1, <1>3 DEF CRLF

LEMMA StrippedType == ASSUME Runs PROVE Stripped(piece) \in Seq(Bytes)
<1> DEFINE m == Len(piece)
<1>1. piece \in Seq(0..127) /\ m \in Nat /\ 0..127 \subseteq Bytes
  BY LengthOfPiece DEF Runs, CallInv, Bytes
<1>2. piece \in Seq(Bytes)
  BY <1>1, SeqMonotonic
<1>3. \A i \in 1..m : piece[i] \in Bytes
  BY <1>2, ElementOfSeq
<1>4. piece # <<>> => m > 0
  BY <1>1, EmptySeq, LenProperties
<1>5. Stripped(piece) \in {piece, SubSeq(piece, 1, m - 1)} \/ (m > 1 /\ Stripped(piece) = SubSeq(piece, 1, m - 2))
  BY <1>1 DEF Stripped, Front
<1> HIDE DEF m
<1>6. ASSUME NEW n \in Int, n <= m PROVE SubSeq(piece, 1, n) \in Seq(Bytes)
  <2>1. \A i \in 1..n : piece[i] \in Bytes
    BY <1>1, <1>3, <1>6
  <2> QED
    BY <2>1, SubSeqProperties
<1>7. m - 1 \in Int /\ m - 2 \in Int /\ m - 1 <= m /\ m - 2 <= m
  BY <1>1
<1> QED
  BY <1>2, <1>5, <1>6, <1>7

LEMMA TurnStrings == ASSUME Runs, Base64Inv, StringInv, Turn PROVE StringInv'
<1>1. /\ stream \in Seq(Bytes) /\ whole \in BOOLEAN /\ count \in Nat /\ count <= MaxRun
      /\ mechanism # "base64" => Holds(out) /\ chunk = <<>>
  BY DEF Runs, CallInv, StringInv
<1>2. MaxRun \in Nat /\ MaxRun >= 1
  BY MaxRunAssumption
<1>3. state \in {"normal", "cr", "coded", "out"} => mechanism = "quoted-printable"
  BY DEF Runs, CallInv
<1>4. state = "base64" => mechanism = "base64"
  BY DEF Runs, CallInv
<1>5. CASE Base64Char
  BY <1>1, <1>4, <1>5 DEF Base64Char, input, run, StringInv
<1>6. CASE Base64End
  <2>1. state = "base64" /\ mechanism = "base64"
    BY <1>4, <1>6 DEF Base64End
  <2>2. Leftover \in Seq(Bytes) /\ out.str \in Seq(Bytes)
    BY <2>1, LeftoverLength DEF Base64Inv, OutType
  <2>3. stream' \in Seq(Bytes)
    BY <1>1, <1>6, <2>2, ConcatProperties DEF Base64End, Done
  <2> QED
    BY <1>1, <1>6, <2>1, <2>3 DEF Base64End, input, run, StringInv
<1>7. CASE QpEqual
  BY <1>1, <1>7 DEF QpEqual, input, run, StringInv, Holds
<1>8. CASE QpNewline
  BY <1>3, <1>8, WriteStrings, WrittenTypes DEF QpNewline
<1>9. CASE QpReturn
  BY <1>1, <1>9 DEF QpReturn, input, run, StringInv, Holds
<1>10. CASE QpLiteral
  <2>1. CASE count < MaxRun
    BY <1>1, <1>2, <1>10, <2>1 DEF QpLiteral, input, StringInv, Holds
  <2>2. CASE ~(count < MaxRun)
    BY <1>3, <1>10, <2>2, WriteStrings, WrittenTypes DEF QpLiteral
  <2> QED
    BY <2>1, <2>2
<1>11. CASE QpBreak
  BY <1>3, <1>11, WriteStrings, WrittenTypes DEF QpBreak
<1>12. CASE QpSoftBreak
  BY <1>3, <1>12, WriteStrings, WrittenTypes DEF QpSoftBreak
<1>13. CASE QpOctet
  BY <1>3, <1>13, WriteStrings, WrittenTypes DEF QpOctet
<1>14. CASE QpCut
  BY <1>3, <1>14, WriteStrings, WrittenTypes DEF QpCut
<1>15. CASE QpEnd
  <2>1. mechanism = "quoted-printable" /\ mechanism' = mechanism /\ chunk' = chunk /\ count' = 0
    BY <1>3, <1>15 DEF QpEnd
  <2>2. PICK s \in AppendLen(out, Literal) :
           /\ out' = s /\ whole' = (whole /\ s.ok)
           /\ stream' = stream \o (IF s.ok THEN s.str ELSE <<>>)
    BY <1>15 DEF QpEnd, Done
  <2>3. Holds(s)
    BY <1>1, <2>1, <2>2, LiteralType, Appended
  <2>4. stream' \in Seq(Bytes)
    BY <1>1, <2>2, <2>3, ConcatProperties, EmptySeq DEF Holds, OutType
  <2>5. whole' \in BOOLEAN
    BY <2>2, Zenon
  <2> QED
    BY <1>1, <1>2, <2>1, <2>2, <2>3, <2>4, <2>5 DEF StringInv, Holds
<1>16. CASE Binary
  <2>1. mechanism' = mechanism /\ chunk' = chunk /\ count' = count
    BY <1>16 DEF Binary, run
  <2>2. PICK s \in NewLen(Stripped(piece)) :
           out' = s /\ whole' = (whole /\ s.ok) /\ stream' = stream \o s.str
    BY <1>16 DEF Binary, Done
  <2>3. Holds(s)
    BY <2>2, StrippedType, NewStrings
  <2>4. stream' \in Seq(Bytes)
    BY <1>1, <2>2, <2>3, ConcatProperties DEF Holds, OutType
  <2>5. whole' \in BOOLEAN
    BY <2>2, Zenon
  <2> QED
    BY <1>1, <1>2, <2>1, <2>2, <2>3, <2>4, <2>5 DEF StringInv, Holds
<1> QED
  BY <1>5, <1>6, <1>7, <1>8, <1>9, <1>10, <1>11, <1>12, <1>13, <1>14, <1>15, <1>16 DEF Turn

LEMMA BodyParseStrings == ASSUME Runs, StringInv, BodyParse PROVE StringInv'
<1>1. PICK p \in SeqOf(Characters[mechanism], MaxSent[mechanism] - Len(sent)) \ {<<>>} :
         \E s \in Allocated(Len(p)) : out' = s /\ whole' = (whole /\ BetweenCodes(mechanism, sent) /\ s.ok)
  BY DEF BodyParse
<1>2. Len(p) \in Nat
  <2>1. MaxSent[mechanism] - Len(sent) \in Int
    BY MaxSentAssumption, LenProperties DEF Runs, CallInv
  <2>2. p \in Seq(0..127)
    BY <1>1, <2>1, PiecesType DEF Runs, CallInv
  <2> QED
    BY <2>2, LenProperties
<1>3. PICK s \in Allocated(Len(p)) : out' = s /\ whole' = (whole /\ BetweenCodes(mechanism, sent) /\ s.ok)
  BY <1>1
<1>4. mechanism # "base64" => Holds(s)
  BY <1>2, <1>3, NewStrings DEF Allocated, Runs, CallInv, Mechanisms
<1>5. whole' \in BOOLEAN
  BY <1>3, Zenon
<1>6. chunk' = <<>> /\ count' = 0 /\ mechanism' = mechanism /\ stream' = stream
  BY DEF BodyParse
<1> QED
  BY <1>3, <1>4, <1>5, <1>6, MaxRunAssumption DEF StringInv, Holds

BodyInv == Runs /\ Base64Inv /\ StringInv

LEMMA BodyInvariant == Spec => []BodyInv
<1>1. Init => BodyInv
  <2> SUFFICES ASSUME Init PROVE BodyInv
    OBVIOUS
  <2>1. Runs /\ Base64Inv
    BY RunsAtFirst, Base64AtFirst
  <2>2. StringInv
    BY NewStrings, EmptySeq, MaxRunAssumption DEF Init, StringInv
  <2> QED
    BY <2>1, <2>2 DEF BodyInv
<1>2. BodyInv /\ [Next]_vars => BodyInv'
  <2> SUFFICES ASSUME BodyInv, [Next]_vars PROVE BodyInv'
    OBVIOUS
  <2>1. CASE BodyParse
    BY <2>1, BodyParseRuns, BodyParseBase64, BodyParseStrings DEF BodyInv
  <2>2. CASE Turn
    BY <2>2, TurnRuns, TurnBase64, TurnStrings DEF BodyInv
  <2>3. CASE UNCHANGED vars
    BY <2>3 DEF vars, BodyInv, Runs, CallInv, RunInv, CodeInv, Char, Base64Inv, Quanta,
                StringInv, Holds
  <2> QED
    BY <2>1, <2>2, <2>3 DEF Next
<1> QED
  BY <1>1, <1>2, PTL DEF Spec

-----------------------------------------------------------------------------
\* Every index of the decoders is one of the piece or its end, every run within
\* WRITE_MAX_QP, every byte of what they write a byte (body.c), and a string has
\* a size (mmapstring.c).
THEOREM BodyTypes == Spec => []TypeOK
<1>1. BodyInv => TypeOK
  <2> SUFFICES ASSUME BodyInv PROVE TypeOK
    OBVIOUS
  <2>1. /\ mechanism \in Mechanisms /\ state \in States /\ whole \in BOOLEAN
        /\ piece \in Seq(0..127) /\ sent \in Seq(0..127) /\ stream \in Seq(Bytes)
    BY DEF BodyInv, Runs, CallInv, StringInv
  <2>2. cur \in 0..Len(piece) /\ start \in 0..Len(piece) /\ count \in 0..MaxRun
    BY LengthOfPiece, MaxRunAssumption DEF BodyInv, Runs, CallInv, StringInv
  <2>3. chunk \in Seq(0..63) /\ Len(chunk) < 4 /\ out \in OutType
    <3>1. CASE mechanism = "base64"
      BY <3>1 DEF BodyInv, Base64Inv
    <3>2. CASE mechanism # "base64"
      <4>1. <<>> \in Seq(0..63) /\ Len(<<>>) = 0
        BY EmptySeq
      <4>2. chunk = <<>> /\ out \in OutType
        BY <3>2 DEF BodyInv, StringInv, Holds
      <4>3. Len(chunk) = 0
        BY <4>1, <4>2
      <4> QED
        BY <4>1, <4>2, <4>3
    <3> QED
      BY <3>1, <3>2
  <2> QED
    BY <2>1, <2>2, <2>3 DEF TypeOK, OutType
<1> QED
  BY <1>1, BodyInvariant, PTL

\* The decoder of quoted-printable text copies characters of the piece it was
\* given, and past the end of it one at most, behind "=" and a character that
\* end the piece (body.c:356).
THEOREM RunsEndWithThePiece == Spec => []InBounds
<1>1. BodyInv => InBounds
  <2> SUFFICES ASSUME Runs, state # "idle"
               PROVE  /\ start + count <= Len(piece) + 1
                      /\ start + count > Len(piece) =>
                           Len(piece) >= 2 /\ piece[Len(piece) - 1] = EQ
    BY DEF BodyInv, InBounds
  <2>1. Len(piece) \in Nat
    BY LengthOfPiece DEF Runs
  <2>2. CASE state \in QpStates
    <3>1. cur <= Len(piece) /\ cur \in Nat /\ start + count \in Nat
      BY <2>1 DEF Runs, CallInv
    <3> QED
      BY <2>1, <2>2, <3>1 DEF Runs, RunInv
  <2>3. CASE state \notin QpStates
    BY <2>1, <2>3 DEF Runs, CallInv, States, QpStates
  <2> QED
    BY <2>2, <2>3
<1> QED
  BY <1>1, BodyInvariant, PTL

\* What is decoded fits the memory it is given: in base64 the three quarters and
\* three bytes of the malloc (body.c:141), else a string whose room is a power of
\* two, with its NUL (mmapstring.c:279); for pieces of every length.
THEOREM DecodedFits == Spec => []BufferHolds
<1>1. BodyInv => BufferHolds
  <2> SUFFICES ASSUME BodyInv PROVE BufferHolds
    OBVIOUS
  <2>1. CASE mechanism # "base64"
    BY <2>1 DEF BodyInv, StringInv, Holds, BufferHolds
  <2>2. CASE mechanism = "base64" /\ state = "idle"
    BY <2>2 DEF BodyInv, Base64Inv, BufferHolds
  <2>3. CASE mechanism = "base64" /\ state = "base64"
    <3>1. PICK q \in Nat : Quanta(q)
      BY <2>3 DEF BodyInv, Base64Inv
    <3>2. Len(chunk) \in Nat /\ cur \in Nat /\ Len(piece) \in Nat /\ cur <= Len(piece)
      BY <2>3, LengthOfPiece, LenProperties DEF BodyInv, Base64Inv, Runs, CallInv
    <3>3. 4 * q <= Len(piece) /\ Len(out.str) = 3 * q
      BY <3>1, <3>2 DEF Quanta
    <3>4. 3 * q + 3 <= Base64Room(Len(piece)) /\ Base64Room(Len(piece)) \in Nat
      BY <3>2, <3>3, RoomForQuanta DEF Base64Room
    <3> QED
      BY <2>3, <3>3, <3>4 DEF BodyInv, Base64Inv, BufferHolds
  <2> QED
    BY <2>1, <2>2, <2>3 DEF BodyInv, Base64Inv
<1> QED
  BY <1>1, BodyInvariant, PTL

-----------------------------------------------------------------------------
(***************************************************************************)
(* What a text means, from one character to the next.                      *)
(***************************************************************************)
\* What holds of 0 and of the successors of its numbers up to n holds up to n.
LEMMA UpTo ==
    ASSUME NEW n \in Nat, NEW S, 0 \in S, \A k \in 1..n : k - 1 \in S => k \in S
    PROVE  \A k \in 0..n : k \in S
<1> SUFFICES ASSUME (0..n) \ S # {} PROVE FALSE
  OBVIOUS
<1>1. PICK k \in (0..n) \ S : \A y \in (0..n) \ S : k <= y
  <2>1. (0..n) \ S \subseteq Nat
    OBVIOUS
  <2> QED
    BY <2>1, LeastNatural
<1>2. k \in 1..n /\ k - 1 \in 0..n
  BY <1>1
<1>3. k - 1 \in S
  BY <1>1, <1>2
<1> QED
  BY <1>1, <1>2, <1>3

Beginning == [at |-> "text", said |-> <<>>]
Reads(m, t, r, i) == IF i = 0 THEN Beginning ELSE Read(m, r[i - 1], t[i])

LEMMA ReadingsExist ==
    ASSUME NEW m, NEW t, NEW n \in Nat
    PROVE  \E r : r = [i \in 0..n |-> Reads(m, t, r, i)]
<1> DEFINE Ok(k) == \E r : r = [i \in 0..k |-> Reads(m, t, r, i)]
           S == {k \in 0..n : Ok(k)}
<1>1. Ok(0)
  <2>1. PICK r : r = [i \in 0..0 |-> Beginning]
    OBVIOUS
  <2>2. r = [i \in 0..0 |-> Reads(m, t, r, i)]
    BY <2>1 DEF Reads
  <2> QED
    BY <2>2
<1>2. ASSUME NEW k \in 1..n, Ok(k - 1) PROVE Ok(k)
  <2>1. PICK f : f = [i \in 0..(k - 1) |-> Reads(m, t, f, i)]
    BY <1>2
  <2>2. PICK r : r = [i \in 0..k |-> IF i = k THEN Read(m, f[k - 1], t[k]) ELSE f[i]]
    OBVIOUS
  <2>3. \A i \in 0..(k - 1) : r[i] = f[i]
    BY <2>2
  <2>4. ASSUME NEW i \in 0..k PROVE r[i] = Reads(m, t, r, i)
    <3>1. CASE i = k
      <4>1. i # 0 /\ k - 1 \in 0..(k - 1)
        BY <3>1
      <4> QED
        BY <2>2, <2>3, <3>1, <4>1 DEF Reads
    <3>2. CASE i # k
      <4>1. i \in 0..(k - 1) /\ (i # 0 => i - 1 \in 0..(k - 1))
        BY <3>2
      <4>2. f[i] = Reads(m, t, f, i)
        BY <2>1, <4>1
      <4> QED
        BY <2>3, <4>1, <4>2 DEF Reads
    <3> QED
      BY <3>1, <3>2
  <2>5. r = [i \in 0..k |-> Reads(m, t, r, i)]
    BY <2>2, <2>4
  <2> QED
    BY <2>5
<1> HIDE DEF Ok
<1>3. 0 \in S /\ \A k \in 1..n : k - 1 \in S => k \in S
  BY <1>1, <1>2
<1> HIDE DEF S
<1>4. n \in S
  BY <1>3, UpTo
<1> QED
  BY <1>4 DEF S, Ok

LEMMA ReadingsAre ==
    ASSUME NEW m, NEW t \in Seq(0..127)
    PROVE  /\ Readings(m, t)[0] = Beginning
           /\ \A i \in 1..Len(t) : Readings(m, t)[i] = Read(m, Readings(m, t)[i - 1], t[i])
<1>1. Len(t) \in Nat
  BY LenProperties
<1>2. PICK r : r = [i \in 0..Len(t) |-> Reads(m, t, r, i)]
  BY <1>1, ReadingsExist
<1>3. \E f : f = [i \in 0..Len(t) |->
                    IF i = 0 THEN [at |-> "text", said |-> <<>>] ELSE Read(m, f[i - 1], t[i])]
  BY Zenon, <1>2 DEF Reads, Beginning
<1>4. PICK f : /\ f = [i \in 0..Len(t) |->
                    IF i = 0 THEN [at |-> "text", said |-> <<>>] ELSE Read(m, f[i - 1], t[i])]
               /\ Readings(m, t) = f
  BY Zenon, <1>3 DEF Readings
<1>5. f[0] = Beginning /\ \A i \in 1..Len(t) : f[i] = Read(m, f[i - 1], t[i])
  BY <1>1, <1>4 DEF Beginning
<1> QED
  BY <1>4, <1>5

\* What has been read of a text does not depend on what follows.
LEMMA ReadingsOfPrefix ==
    ASSUME NEW m, NEW t \in Seq(0..127), NEW p \in Seq(0..127)
    PROVE  \A i \in 0..Len(t) : Readings(m, t \o p)[i] = Readings(m, t)[i]
<1> DEFINE S == {i \in 0..Len(t) : Readings(m, t \o p)[i] = Readings(m, t)[i]}
<1>1. Len(t) \in Nat /\ Len(p) \in Nat
  BY LenProperties
<1>2. /\ t \o p \in Seq(0..127) /\ Len(t \o p) = Len(t) + Len(p)
      /\ \A i \in 1..Len(t) : (t \o p)[i] = t[i]
  BY <1>1, ConcatProperties
<1>3. Readings(m, t \o p)[0] = Readings(m, t)[0]
  BY <1>2, ReadingsAre
<1>4. ASSUME NEW i \in 1..Len(t), Readings(m, t \o p)[i - 1] = Readings(m, t)[i - 1]
      PROVE  Readings(m, t \o p)[i] = Readings(m, t)[i]
  <2>1. Readings(m, t \o p)[i] = Read(m, Readings(m, t \o p)[i - 1], (t \o p)[i])
    <3>1. PICK u : u = t \o p
      OBVIOUS
    <3>2. u \in Seq(0..127) /\ i \in 1..Len(u)
      BY <1>1, <1>2, <3>1
    <3>3. Readings(m, u)[i] = Read(m, Readings(m, u)[i - 1], u[i])
      BY <3>2, ReadingsAre
    <3> QED
      BY <3>1, <3>3
  <2>2. Readings(m, t)[i] = Read(m, Readings(m, t)[i - 1], t[i])
    BY <1>1, ReadingsAre
  <2> QED
    BY <1>2, <1>4, <2>1, <2>2
<1>5. 0 \in S /\ \A i \in 1..Len(t) : i - 1 \in S => i \in S
  BY <1>1, <1>3, <1>4
<1> HIDE DEF S
<1>6. \A i \in 0..Len(t) : i \in S
  BY <1>1, <1>5, UpTo
<1> QED
  BY <1>6 DEF S

\* base64 says values, quoted-printable numbers.
Values == [at : {"text"}, said : Seq(0..63)]
QpReaders ==
    {r \in [at : {"text", "code", "return", "soft", "digit", "astray"}, said : Seq(Nat)] :
       r.at = "digit" => r.said # <<>>}

LEMMA BeginningTypes == Beginning \in Values /\ Beginning \in QpReaders
BY EmptySeq DEF Beginning, Values, QpReaders

LEMMA Base64Typed == ASSUME NEW r \in Values, NEW ch \in 0..127 PROVE ReadBase64(r, ch) \in Values
<1>1. CASE Base64Value(ch) = -1
  BY <1>1 DEF ReadBase64
<1>2. CASE Base64Value(ch) # -1
  <2>1. Base64Value(ch) \in 0..63
    BY <1>2 DEF Base64Value
  <2>2. Append(r.said, Base64Value(ch)) \in Seq(0..63)
    BY <2>1, AppendProperties DEF Values
  <2> QED
    BY <1>2, <2>2 DEF ReadBase64, Values
<1> QED
  BY <1>1, <1>2

\* What a reader of quoted-printable makes of a character.
Astray(r, ch) ==
    \/ r.at = "return" /\ ch # LF
    \/ r.at = "code" /\ ch \notin Hex \cup {CR, LF}
    \/ r.at = "soft" /\ ch # LF
    \/ r.at = "digit" /\ ch \notin Hex
    \/ r.at = "astray"
LEMMA QpReads ==
    ASSUME NEW r, NEW ch, NEW q, q = ReadQp(r, ch)
    PROVE  /\ r.at = "text" /\ ch \notin {EQ, CR, LF} => q = [r EXCEPT !.said = Append(@, ch)]
           /\ r.at = "text" /\ ch = EQ => q = [r EXCEPT !.at = "code"]
           /\ r.at = "text" /\ ch = CR => q = [r EXCEPT !.at = "return"]
           /\ r.at \in {"text", "return"} /\ ch = LF => q = [at |-> "text", said |-> r.said \o CRLF]
           /\ r.at = "code" /\ ch = CR => q = [r EXCEPT !.at = "soft"]
           /\ r.at \in {"code", "soft"} /\ ch = LF => q = [r EXCEPT !.at = "text"]
           /\ r.at = "code" /\ ch \in Hex => q = [at |-> "digit", said |-> Append(r.said, HexaToChar(ch))]
           /\ r.at = "digit" /\ ch \in Hex =>
                q = [at |-> "text", said |-> [r.said EXCEPT ![Len(r.said)] = @ * 16 + HexaToChar(ch)]]
           /\ Astray(r, ch) => q = [r EXCEPT !.at = "astray"]
<1>1. r.at = "text" /\ ch \notin {EQ, CR, LF} => q = [r EXCEPT !.said = Append(@, ch)]
  BY DEF ReadQp, Hex, EQ, CR, LF
<1>2. r.at = "text" /\ ch = EQ => q = [r EXCEPT !.at = "code"]
  BY DEF ReadQp, Hex, EQ, CR, LF
<1>3. r.at = "text" /\ ch = CR => q = [r EXCEPT !.at = "return"]
  BY DEF ReadQp, Hex, EQ, CR, LF
<1>4. r.at \in {"text", "return"} /\ ch = LF => q = [at |-> "text", said |-> r.said \o CRLF]
  BY DEF ReadQp, Hex, EQ, CR, LF
<1>5. r.at = "code" /\ ch = CR => q = [r EXCEPT !.at = "soft"]
  BY DEF ReadQp, Hex, EQ, CR, LF
<1>6. r.at \in {"code", "soft"} /\ ch = LF => q = [r EXCEPT !.at = "text"]
  BY DEF ReadQp, Hex, EQ, CR, LF
<1>7. r.at = "code" /\ ch \in Hex => q = [at |-> "digit", said |-> Append(r.said, HexaToChar(ch))]
  BY DEF ReadQp, Hex, EQ, CR, LF
<1>8. r.at = "digit" /\ ch \in Hex =>
        q = [at |-> "text", said |-> [r.said EXCEPT ![Len(r.said)] = @ * 16 + HexaToChar(ch)]]
  BY DEF ReadQp, Hex, EQ, CR, LF
<1>9. Astray(r, ch) => q = [r EXCEPT !.at = "astray"]
  BY DEF ReadQp, Hex, EQ, CR, LF, Astray
<1> QED
  BY <1>1, <1>2, <1>3, <1>4, <1>5, <1>6, <1>7, <1>8, <1>9

LEMMA QpTyped ==
    ASSUME NEW r \in QpReaders, NEW ch \in 0..127
    PROVE  ReadQp(r, ch) \in QpReaders
<1> DEFINE At == {"text", "code", "return", "soft", "digit", "astray"}
<1>0. PICK q : q = ReadQp(r, ch)
  OBVIOUS
<1>1. r.said \in Seq(Nat) /\ r.at \in At /\ r = [at |-> r.at, said |-> r.said]
  BY DEF QpReaders
<1>2. PICK h : h = HexaToChar(ch)
  OBVIOUS
<1>3. h \in Nat
  BY <1>2 DEF HexaToChar
<1>4. /\ Append(r.said, ch) \in Seq(Nat) /\ Append(r.said, h) \in Seq(Nat)
      /\ Append(r.said, h) # <<>>
  <2>1. PICK u : u = Append(r.said, h)
    OBVIOUS
  <2>2. u \in Seq(Nat) /\ Len(u) = Len(r.said) + 1 /\ Len(r.said) \in Nat
    BY <1>1, <1>3, <2>1, AppendProperties, LenProperties
  <2>3. u # <<>>
    BY <2>2, EmptySeq
  <2>4. ch \in Nat
    OBVIOUS
  <2>5. Append(r.said, ch) \in Seq(Nat)
    BY <1>1, <2>4, AppendProperties
  <2> QED
    BY <2>1, <2>2, <2>3, <2>5
<1>5. r.said \o CRLF \in Seq(Nat)
  <2>1. CRLF \in Seq(Nat)
    BY DEF CRLF, CR, LF
  <2> QED
    BY <1>1, <2>1, ConcatProperties
<1>6. \A x \in At \ {"digit"}, s \in Seq(Nat) : [at |-> x, said |-> s] \in QpReaders
  BY DEF QpReaders
<1>7. \A x \in At \ {"digit"} : [r EXCEPT !.at = x] \in QpReaders
  BY <1>1 DEF QpReaders
<1>8. CASE r.at = "digit" /\ ch \in Hex
  <2>1. PICK s : s = [r.said EXCEPT ![Len(r.said)] = @ * 16 + h]
    OBVIOUS
  <2>2. Len(r.said) \in 1..Len(r.said) /\ r.said[Len(r.said)] \in Nat
    BY <1>1, <1>8, EmptySeq, LenProperties, ElementOfSeq DEF QpReaders
  <2>3. s \in Seq(Nat)
    BY <1>1, <1>3, <2>1, <2>2, ExceptSeq
  <2>4. q = [at |-> "text", said |-> s]
    BY <1>0, <1>2, <1>8, <2>1, QpReads
  <2> QED
    BY <1>0, <1>6, <2>3, <2>4
<1>9. CASE r.at = "code" /\ ch \in Hex
  <2>1. q = [at |-> "digit", said |-> Append(r.said, h)]
    BY <1>0, <1>2, <1>9, QpReads
  <2> QED
    BY <1>0, <1>4, <2>1 DEF QpReaders
<1>10. CASE r.at = "text" /\ ch \notin {EQ, CR, LF}
  <2>1. q = [r EXCEPT !.said = Append(@, ch)]
    BY <1>0, <1>10, QpReads
  <2> QED
    BY <1>0, <1>1, <1>4, <1>10, <2>1 DEF QpReaders
<1>11. CASE r.at \in {"text", "return"} /\ ch = LF
  <2>1. q = [at |-> "text", said |-> r.said \o CRLF]
    BY <1>0, <1>11, QpReads
  <2> QED
    BY <1>0, <1>5, <1>6, <2>1
<1>12. \/ r.at = "digit" /\ ch \in Hex
       \/ r.at = "code" /\ ch \in Hex
       \/ r.at = "text" /\ ch \notin {EQ, CR, LF}
       \/ r.at \in {"text", "return"} /\ ch = LF
       \/ \E x \in At \ {"digit"} : q = [r EXCEPT !.at = x]
  <2>1. PICK x \in At : r.at = x
    BY <1>1
  <2> QED
    BY <1>0, <2>1, QpReads DEF Astray
<1> QED
  BY <1>0, <1>7, <1>8, <1>9, <1>10, <1>11, <1>12

LEMMA ReadingsTyped ==
    ASSUME NEW t \in Seq(0..127)
    PROVE  \A i \in 0..Len(t) : /\ Readings("base64", t)[i] \in Values
                                /\ Readings("quoted-printable", t)[i] \in QpReaders
<1> DEFINE S == {i \in 0..Len(t) : /\ Readings("base64", t)[i] \in Values
                                   /\ Readings("quoted-printable", t)[i] \in QpReaders}
<1>1. Len(t) \in Nat
  BY LenProperties
<1>2. 0 \in S
  BY <1>1, ReadingsAre, BeginningTypes
<1>3. ASSUME NEW i \in 1..Len(t), i - 1 \in S PROVE i \in S
  <2>1. t[i] \in 0..127
    BY <1>1, ElementOfSeq
  <2>2. /\ Readings("base64", t)[i] = ReadBase64(Readings("base64", t)[i - 1], t[i])
        /\ Readings("quoted-printable", t)[i] = ReadQp(Readings("quoted-printable", t)[i - 1], t[i])
    BY <1>1, ReadingsAre DEF Read
  <2>3. PICK v, q : v = Readings("base64", t)[i - 1] /\ q = Readings("quoted-printable", t)[i - 1]
    OBVIOUS
  <2>4. v \in Values /\ q \in QpReaders
    BY <1>3, <2>3
  <2>5. ReadBase64(v, t[i]) \in Values /\ ReadQp(q, t[i]) \in QpReaders
    BY <2>1, <2>4, Base64Typed, QpTyped
  <2> QED
    BY <2>2, <2>3, <2>5
<1> HIDE DEF S
<1>4. \A i \in 0..Len(t) : i \in S
  BY <1>1, <1>2, <1>3, UpTo
<1> QED
  BY <1>4 DEF S

\* A reader of quoted-printable who has gone astray stays there.
LEMMA AstrayForEver ==
    ASSUME NEW t \in Seq(0..127), NEW i \in 0..Len(t), NEW r, r = Readings("quoted-printable", t),
           r[i].at = "astray"
    PROVE  \A j \in i..Len(t) : r[j].at = "astray"
<1> DEFINE S == {k \in 0..(Len(t) - i) : r[i + k].at = "astray"}
<1>1. Len(t) \in Nat
  BY LenProperties
<1>2. 0 \in S
  BY <1>1
<1>3. ASSUME NEW k \in 1..(Len(t) - i), r[i + (k - 1)].at = "astray" PROVE r[i + k].at = "astray"
  <2>1. i + k \in 1..Len(t) /\ (i + k) - 1 = i + (k - 1)
    BY <1>1
  <2>2. PICK q : q = r[i + (k - 1)]
    OBVIOUS
  <2>3. r[i + k] = ReadQp(q, t[i + k])
    BY <2>1, <2>2, ReadingsAre DEF Read
  <2>4. ReadQp(q, t[i + k]) = [q EXCEPT !.at = "astray"]
    BY <1>3, <2>2 DEF ReadQp
  <2>5. q \in QpReaders
    BY <1>1, <2>1, <2>2, ReadingsTyped
  <2> QED
    BY <2>3, <2>4, <2>5 DEF QpReaders
<1>4. \A k \in 1..(Len(t) - i) : k - 1 \in S => k \in S
  BY <1>3
<1> HIDE DEF S
<1>5. \A k \in 0..(Len(t) - i) : k \in S
  <2>1. Len(t) - i \in Nat
    BY <1>1
  <2> QED
    BY <2>1, <1>2, <1>4, UpTo
<1> QED
  <2> TAKE j \in i..Len(t)
  <2>1. j - i \in 0..(Len(t) - i) /\ i + (j - i) = j
    BY <1>1
  <2>2. j - i \in S
    BY <1>5, <2>1
  <2>3. r[i + (j - i)].at = "astray"
    BY <2>2 DEF S
  <2> QED
    BY <2>1, <2>3
-----------------------------------------------------------------------------
(***************************************************************************)
(* quoted-printable: what has been decoded, with the run of literals that  *)
(* waits to be copied, is what a reader has read who stands where the      *)
(* decoder stands.                                                         *)
(***************************************************************************)
\* The piece is the end of what was sent.
SentInv ==
    /\ Len(piece) <= Len(sent)
    /\ \A i \in 1..Len(piece) : sent[Len(sent) - Len(piece) + i] = piece[i]

LEMMA SentAtFirst == Init => SentInv
BY EmptySeq DEF Init, SentInv

LEMMA SentKept == ASSUME Runs, SentInv, BodyParse \/ UNCHANGED <<piece, sent>> PROVE SentInv'
<1>1. CASE UNCHANGED <<piece, sent>>
  BY <1>1 DEF SentInv
<1>2. CASE BodyParse
  <2>1. PICK p \in SeqOf(Characters[mechanism], MaxSent[mechanism] - Len(sent)) :
           piece' = p /\ sent' = sent \o p
    BY <1>2 DEF BodyParse
  <2>2. p \in Seq(0..127)
    <3>1. MaxSent[mechanism] - Len(sent) \in Int
      BY MaxSentAssumption, LenProperties DEF Runs, CallInv
    <3> QED
      BY <2>1, <3>1, PiecesType DEF Runs, CallInv
  <2>3. sent \in Seq(0..127) /\ Len(sent) \in Nat /\ Len(p) \in Nat
    BY <2>2, LenProperties DEF Runs, CallInv
  <2>4. /\ Len(sent \o p) = Len(sent) + Len(p)
        /\ \A i \in 1..(Len(sent) + Len(p)) : (sent \o p)[i] = IF i <= Len(sent) THEN sent[i] ELSE p[i - Len(sent)]
    BY <2>2, <2>3, ConcatProperties
  <2>5. ASSUME NEW i \in 1..Len(p) PROVE (sent \o p)[Len(sent) + i] = p[i]
    BY <2>3, <2>4
  <2> QED
    BY <2>1, <2>3, <2>4, <2>5 DEF SentInv
<1> QED
  BY <1>1, <1>2

\* Where a reader is behind i characters of the piece.
Qp == "quoted-printable"
At(i) == Readings(Qp, sent)[Len(sent) - Len(piece) + i]
Readable == Reading(Qp, sent).at \in {"text", "return"}

LEMMA QpNext ==
    ASSUME Runs, SentInv, NEW i \in 0..Len(piece)
    PROVE  /\ At(i) \in QpReaders
           /\ i < Len(piece) => At(i + 1) = ReadQp(At(i), Char(i))
           /\ Readable => At(i).at # "astray"
           /\ At(Len(piece)) = Reading(Qp, sent)
<1>1. /\ sent \in Seq(0..127) /\ piece \in Seq(0..127) /\ Len(sent) \in Nat /\ Len(piece) \in Nat
      /\ Len(piece) <= Len(sent)
  BY LenProperties DEF Runs, CallInv, SentInv
<1>2. PICK b \in Nat : b = Len(sent) - Len(piece)
  <2>1. Len(sent) - Len(piece) \in Nat
    BY <1>1
  <2> QED
    BY <2>1
<1>3. b + i \in 0..Len(sent) /\ b + Len(piece) = Len(sent)
  BY <1>1, <1>2
<1>4. At(i) \in QpReaders
  BY <1>1, <1>2, <1>3, ReadingsTyped DEF At, Qp
<1>5. ASSUME i < Len(piece) PROVE At(i + 1) = ReadQp(At(i), Char(i))
  <2>1. b + (i + 1) \in 1..Len(sent) /\ (b + (i + 1)) - 1 = b + i /\ i + 1 \in 1..Len(piece)
    BY <1>1, <1>2, <1>5
  <2>2. sent[b + (i + 1)] = piece[i + 1]
    BY <1>2, <2>1 DEF SentInv
  <2>3. Readings(Qp, sent)[b + (i + 1)] = Read(Qp, Readings(Qp, sent)[b + i], sent[b + (i + 1)])
    BY <1>1, <2>1, ReadingsAre
  <2> QED
    BY <1>2, <2>2, <2>3 DEF At, Char, Read, Qp
<1>6. At(Len(piece)) = Reading(Qp, sent)
  BY <1>2, <1>3 DEF At, Reading
<1>7. ASSUME Readable PROVE At(i).at # "astray"
  <2> SUFFICES ASSUME At(i).at = "astray" PROVE FALSE
    OBVIOUS
  <2>1. PICK r : r = Readings(Qp, sent)
    OBVIOUS
  <2>2. r[b + i].at = "astray"
    BY <1>2, <2>1 DEF At
  <2>3. Len(sent) \in (b + i)..Len(sent)
    BY <1>1, <1>3
  <2>4. r[Len(sent)].at = "astray"
    BY <1>1, <1>3, <2>1, <2>2, <2>3, AstrayForEver DEF Qp
  <2> QED
    BY <1>7, <2>1, <2>4 DEF Readable, Reading
<1> QED
  BY <1>4, <1>5, <1>6, <1>7

QpFollows ==
    /\ (stream \o out.str) \o Literal = At(cur).said
    /\ \/ state \in {"normal", "coded"} /\ start + count = cur /\ At(cur).at \in {"text", "return"}
       \/ state = "cr" /\ start + count + 1 = cur /\ At(cur).at = "return"
QpInv ==
    mechanism = Qp /\ whole /\ Readable =>
      /\ state = "idle" => stream = Reading(Qp, sent).said
      /\ state \in QpStates => QpFollows

\* What is known at a turn of the decoder.
QpTurn ==
    /\ Runs /\ SentInv /\ StringInv /\ mechanism = Qp /\ Readable
    /\ state \in QpStates /\ QpFollows

LEMMA QpTurnTypes ==
    ASSUME QpTurn
    PROVE  /\ stream \in Seq(Nat) /\ out.str \in Seq(Nat) /\ Literal \in Seq(Nat)
           /\ out \in OutType /\ Literal \in Seq(Bytes)
           /\ Len(piece) \in Nat /\ cur \in Nat /\ cur <= Len(piece)
           /\ start \in Nat /\ count \in Nat /\ cur \in 0..Len(piece)
           /\ At(cur) \in QpReaders /\ At(cur).said \in Seq(Nat)
<1>1. Literal \in Seq(Bytes) /\ Len(piece) \in Nat
  BY LiteralType, LengthOfPiece DEF QpTurn, Runs
<1>2. stream \in Seq(Bytes) /\ out \in OutType
  BY DEF QpTurn, StringInv, Holds, Qp
<1>3. cur \in 0..Len(piece) /\ start \in 0..cur /\ count \in Nat
  BY DEF QpTurn, Runs, CallInv
<1>4. ASSUME NEW s \in Seq(Bytes) PROVE s \in Seq(Nat)
  <2>1. Len(s) \in Nat /\ s \in [1..Len(s) -> Bytes]
    BY LenProperties
  <2>2. Bytes \subseteq Nat
    BY DEF Bytes, Behind, Unset
  <2>3. \A i \in 1..Len(s) : s[i] \in Nat
    BY <2>1, <2>2
  <2>4. s \in [1..Len(s) -> Nat]
    BY <2>1, <2>3
  <2> QED
    BY <2>1, <2>4, SeqDef
<1>5. At(cur) \in QpReaders
  BY <1>3, QpNext DEF QpTurn
<1> QED
  BY <1>1, <1>2, <1>3, <1>4, <1>5 DEF OutType, QpReaders

\* What Write leaves, if memory is granted.
LEMMA WriteMeans ==
    ASSUME QpTurn, NEW val \in Seq(Nat), NEW n, NEW next, Write(val, n, next), whole'
    PROVE  /\ whole /\ state' = next /\ count' = n
           /\ out'.str = (out.str \o Literal) \o val
           /\ UNCHANGED <<mechanism, piece, stream, sent>>
<1>1. PICK s \in Written(val) : /\ out' = s
                                /\ IF s.ok THEN state' = next /\ UNCHANGED whole
                                   ELSE state' = "idle" /\ whole' = FALSE
  BY DEF Write
<1>2. s.ok /\ state' = next /\ whole' = whole
  BY <1>1
<1>3. ASSUME NEW o \in OutType, NEW v \in Seq(Nat), NEW t \in AppendLen(o, v)
      PROVE  t.ok => t.str = o.str \o v
  BY DEF AppendLen, MaybeExpand, OutType
<1>4. PICK u \in AppendLen(out, Literal) : s \in IF u.ok THEN AppendLen(u, val) ELSE {u}
  BY <1>1 DEF Written
<1>5. u \in OutType
  BY <1>4, Appended, QpTurnTypes DEF QpTurn, StringInv, Holds, Qp
<1>6. u.ok /\ u.str = out.str \o Literal
  BY <1>2, <1>3, <1>4, QpTurnTypes
<1>7. s.str = u.str \o val
  BY <1>2, <1>3, <1>4, <1>5, <1>6
<1> QED
  BY <1>1, <1>2, <1>6, <1>7 DEF Write

LEMMA LiteralNext ==
    ASSUME QpTurn, piece' = piece
    PROVE  /\ count' = 0 => Literal' = <<>>
           /\ count' = 1 /\ start' \in Nat /\ start' < Len(piece) => Literal' = <<piece[start' + 1]>>
           /\ count' = count + 1 /\ start' = start /\ start + count < Len(piece) =>
                Literal' = Append(Literal, piece[start + count + 1])
<1>1. Len(piece) \in Nat /\ start \in Nat /\ count \in Nat /\ Literal \in Seq(Bytes)
  BY QpTurnTypes
<1>2. ASSUME count' = 0 PROVE Literal' = <<>>
  <2>1. Literal' = [i \in 1..0 |-> IF start' + i <= Len(piece') THEN piece'[start' + i] ELSE Behind]
    BY <1>2 DEF Literal
  <2> QED
    BY <2>1
<1>3. ASSUME count' = 1, start' \in Nat, start' < Len(piece) PROVE Literal' = <<piece[start' + 1]>>
  <2>1. Literal' = [i \in 1..1 |-> IF start' + i <= Len(piece) THEN piece[start' + i] ELSE Behind]
    BY <1>3 DEF Literal
  <2>2. \A i \in 1..1 : (IF start' + i <= Len(piece) THEN piece[start' + i] ELSE Behind) = piece[start' + 1]
    BY <1>1, <1>3
  <2>3. Literal' = [i \in 1..1 |-> piece[start' + 1]]
    BY <2>1, <2>2
  <2> QED
    BY <2>3
<1>4. ASSUME count' = count + 1, start' = start, start + count < Len(piece)
      PROVE  Literal' = Append(Literal, piece[start + count + 1])
  <2> DEFINE Shown(i) == IF start + i <= Len(piece) THEN piece[start + i] ELSE Behind
  <2>1. Literal' = [i \in 1..(count + 1) |-> Shown(i)]
    BY <1>4 DEF Literal
  <2>2. Literal = [i \in 1..count |-> Shown(i)]
    BY DEF Literal
  <2>3. Shown(count + 1) = piece[start + count + 1]
    BY <1>1, <1>4
  <2> HIDE DEF Shown
  <2>4. Len(Literal) = count
    BY <1>1, <2>2
  <2>5. PICK x : x = Shown(count + 1)
    OBVIOUS
  <2>6. PICK q : q = Append(Literal, x)
    OBVIOUS
  <2>7. /\ Len(q) = count + 1 /\ q = [i \in 1..Len(q) |-> q[i]]
        /\ \A i \in 1..(count + 1) : q[i] = IF i <= count THEN Literal[i] ELSE x
    <3>1. \A i \in 1..count : Literal[i] \in Bytes
      BY <1>1, <2>4, ElementOfSeq
    <3>2. PICK S : S = Bytes \cup {x}
      OBVIOUS
    <3>3. Literal \in Seq(S) /\ x \in S
      <4>1. Literal \in [1..count -> S]
        BY <2>2, <3>1, <3>2
      <4> QED
        BY <1>1, <3>2, <4>1, SeqDef
    <3>4. /\ q \in Seq(S) /\ Len(q) = count + 1
          /\ \A i \in 1..(count + 1) : q[i] = IF i <= count THEN Literal[i] ELSE x
      BY <1>1, <2>4, <2>6, <3>3, AppendProperties
    <3>5. q \in [1..Len(q) -> S]
      BY <3>4, LenProperties
    <3> QED
      BY <3>4, <3>5
  <2>8. \A i \in 1..(count + 1) : q[i] = Shown(i)
    BY <1>1, <2>2, <2>5, <2>7
  <2>9. Literal' = q
    BY <2>1, <2>7, <2>8
  <2> QED
    BY <2>3, <2>5, <2>6, <2>9
<1> QED
  BY <1>2, <1>3, <1>4

LEMMA Joined ==
    ASSUME NEW S, NEW a \in Seq(S), NEW b \in Seq(S), NEW c \in Seq(S)
    PROVE  (a \o b) \o c = a \o (b \o c)
BY ConcatAssociative

LEMMA IntsJoined ==
    ASSUME NEW a \in Seq(Int), NEW b \in Seq(Int), NEW c \in Seq(Int)
    PROVE  a \o (b \o c) = (a \o b) \o c
<1>1. PICK S : S = Int
  OBVIOUS
<1>2. a \in Seq(S) /\ b \in Seq(S) /\ c \in Seq(S)
  BY <1>1
<1> QED
  BY <1>2, Joined

LEMMA NatsJoined ==
    ASSUME NEW a \in Seq(Nat), NEW b \in Seq(Nat), NEW c \in Seq(Nat)
    PROVE  a \o (b \o c) = (a \o b) \o c
<1>1. PICK S : S = Nat
  OBVIOUS
<1>2. a \in Seq(S) /\ b \in Seq(S) /\ c \in Seq(S)
  BY <1>1
<1> QED
  BY <1>2, Joined

LEMMA GrownBy ==
    ASSUME QpTurn, NEW val \in Seq(Nat)
    PROVE  stream \o ((out.str \o Literal) \o val) = ((stream \o out.str) \o Literal) \o val
<1>1. PICK a, b, c : a = stream /\ b = out.str /\ c = Literal
  OBVIOUS
<1>2. a \in Seq(Nat) /\ b \in Seq(Nat) /\ c \in Seq(Nat)
  BY <1>1, QpTurnTypes
<1>3. PICK e : e = b \o c
  OBVIOUS
<1>4. e \in Seq(Nat)
  BY <1>2, <1>3, ConcatProperties
<1>5. a \o (e \o val) = (a \o e) \o val
  BY <1>2, <1>4, NatsJoined
<1>6. a \o (b \o c) = (a \o b) \o c
  BY <1>2, NatsJoined
<1> QED
  BY <1>1, <1>3, <1>5, <1>6

\* A run is copied, with val behind it; what follows is lit.
LEMMA QpWrote ==
    ASSUME QpTurn, NEW val \in Seq(Nat), NEW n, Write(val, n, "normal"), whole',
           NEW lit \in Seq(Nat), Literal' = lit, NEW k \in Nat, cur' = k, start' + n = k,
           At(k).at = "text", At(k).said = (At(cur).said \o val) \o lit
    PROVE  QpFollows'
<1>1. /\ state' = "normal" /\ count' = n /\ out'.str = (out.str \o Literal) \o val
      /\ UNCHANGED <<piece, stream, sent>>
  BY WriteMeans
<1>2. At(cur)' = At(k)
  BY <1>1 DEF At
<1>3. (stream \o out.str) \o Literal = At(cur).said
  BY DEF QpTurn, QpFollows
<1>4. stream \o ((out.str \o Literal) \o val) = ((stream \o out.str) \o Literal) \o val
  BY GrownBy
<1>5. stream \o out'.str = At(cur).said \o val
  BY <1>1, <1>3, <1>4
<1>6. ((stream \o out.str) \o Literal)' = At(k).said
  BY <1>1, <1>5
<1> QED
  BY <1>1, <1>2, <1>6 DEF QpFollows

LEMMA AppendBehind ==
    \A a, b \in Seq(Nat), x \in Nat :
       /\ a \o Append(b, x) = Append(a \o b, x) /\ (a \o <<>>) \o <<x>> = Append(a, x)
       /\ (a \o b) \o <<>> = a \o b /\ a \o <<>> = a /\ (a \o <<x>>) \o <<>> = Append(a, x)
  OBVIOUS

\* A reader at the beginning of a line or in it reads one character.
LEMMA FromText ==
    ASSUME QpTurn, NEW i \in 0..Len(piece), i < Len(piece), At(i).at \in {"text", "return"}
    PROVE  /\ Char(i) = LF => At(i + 1).at = "text" /\ At(i + 1).said = At(i).said \o CRLF
           /\ At(i).at = "return" => Char(i) = LF
           /\ Char(i) = CR => At(i + 1).at = "return" /\ At(i + 1).said = At(i).said
           /\ Char(i) = EQ => At(i + 1).at = "code" /\ At(i + 1).said = At(i).said
           /\ Char(i) \notin {EQ, CR, LF} =>
                At(i + 1).at = "text" /\ At(i + 1).said = Append(At(i).said, Char(i))
<1>1. PICK r, q, ch : r = At(i) /\ q = At(i + 1) /\ ch = Char(i)
  OBVIOUS
<1>2. i + 1 \in 0..Len(piece)
  BY QpTurnTypes
<1>3. r \in QpReaders /\ q = ReadQp(r, ch) /\ q.at # "astray"
  BY <1>1, <1>2, QpNext DEF QpTurn
<1>4. r.at = "return" => ch = LF
  <2> SUFFICES ASSUME r.at = "return", ch # LF PROVE FALSE
    OBVIOUS
  <2>1. q = [r EXCEPT !.at = "astray"]
    BY <1>3, QpReads DEF Astray
  <2> QED
    BY <1>3, <2>1 DEF QpReaders
<1>5. ch = LF => q.at = "text" /\ q.said = r.said \o CRLF
  <2>1. r.at \in {"text", "return"}
    BY <1>1
  <2> QED
    BY <1>3, <2>1, QpReads
<1>6. ch = CR => q.at = "return" /\ q.said = r.said
  BY <1>1, <1>3, <1>4, QpReads DEF QpReaders, CR, LF
<1>7. ch = EQ => q.at = "code" /\ q.said = r.said
  BY <1>1, <1>3, <1>4, QpReads DEF QpReaders, EQ, LF
<1>8. ch \notin {EQ, CR, LF} => q.at = "text" /\ q.said = Append(r.said, ch)
  BY <1>1, <1>3, <1>4, QpReads DEF QpReaders
<1> QED
  BY <1>1, <1>4, <1>5, <1>6, <1>7, <1>8

\* Behind "=", and behind "=" and one character.
LEMMA FromCode ==
    ASSUME QpTurn, NEW i \in 0..Len(piece), i < Len(piece), At(i).at = "code"
    PROVE  /\ Char(i) = LF => At(i + 1).at = "text" /\ At(i + 1).said = At(i).said
           /\ Char(i) = CR => At(i + 1).at = "soft" /\ At(i + 1).said = At(i).said
           /\ Char(i) \notin {CR, LF} =>
                At(i + 1).at = "digit" /\ At(i + 1).said = Append(At(i).said, HexaToChar(Char(i)))
<1>1. PICK r, q, ch : r = At(i) /\ q = At(i + 1) /\ ch = Char(i)
  OBVIOUS
<1>2. i + 1 \in 0..Len(piece)
  BY QpTurnTypes
<1>3. r \in QpReaders /\ q = ReadQp(r, ch) /\ q.at # "astray" /\ r.at = "code"
  BY <1>1, <1>2, QpNext DEF QpTurn
<1>4. ch \in Hex \cup {CR, LF}
  <2> SUFFICES ASSUME ch \notin Hex \cup {CR, LF} PROVE FALSE
    OBVIOUS
  <2>1. q = [r EXCEPT !.at = "astray"]
    BY <1>3, QpReads DEF Astray
  <2> QED
    BY <1>3, <2>1 DEF QpReaders
<1>5. ch = LF => q.at = "text" /\ q.said = r.said
  BY <1>3, QpReads DEF QpReaders
<1>6. ch = CR => q.at = "soft" /\ q.said = r.said
  BY <1>3, QpReads DEF QpReaders
<1>7. ch \in Hex => q.at = "digit" /\ q.said = Append(r.said, HexaToChar(ch))
  BY <1>3, QpReads
<1> QED
  BY <1>1, <1>4, <1>5, <1>6, <1>7

LEMMA FromSoft ==
    ASSUME QpTurn, NEW i \in 0..Len(piece), i < Len(piece), At(i).at = "soft"
    PROVE  Char(i) = LF /\ At(i + 1).at = "text" /\ At(i + 1).said = At(i).said
<1>1. PICK r, q, ch : r = At(i) /\ q = At(i + 1) /\ ch = Char(i)
  OBVIOUS
<1>2. i + 1 \in 0..Len(piece)
  BY QpTurnTypes
<1>3. r \in QpReaders /\ q = ReadQp(r, ch) /\ q.at # "astray" /\ r.at = "soft"
  BY <1>1, <1>2, QpNext DEF QpTurn
<1>4. ch = LF
  <2> SUFFICES ASSUME ch # LF PROVE FALSE
    OBVIOUS
  <2>1. q = [r EXCEPT !.at = "astray"]
    BY <1>3, QpReads DEF Astray
  <2> QED
    BY <1>3, <2>1 DEF QpReaders
<1>5. q = [r EXCEPT !.at = "text"]
  BY <1>3, <1>4, QpReads
<1> QED
  BY <1>1, <1>3, <1>4, <1>5 DEF QpReaders

LEMMA HexaTyped == \A ch : HexaToChar(ch) \in 0..15
BY DEF HexaToChar

LEMMA FromDigit ==
    ASSUME QpTurn, NEW i \in 0..Len(piece), i < Len(piece), At(i).at = "digit",
           NEW s \in Seq(Nat), NEW h \in Nat, At(i).said = Append(s, h)
    PROVE  /\ At(i + 1).at = "text"
           /\ At(i + 1).said = Append(s, h * 16 + HexaToChar(Char(i)))
<1>1. PICK r, q, ch, d : r = At(i) /\ q = At(i + 1) /\ ch = Char(i) /\ d = HexaToChar(ch)
  OBVIOUS
<1>2. i + 1 \in 0..Len(piece)
  BY QpTurnTypes
<1>3. r \in QpReaders /\ q = ReadQp(r, ch) /\ q.at # "astray" /\ r.at = "digit" /\ r.said = Append(s, h)
  BY <1>1, <1>2, QpNext DEF QpTurn
<1>4. ch \in Hex
  <2> SUFFICES ASSUME ch \notin Hex PROVE FALSE
    OBVIOUS
  <2>1. q = [r EXCEPT !.at = "astray"]
    BY <1>3, QpReads DEF Astray
  <2> QED
    BY <1>3, <2>1 DEF QpReaders
<1>5. q = [at |-> "text", said |-> [r.said EXCEPT ![Len(r.said)] = @ * 16 + d]]
  BY <1>1, <1>3, <1>4, QpReads
<1>6. d \in Nat
  <2>1. HexaToChar(ch) \in 0..15
    BY Zenon, HexaTyped
  <2>2. d \in 0..15
    BY <1>1, <2>1
  <2> QED
    BY <2>2
<1>7. [Append(s, h) EXCEPT ![Len(Append(s, h))] = @ * 16 + d] = Append(s, h * 16 + d)
  <2>1. PICK a, b : a = Append(s, h) /\ b = Append(s, h * 16 + d)
    OBVIOUS
  <2>2. h * 16 + d \in Nat
    BY <1>6
  <2>3. /\ a \in Seq(Nat) /\ b \in Seq(Nat) /\ Len(a) = Len(s) + 1 /\ Len(b) = Len(s) + 1
        /\ a[Len(s) + 1] = h /\ b[Len(s) + 1] = h * 16 + d
        /\ \A j \in 1..Len(s) : a[j] = s[j] /\ b[j] = s[j]
    BY <2>1, <2>2, AppendProperties
  <2>4. Len(s) \in Nat
    BY LenProperties
  <2>5. PICK c : c = [a EXCEPT ![Len(a)] = @ * 16 + d]
    OBVIOUS
  <2>6. /\ c \in Seq(Nat) /\ Len(c) = Len(a)
        /\ \A j \in 1..Len(a) : c[j] = IF j = Len(a) THEN h * 16 + d ELSE a[j]
    <3>1. Len(a) \in 1..Len(a) /\ a[Len(a)] * 16 + d = h * 16 + d
      BY <2>3, <2>4
    <3>2. c = [a EXCEPT ![Len(a)] = h * 16 + d]
      BY <2>5, <3>1
    <3> QED
      BY <2>2, <2>3, <3>1, <3>2, ExceptSeq
  <2>7. \A j \in 1..Len(c) : c[j] = b[j]
    <3> TAKE j \in 1..Len(c)
    <3>1. j \in 1..(Len(s) + 1) /\ j \in 1..Len(a)
      BY <2>3, <2>6
    <3>2. CASE j = Len(s) + 1
      BY <2>3, <2>6, <3>1, <3>2
    <3>3. CASE j \in 1..Len(s)
      <4>1. j # Len(a)
        BY <2>3, <2>4, <3>3
      <4> QED
        BY <2>3, <2>6, <3>1, <3>3, <4>1
    <3> QED
      BY <2>4, <3>1, <3>2, <3>3
  <2>8. c = b
    BY <2>3, <2>6, <2>7, SeqEqual
  <2> QED
    BY <2>1, <2>5, <2>8
<1> QED
  BY <1>1, <1>3, <1>5, <1>7
\* One turn after another.
LEMMA QpStays ==
    ASSUME QpTurn, UNCHANGED <<piece, sent, stream, out, start, count>>, NEW k \in Nat, cur' = k,
           At(k).said = At(cur).said,
           \/ state' \in {"normal", "coded"} /\ start + count = k /\ At(k).at \in {"text", "return"}
           \/ state' = "cr" /\ start + count + 1 = k /\ At(k).at = "return"
    PROVE  QpFollows'
<1>1. At(cur)' = At(k) /\ Literal' = Literal
  BY DEF At, Literal
<1>2. (stream \o out.str) \o Literal = At(cur).said
  BY DEF QpTurn, QpFollows
<1>3. ((stream \o out.str) \o Literal)' = At(k).said
  BY <1>1, <1>2
<1> QED
  BY <1>1, <1>3 DEF QpFollows

LEMMA QpNormal ==
    ASSUME QpTurn, state \in {"normal", "coded"}, More
    PROVE  /\ start + count = cur /\ At(cur).at \in {"text", "return"}
           /\ cur \in 0..Len(piece) /\ cur < Len(piece) /\ cur + 1 \in Nat
BY QpTurnTypes DEF QpTurn, QpFollows, More

LEMMA QpEqualFollows == ASSUME QpTurn, QpEqual PROVE QpFollows'
<1>1. cur \in Nat /\ start + count = cur /\ At(cur).at \in {"text", "return"}
  BY QpTurnTypes, QpNormal DEF QpEqual
<1> QED
  BY <1>1, QpStays DEF QpEqual, input, run

LEMMA QpReturnFollows == ASSUME QpTurn, QpReturn PROVE QpFollows'
<1>1. state = "normal" /\ More /\ Char(cur) = CR /\ state' = "cr" /\ cur' = cur + 1
      /\ UNCHANGED <<piece, sent, stream, out, start, count>>
  BY DEF QpReturn, input, run
<1>2. /\ start + count = cur /\ cur \in 0..Len(piece) /\ cur < Len(piece) /\ cur + 1 \in Nat
      /\ At(cur).at \in {"text", "return"}
  BY <1>1, QpNormal
<1>3. At(cur + 1).at = "return" /\ At(cur + 1).said = At(cur).said
  BY <1>1, <1>2, FromText
<1>4. start + count + 1 = cur + 1
  BY <1>2
<1> QED
  BY <1>1, <1>2, <1>3, <1>4, QpStays

LEMMA CharTyped == ASSUME QpTurn, NEW i \in Nat, i < Len(piece) PROVE Char(i) \in 0..127
<1>1. i + 1 \in 1..Len(piece) /\ piece \in Seq(0..127)
  BY QpTurnTypes DEF QpTurn, Runs, CallInv
<1> QED
  BY <1>1, ElementOfSeq DEF Char

LEMMA QpLiteralFollows == ASSUME QpTurn, QpLiteral, whole' PROVE QpFollows'
<1>1. state = "normal" /\ More /\ Char(cur) \notin {EQ, LF, CR} /\ cur' = cur + 1
  BY DEF QpLiteral
<1>2. /\ start + count = cur /\ cur \in 0..Len(piece) /\ cur < Len(piece) /\ cur + 1 \in Nat
      /\ At(cur).at \in {"text", "return"} /\ cur \in Nat
  BY <1>1, QpNormal
<1>3. PICK ch \in 0..127 : ch = Char(cur)
  BY <1>2, CharTyped
<1>4. At(cur + 1).at = "text" /\ At(cur + 1).said = Append(At(cur).said, ch)
  BY <1>1, <1>2, <1>3, FromText
<1>5. At(cur).said \in Seq(Nat) /\ ch \in Nat
  <2>1. ch \in Nat
    OBVIOUS
  <2> QED
    BY <2>1, QpTurnTypes
<1>6. CASE count < MaxRun
  <2>1. count' = count + 1 /\ UNCHANGED <<piece, sent, state, start, stream, out>>
    BY <1>6 DEF QpLiteral, input
  <2>2. Literal' = Append(Literal, ch)
    BY <1>2, <1>3, <2>1, LiteralNext DEF Char
  <2>3. At(cur)' = At(cur + 1)
    BY <1>1, <2>1 DEF At
  <2>4. (stream \o out.str) \o Append(Literal, ch) = Append((stream \o out.str) \o Literal, ch)
    <3>1. PICK a : a = stream \o out.str
      OBVIOUS
    <3>2. a \in Seq(Nat)
      BY <3>1, QpTurnTypes, ConcatProperties
    <3>3. PICK l \in Seq(Nat) : l = Literal
      BY QpTurnTypes
    <3>4. ch \in Nat
      BY <1>5
    <3>5. a \o Append(l, ch) = Append(a \o l, ch)
      BY <3>2, <3>4, AppendBehind
    <3> QED
      BY <3>1, <3>3, <3>5
  <2>5. ((stream \o out.str) \o Literal)' = (stream \o out.str) \o Append(Literal, ch)
    BY <2>1, <2>2
  <2>6. (stream \o out.str) \o Literal = At(cur).said
    BY DEF QpTurn, QpFollows
  <2>7. ((stream \o out.str) \o Literal)' = At(cur + 1).said
    BY <1>4, <2>4, <2>5, <2>6
  <2>8. start' + count' = cur'
    BY <1>1, <1>2, <2>1, QpTurnTypes
  <2> QED
    BY <1>1, <1>4, <2>1, <2>3, <2>7, <2>8 DEF QpFollows
<1>7. CASE ~(count < MaxRun)
  <2>1. Write(<<>>, 1, "normal") /\ start' = cur
    BY <1>7 DEF QpLiteral
  <2>2. count' = 1 /\ piece' = piece
    BY <2>1, WriteEffect
  <2>3. Literal' = <<ch>>
    BY <1>2, <1>3, <2>1, <2>2, LiteralNext DEF Char
  <2>4. (At(cur).said \o <<>>) \o <<ch>> = Append(At(cur).said, ch)
    BY <1>5, AppendBehind, EmptySeq
  <2>5. <<>> \in Seq(Nat) /\ <<ch>> \in Seq(Nat)
    BY <1>5
  <2> QED
    BY <1>1, <1>2, <1>4, <2>1, <2>3, <2>4, <2>5, QpWrote
<1> QED
  BY <1>6, <1>7

\* What is written ends a run, and the next one is empty.
LEMMA QpWroteAll ==
    ASSUME QpTurn, NEW val \in Seq(Nat), Write(val, 0, "normal"), whole',
           NEW k \in Nat, cur' = k, start' = k, At(k).at = "text", At(k).said = At(cur).said \o val
    PROVE  QpFollows'
<1>1. Literal' = <<>>
  BY WriteEffect, LiteralNext
<1>2. At(k).said = (At(cur).said \o val) \o <<>>
  BY QpTurnTypes, AppendBehind
<1>3. <<>> \in Seq(Nat) /\ start' + 0 = k
  OBVIOUS
<1> QED
  BY <1>1, <1>2, <1>3, QpWrote

LEMMA CrLfTyped == CRLF \in Seq(Nat) /\ <<>> \in Seq(Nat)
BY DEF CRLF, CR, LF

LEMMA QpNewlineFollows == ASSUME QpTurn, QpNewline, whole' PROVE QpFollows'
<1>1. state = "normal" /\ More /\ Char(cur) = LF /\ Write(CRLF, 0, "normal")
      /\ cur' = cur + 1 /\ start' = cur + 1
  BY DEF QpNewline, Skip
<1>2. /\ cur \in 0..Len(piece) /\ cur < Len(piece) /\ cur + 1 \in Nat
      /\ At(cur).at \in {"text", "return"}
  BY <1>1, QpNormal
<1>3. At(cur + 1).at = "text" /\ At(cur + 1).said = At(cur).said \o CRLF
  BY <1>1, <1>2, FromText
<1> QED
  BY <1>1, <1>2, <1>3, CrLfTyped, QpWroteAll

LEMMA QpBreakFollows == ASSUME QpTurn, QpBreak, whole' PROVE QpFollows'
<1>1. state = "cr" /\ More /\ Write(CRLF, 0, "normal")
      /\ Skip(IF Char(cur) = LF THEN 1 ELSE 0)
  BY DEF QpBreak
<1>2. cur \in 0..Len(piece) /\ cur < Len(piece) /\ cur + 1 \in Nat /\ At(cur).at = "return"
  BY <1>1, QpTurnTypes DEF QpTurn, QpFollows, More
<1>3. Char(cur) = LF
  BY <1>2, FromText
<1>4. At(cur + 1).at = "text" /\ At(cur + 1).said = At(cur).said \o CRLF
  BY <1>2, <1>3, FromText
<1>5. cur' = cur + 1 /\ start' = cur + 1
  BY <1>1, <1>3 DEF Skip
<1> QED
  BY <1>1, <1>2, <1>4, <1>5, CrLfTyped, QpWroteAll

LEMMA QpSoftBreakFollows == ASSUME QpTurn, QpSoftBreak, whole' PROVE QpFollows'
<1>1. state = "coded" /\ cur + 1 < Len(piece) /\ Char(cur) = EQ
  BY DEF QpSoftBreak, QpTurn, Runs, CodeInv
<1>2. /\ cur \in 0..Len(piece) /\ cur < Len(piece) /\ cur \in Nat /\ Len(piece) \in Nat
      /\ cur + 1 \in 0..Len(piece) /\ cur + 2 \in 0..Len(piece)
      /\ (cur + 1) + 1 = cur + 2 /\ (cur + 2) + 1 = cur + 3
      /\ cur + 2 \in Nat /\ cur + 3 \in Nat
  BY <1>1, QpTurnTypes
<1>3. At(cur).at \in {"text", "return"}
  BY <1>1 DEF QpTurn, QpFollows
<1>4. At(cur + 1).at = "code" /\ At(cur + 1).said = At(cur).said
  BY <1>1, <1>2, <1>3, FromText
<1>5. At(cur).said \o <<>> = At(cur).said
  BY QpTurnTypes, ConcatEmptySeq
<1>6. CASE Char(cur + 1) = LF /\ Skip(2) /\ Write(<<>>, 0, "normal")
  <2>1. At(cur + 2).at = "text" /\ At(cur + 2).said = At(cur).said
    BY <1>1, <1>2, <1>4, <1>6, FromCode
  <2> QED
    BY <1>2, <1>5, <1>6, <2>1, CrLfTyped, QpWroteAll DEF Skip
<1>7. CASE Char(cur + 1) = CR
  <2>1. At(cur + 2).at = "soft" /\ At(cur + 2).said = At(cur).said
    BY <1>1, <1>2, <1>4, <1>7, FromCode
  <2>2. cur + 2 < Len(piece)
    <3> SUFFICES ASSUME cur + 2 = Len(piece) PROVE FALSE
      BY <1>1, <1>2
    <3>1. At(Len(piece)).at = "soft"
      BY <2>1
    <3>2. At(Len(piece)) = Reading(Qp, sent)
      BY <1>2, QpNext DEF QpTurn
    <3> QED
      BY <3>1, <3>2 DEF QpTurn, Readable
  <2>3. Char(cur + 2) = LF /\ At(cur + 3).at = "text" /\ At(cur + 3).said = At(cur).said
    BY <1>2, <2>1, <2>2, FromSoft
  <2>4. Skip(IF Char(cur + 2) = LF THEN 3 ELSE 2) /\ Write(<<>>, 0, "normal")
    BY <1>2, <1>7, <2>2 DEF QpSoftBreak, CR, LF
  <2>5. cur' = cur + 3 /\ start' = cur + 3
    BY <2>3, <2>4 DEF Skip
  <2> QED
    BY <1>2, <1>5, <2>3, <2>4, <2>5, CrLfTyped, QpWroteAll
<1> QED
  BY <1>6, <1>7 DEF QpSoftBreak

LEMMA QpOctetFollows == ASSUME QpTurn, QpOctet, whole' PROVE QpFollows'
<1>1. /\ state = "coded" /\ cur + 2 < Len(piece) /\ Char(cur) = EQ
      /\ Char(cur + 1) \notin {LF, CR} /\ Write(<<ToChar(cur + 1)>>, 0, "normal")
      /\ cur' = cur + 3 /\ start' = cur + 3
  BY DEF QpOctet, QpTurn, Runs, CodeInv, Skip
<1>2. /\ cur \in 0..Len(piece) /\ cur < Len(piece) /\ cur \in Nat
      /\ cur + 1 \in 0..Len(piece) /\ cur + 1 < Len(piece) /\ cur + 2 \in 0..Len(piece)
      /\ (cur + 1) + 1 = cur + 2 /\ (cur + 2) + 1 = cur + 3 /\ cur + 3 \in Nat
  BY <1>1, QpTurnTypes
<1>3. At(cur).at \in {"text", "return"}
  BY <1>1 DEF QpTurn, QpFollows
<1>4. At(cur + 1).at = "code" /\ At(cur + 1).said = At(cur).said
  BY <1>1, <1>2, <1>3, FromText
<1>5. PICK h, l, s : h = HexaToChar(Char(cur + 1)) /\ l = HexaToChar(Char(cur + 2)) /\ s = At(cur).said
  OBVIOUS
<1>6. At(cur + 2).at = "digit" /\ At(cur + 2).said = Append(s, h)
  BY <1>1, <1>2, <1>4, <1>5, FromCode
<1>7. h \in Nat /\ l \in Nat
  <2>1. HexaToChar(Char(cur + 1)) \in 0..15 /\ HexaToChar(Char(cur + 2)) \in 0..15
    BY Zenon, HexaTyped
  <2>2. h \in 0..15 /\ l \in 0..15
    BY <1>5, <2>1
  <2> QED
    BY <2>2
<1>8. s \in Seq(Nat)
  BY <1>5, QpTurnTypes
<1>9. At(cur + 3).at = "text" /\ At(cur + 3).said = Append(s, h * 16 + l)
  <2>1. PICK i : i = cur + 2
    OBVIOUS
  <2>2. i \in 0..Len(piece) /\ i < Len(piece) /\ i + 1 = cur + 3
    BY <1>1, <1>2, <2>1
  <2>3. At(i).at = "digit" /\ At(i).said = Append(s, h) /\ l = HexaToChar(Char(i))
    BY <1>5, <1>6, <2>1
  <2>4. At(i + 1).at = "text" /\ At(i + 1).said = Append(s, h * 16 + HexaToChar(Char(i)))
    BY <1>7, <1>8, <2>2, <2>3, FromDigit
  <2> QED
    BY <2>2, <2>3, <2>4
<1>10. PICK v \in Nat : v = h * 16 + l /\ v = ToChar(cur + 1)
  <2>1. ToChar(cur + 1) = h * 16 + l
    BY <1>2, <1>5 DEF ToChar
  <2>2. h * 16 + l \in Nat
    BY <1>7
  <2> QED
    BY <2>1, <2>2
<1>11. s \o <<v>> = Append(s, v) /\ <<v>> \in Seq(Nat)
  <2>1. (s \o <<>>) \o <<v>> = Append(s, v) /\ s \o <<>> = s
    BY <1>8, AppendBehind, ConcatEmptySeq, EmptySeq
  <2> QED
    BY <2>1
<1> QED
  BY <1>1, <1>2, <1>5, <1>9, <1>10, <1>11, QpWroteAll

\* A piece that is cut in a code does not end between two.
LEMMA QpCutFollows == ASSUME QpTurn, QpCut PROVE FALSE
<1>1. state = "coded" /\ Char(cur) = EQ /\ cur < Len(piece)
  BY DEF QpCut, QpTurn, Runs, CodeInv, CallInv
<1>2. /\ cur \in 0..Len(piece) /\ cur \in Nat /\ cur + 1 \in 0..Len(piece)
      /\ (cur + 1) + 1 = cur + 2 /\ Len(piece) \in Nat
  BY <1>1, QpTurnTypes
<1>3. At(cur).at \in {"text", "return"}
  BY <1>1 DEF QpTurn, QpFollows
<1>4. At(cur + 1).at = "code"
  BY <1>1, <1>2, <1>3, FromText
<1>5. At(Len(piece)).at \in {"text", "return"}
  BY <1>2, QpNext DEF QpTurn, Readable
<1>6. CASE cur + 1 = Len(piece)
  BY <1>4, <1>5, <1>6
<1>7. CASE cur + 2 = Len(piece) /\ Char(cur + 1) \notin {LF, CR}
  <2>1. At(cur + 2).at = "digit"
    BY <1>2, <1>4, <1>7, FromCode
  <2> QED
    BY <1>5, <1>7, <2>1
<1> QED
  BY <1>6, <1>7 DEF QpCut

LEMMA QpEndFollows ==
    ASSUME QpTurn, QpEnd, whole'
    PROVE  stream' = Reading(Qp, sent).said
<1>1. cur = Len(piece)
  BY QpTurnTypes DEF QpEnd, QpTurn, QpFollows, More
<1>2. PICK s \in AppendLen(out, Literal) : s.ok /\ stream' = stream \o s.str
  <2>1. PICK s \in AppendLen(out, Literal) :
           whole' = (whole /\ s.ok) /\ stream' = stream \o (IF s.ok THEN s.str ELSE <<>>)
    BY DEF QpEnd, Done
  <2> QED
    BY <2>1
<1>3. s.str = out.str \o Literal
  BY <1>2, QpTurnTypes DEF AppendLen, MaybeExpand, OutType
<1>4. stream \o (out.str \o Literal) = (stream \o out.str) \o Literal
  BY QpTurnTypes, NatsJoined
<1>5. At(Len(piece)) = Reading(Qp, sent)
  BY <1>1, QpTurnTypes, QpNext DEF QpTurn
<1> QED
  BY <1>1, <1>2, <1>3, <1>4, <1>5 DEF QpTurn, QpFollows

LEMMA BodyParseFollows ==
    ASSUME Runs, StringInv, QpInv, mechanism = Qp, BodyParse, whole'
    PROVE  state' = "normal" /\ QpFollows'
<1>0. PICK p \in SeqOf(Characters[mechanism], MaxSent[mechanism] - Len(sent)) :
         /\ piece' = p /\ sent' = sent \o p
         /\ \E s \in Allocated(Len(p)) :
               /\ out' = s
               /\ state' = (IF s.ok THEN Entry(mechanism) ELSE "idle")
               /\ whole' = (whole /\ BetweenCodes(mechanism, sent) /\ s.ok)
  BY DEF BodyParse
<1>1. PICK s \in Allocated(Len(p)) :
         /\ piece' = p /\ sent' = sent \o p /\ out' = s
         /\ state' = (IF s.ok THEN Entry(mechanism) ELSE "idle")
         /\ whole' = (whole /\ BetweenCodes(mechanism, sent) /\ s.ok)
  BY <1>0
<1>2. /\ state = "idle" /\ cur' = 0 /\ start' = 0 /\ count' = 0
      /\ UNCHANGED <<mechanism, stream>>
  BY DEF BodyParse
<1>3. whole /\ BetweenCodes(mechanism, sent) /\ s.ok
  BY <1>1
<1>4. Readable
  BY <1>3 DEF BetweenCodes, Readable, Qp
<1>5. stream = Reading(Qp, sent).said
  BY <1>2, <1>3, <1>4 DEF QpInv
<1>6. p \in Seq(0..127) /\ sent \in Seq(0..127) /\ Len(p) \in Nat /\ Len(sent) \in Nat
  <2>1. MaxSent[mechanism] - Len(sent) \in Int
    BY MaxSentAssumption, LenProperties DEF Runs, CallInv
  <2>2. p \in Seq(0..127)
    BY <1>0, <2>1, PiecesType DEF Runs, CallInv
  <2> QED
    BY <2>2, LenProperties DEF Runs, CallInv
<1>7. Len(sent \o p) - Len(p) + 0 = Len(sent)
  <2>1. Len(sent \o p) = Len(sent) + Len(p)
    BY <1>6, ConcatProperties
  <2> QED
    BY <1>6, <2>1
<1>8. At(cur)' = Reading(Qp, sent)
  <2>1. At(cur)' = Readings(Qp, sent \o p)[Len(sent)]
    BY <1>1, <1>2, <1>7 DEF At
  <2>2. Readings(Qp, sent \o p)[Len(sent)] = Readings(Qp, sent)[Len(sent)]
    BY <1>6, ReadingsOfPrefix
  <2> QED
    BY <2>1, <2>2 DEF Reading
<1>9. s.str = <<>>
  BY <1>1 DEF Allocated, SizedNew, MaybeExpand, NullString, Qp
<1>10. Literal' = <<>>
  <2>1. Literal' = [i \in 1..0 |-> IF start' + i <= Len(piece') THEN piece'[start' + i] ELSE Behind]
    BY <1>2 DEF Literal
  <2> QED
    BY <2>1
<1>11. (stream \o <<>>) \o <<>> = stream
  BY ConcatEmptySeq DEF StringInv
<1>12. state' = "normal"
  BY <1>1, <1>3 DEF Entry, Qp
<1>13. ((stream \o out.str) \o Literal)' = At(cur)'.said
  BY <1>1, <1>2, <1>5, <1>8, <1>9, <1>10, <1>11
<1> QED
  BY <1>2, <1>4, <1>8, <1>12, <1>13 DEF QpFollows, Readable

LEMMA QpKept ==
    ASSUME Runs, SentInv, StringInv, QpInv, [Next]_vars
    PROVE  QpInv'
<1> SUFFICES ASSUME mechanism' = Qp, whole', Readable'
             PROVE  /\ state' = "idle" => stream' = Reading(Qp, sent').said
                    /\ state' \in QpStates => QpFollows'
  BY DEF QpInv
<1>1. CASE UNCHANGED vars
  BY <1>1 DEF vars, QpInv, QpFollows, Readable, At, Literal
<1>2. CASE BodyParse
  <2>1. mechanism = Qp
    BY <1>2 DEF BodyParse
  <2>2. state' = "normal" /\ QpFollows'
    BY <1>2, <2>1, BodyParseFollows
  <2> QED
    BY <2>2
<1>3. CASE Turn
  <2>1. mechanism = Qp /\ sent' = sent /\ state # "idle"
    BY <1>3 DEF Turn, Base64Char, Base64End, QpEqual, QpNewline, QpReturn, QpLiteral, QpBreak, QpSoftBreak,
                QpOctet, QpCut, QpEnd, Binary, Write, input
  <2>2. Readable
    BY <2>1 DEF Readable
  <2>3. whole
    BY <1>3 DEF Turn, Base64Char, Base64End, QpEqual, QpNewline, QpReturn, QpLiteral, QpBreak, QpSoftBreak,
                QpOctet, QpCut, QpEnd, Binary, Write, input
  <2>4. ASSUME state \in QpStates PROVE QpTurn
    BY <2>1, <2>2, <2>3, <2>4 DEF QpInv, QpTurn
  <2>5. CASE QpEqual
    BY <2>4, <2>5, QpEqualFollows DEF QpEqual, QpStates
  <2>6. CASE QpNewline
    BY <2>4, <2>6, QpNewlineFollows, WriteMeans, CrLfTyped DEF QpNewline, QpStates
  <2>7. CASE QpReturn
    BY <2>4, <2>7, QpReturnFollows DEF QpReturn, QpStates
  <2>8. CASE QpLiteral
    <3>1. QpTurn /\ QpFollows'
      BY <2>4, <2>8, QpLiteralFollows DEF QpLiteral, QpStates
    <3> QED
      BY <3>1 DEF QpFollows
  <2>9. CASE QpBreak
    <3>1. QpTurn /\ QpFollows'
      BY <2>4, <2>9, QpBreakFollows DEF QpBreak, QpStates
    <3> QED
      BY <3>1 DEF QpFollows
  <2>10. CASE QpSoftBreak
    <3>1. QpTurn /\ QpFollows'
      BY <2>4, <2>10, QpSoftBreakFollows DEF QpSoftBreak, QpStates
    <3> QED
      BY <3>1 DEF QpFollows
  <2>11. CASE QpOctet
    <3>1. QpTurn /\ QpFollows'
      BY <2>4, <2>11, QpOctetFollows DEF QpOctet, QpStates
    <3> QED
      BY <3>1 DEF QpFollows
  <2>12. CASE QpCut
    BY <2>4, <2>12, QpCutFollows DEF QpCut, QpStates
  <2>13. CASE QpEnd
    <3>1. QpTurn
      BY <2>4, <2>13 DEF QpEnd, QpStates
    <3>2. state' = "idle"
      BY <2>13 DEF QpEnd, Done
    <3> QED
      BY <2>1, <2>13, <3>1, <3>2, QpEndFollows DEF QpStates
  <2>14. CASE Base64Char \/ Base64End \/ Binary
    BY <2>1, <2>14 DEF Base64Char, Base64End, Binary, Runs, CallInv, Qp
  <2> QED
    BY <1>3, <2>5, <2>6, <2>7, <2>8, <2>9, <2>10, <2>11, <2>12, <2>13, <2>14 DEF Turn
<1> QED
  BY <1>1, <1>2, <1>3 DEF Next

-----------------------------------------------------------------------------
(***************************************************************************)
(* base64: four values make three bytes, as their bits do.                 *)
(***************************************************************************)
\* The bytes of s are those of the values of v, q quanta of them.
Quartet(v, j) == [k \in 1..4 |-> v[4 * j + k]]
Quartets(v, s, q) ==
    /\ Len(s) = 3 * q /\ 4 * q <= Len(v)
    /\ \A j \in 0..(q - 1) : /\ s[3 * j + 1] = Out0(Quartet(v, j))
                             /\ s[3 * j + 2] = Out1(Quartet(v, j))
                             /\ s[3 * j + 3] = Out2(Quartet(v, j))

LEMMA BitAt ==
    ASSUME NEW v \in Seq(0..63), NEW m \in 0..(Len(v) - 1), NEW k \in 1..6
    PROVE  SixBits(v)[6 * m + k] = Bit(v[m + 1], k)
<1>1. Len(v) \in Nat
  BY LenProperties
<1>2. (6 * m + k) \in 1..(6 * Len(v))
  BY <1>1
<1>3. (6 * m + k + 5) \div 6 = m + 1 /\ 1 + ((6 * m + k - 1) % 6) = k
  BY <1>1
<1> QED
  BY <1>2, <1>3 DEF SixBits

LEMMA OctetAt ==
    ASSUME NEW v \in Seq(0..63), NEW i \in Nat, 8 * i + 8 <= 6 * Len(v)
    PROVE  Octets(SixBits(v))[i + 1] = Octet(SixBits(v), 8 * i)
<1>1. Len(v) \in Nat
  BY LenProperties
<1>2. PICK b : b = SixBits(v)
  OBVIOUS
<1>3. Len(b) = 6 * Len(v)
  BY <1>1, <1>2 DEF SixBits
<1>4. i + 1 \in 1..(Len(b) \div 8) /\ 8 * (i + 1) - 8 = 8 * i
  BY <1>1, <1>3
<1>5. Octets(b)[i + 1] = Octet(b, 8 * (i + 1) - 8)
  BY <1>4 DEF Octets
<1> QED
  BY <1>2, <1>4, <1>5

\* Six bits of one value and two of the next, and so on.
FirstBits(a, b) ==
    128 * ((a \div 32) % 2) + 64 * ((a \div 16) % 2) + 32 * ((a \div 8) % 2) + 16 * ((a \div 4) % 2)
    + 8 * ((a \div 2) % 2) + 4 * ((a \div 1) % 2) + 2 * ((b \div 32) % 2) + ((b \div 16) % 2)
SecondBits(a, b) ==
    128 * ((a \div 8) % 2) + 64 * ((a \div 4) % 2) + 32 * ((a \div 2) % 2) + 16 * ((a \div 1) % 2)
    + 8 * ((b \div 32) % 2) + 4 * ((b \div 16) % 2) + 2 * ((b \div 8) % 2) + ((b \div 4) % 2)
ThirdBits(a, b) ==
    128 * ((a \div 2) % 2) + 64 * ((a \div 1) % 2) + 32 * ((b \div 32) % 2) + 16 * ((b \div 16) % 2)
    + 8 * ((b \div 8) % 2) + 4 * ((b \div 4) % 2) + 2 * ((b \div 2) % 2) + ((b \div 1) % 2)

LEMMA FirstOctet ==
    ASSUME NEW a \in 0..63, NEW b \in 0..63
    PROVE  (a * 4 + b \div 16) % 256 = FirstBits(a, b)
<1>1. PICK r \in Int : r = b \div 16
  OBVIOUS
<1>2. 0 <= r /\ r < 4
  BY <1>1
<1>3. a = 32 * ((a \div 32) % 2) + 16 * ((a \div 16) % 2) + 8 * ((a \div 8) % 2)
            + 4 * ((a \div 4) % 2) + 2 * ((a \div 2) % 2) + ((a \div 1) % 2)
  OBVIOUS
<1>4. r = 2 * ((b \div 32) % 2) + ((b \div 16) % 2)
  BY <1>1
<1>5. (a * 4 + r) % 256 = a * 4 + r
  BY <1>2
<1> QED
  BY <1>1, <1>3, <1>4, <1>5 DEF FirstBits

LEMMA SecondOctet ==
    ASSUME NEW a \in 0..63, NEW b \in 0..63
    PROVE  (a * 16 + b \div 4) % 256 = SecondBits(a, b)
<1>1. PICK h, l, r \in Int : h = a \div 16 /\ l = a % 16 /\ r = b \div 4
  OBVIOUS
<1>2. a = 16 * h + l /\ 0 <= l /\ l < 16 /\ 0 <= r /\ r < 16
  BY <1>1
<1>3. l = 8 * ((a \div 8) % 2) + 4 * ((a \div 4) % 2) + 2 * ((a \div 2) % 2) + ((a \div 1) % 2)
  BY <1>1
<1>4. r = 8 * ((b \div 32) % 2) + 4 * ((b \div 16) % 2) + 2 * ((b \div 8) % 2) + ((b \div 4) % 2)
  BY <1>1
<1>5. a * 16 + r = 256 * h + (16 * l + r) /\ 0 <= 16 * l + r /\ 16 * l + r < 256
  BY <1>2
<1>6. (256 * h + (16 * l + r)) % 256 = 16 * l + r
  BY <1>5
<1> QED
  BY <1>1, <1>3, <1>4, <1>5, <1>6 DEF SecondBits

LEMMA ThirdOctet ==
    ASSUME NEW a \in 0..63, NEW b \in 0..63
    PROVE  (a * 64 + b) % 256 = ThirdBits(a, b)
<1>1. PICK h, l, r \in Int : h = a \div 4 /\ l = a % 4 /\ r = b
  OBVIOUS
<1>2. a = 4 * h + l /\ 0 <= l /\ l < 4 /\ 0 <= r /\ r < 64
  BY <1>1
<1>3. l = 2 * ((a \div 2) % 2) + ((a \div 1) % 2)
  BY <1>1
<1>4. r = 32 * ((b \div 32) % 2) + 16 * ((b \div 16) % 2) + 8 * ((b \div 8) % 2)
            + 4 * ((b \div 4) % 2) + 2 * ((b \div 2) % 2) + ((b \div 1) % 2)
  BY <1>1
<1>5. a * 64 + r = 256 * h + (64 * l + r) /\ 0 <= 64 * l + r /\ 64 * l + r < 256
  BY <1>2
<1>6. (256 * h + (64 * l + r)) % 256 = 64 * l + r
  BY <1>5
<1> QED
  BY <1>1, <1>3, <1>4, <1>5, <1>6 DEF ThirdBits

LEMMA BitIs ==
    \A n : /\ Bit(n, 1) = (n \div 32) % 2 /\ Bit(n, 2) = (n \div 16) % 2 /\ Bit(n, 3) = (n \div 8) % 2
           /\ Bit(n, 4) = (n \div 4) % 2 /\ Bit(n, 5) = (n \div 2) % 2 /\ Bit(n, 6) = (n \div 1) % 2
BY DEF Bit

LEMMA BitTyped == ASSUME NEW n \in 0..63, NEW k \in 1..6 PROVE Bit(n, k) \in Int
<1>1. <<32, 16, 8, 4, 2, 1>>[k] \in {32, 16, 8, 4, 2, 1}
  OBVIOUS
<1>2. PICK d \in {32, 16, 8, 4, 2, 1} : d = <<32, 16, 8, 4, 2, 1>>[k]
  BY <1>1
<1>3. (n \div d) % 2 \in Int
  OBVIOUS
<1> QED
  BY <1>2, <1>3 DEF Bit

\* The bytes that the bits of values make.
LEMMA OctetsAre ==
    ASSUME NEW v \in Seq(0..63)
    PROVE  /\ Len(Octets(SixBits(v))) = (6 * Len(v)) \div 8
           /\ Octets(SixBits(v)) \in Seq(Int)
           /\ \A j \in Nat :
                /\ 4 * j + 2 <= Len(v) => Octets(SixBits(v))[3 * j + 1] = Out0(Quartet(v, j))
                /\ 4 * j + 3 <= Len(v) => Octets(SixBits(v))[3 * j + 2] = Out1(Quartet(v, j))
                /\ 4 * j + 4 <= Len(v) => Octets(SixBits(v))[3 * j + 3] = Out2(Quartet(v, j))
<1>1. Len(v) \in Nat
  BY LenProperties
<1>2. PICK o, b : b = SixBits(v) /\ o = Octets(b)
  OBVIOUS
<1>3. Len(b) = 6 * Len(v)
  BY <1>1, <1>2 DEF SixBits
<1>4. Len(o) = (6 * Len(v)) \div 8 /\ Len(o) \in Nat
  BY <1>1, <1>2, <1>3 DEF Octets
<1>5. \A m \in 0..(Len(v) - 1), k \in 1..6 : b[6 * m + k] = Bit(v[m + 1], k)
  BY <1>2, BitAt
<1>6. \A i \in Nat : 8 * i + 8 <= 6 * Len(v) => o[i + 1] = Octet(b, 8 * i)
  BY <1>2, OctetAt
<1>7. \A m \in 0..(Len(v) - 1) : v[m + 1] \in 0..63
  <2> TAKE m \in 0..(Len(v) - 1)
  <2>1. m + 1 \in 1..Len(v)
    BY <1>1
  <2> QED
    BY <2>1, ElementOfSeq
<1>8. ASSUME NEW j \in Nat, 4 * j + 2 <= Len(v) PROVE o[3 * j + 1] = Out0(Quartet(v, j))
  <2>1. PICK x, y : x = v[4 * j + 1] /\ y = v[4 * j + 2]
    OBVIOUS
  <2>2. /\ 4 * j \in 0..(Len(v) - 1) /\ 4 * j + 1 \in 0..(Len(v) - 1)
        /\ (4 * j) + 1 = 4 * j + 1 /\ (4 * j + 1) + 1 = 4 * j + 2
    BY <1>1, <1>8
  <2>3. x \in 0..63 /\ y \in 0..63
    BY <1>7, <2>1, <2>2
  <2>4. \A k \in 1..6 : b[6 * (4 * j) + k] = Bit(x, k) /\ b[6 * (4 * j + 1) + k] = Bit(y, k)
    BY <1>5, <2>1, <2>2
  <2>5. o[3 * j + 1] = Octet(b, 24 * j + 0)
    <3>1. /\ 3 * j + 0 \in Nat /\ 8 * (3 * j + 0) + 8 <= 6 * Len(v) /\ 8 * (3 * j + 0) = 24 * j + 0
          /\ (3 * j + 0) + 1 = 3 * j + 1
      BY <1>1, <1>8
    <3> QED
      BY <1>6, <3>1
  <2>6. /\ b[24 * j + 1] = Bit(x, 1) /\ b[24 * j + 2] = Bit(x, 2) /\ b[24 * j + 3] = Bit(x, 3)
        /\ b[24 * j + 4] = Bit(x, 4) /\ b[24 * j + 5] = Bit(x, 5) /\ b[24 * j + 6] = Bit(x, 6)
    <3>1. /\ 6 * (4 * j) + 1 = 24 * j + 1 /\ 6 * (4 * j) + 2 = 24 * j + 2 /\ 6 * (4 * j) + 3 = 24 * j + 3
          /\ 6 * (4 * j) + 4 = 24 * j + 4 /\ 6 * (4 * j) + 5 = 24 * j + 5 /\ 6 * (4 * j) + 6 = 24 * j + 6
      OBVIOUS
    <3> QED
      BY <2>4, <3>1
  <2>7. /\ b[24 * j + 7] = Bit(y, 1) /\ b[24 * j + 8] = Bit(y, 2)
    <3>1. /\ 6 * (4 * j + 1) + 1 = 24 * j + 7 /\ 6 * (4 * j + 1) + 2 = 24 * j + 8
      OBVIOUS
    <3> QED
      BY <2>4, <3>1
  <2>8. Out0(Quartet(v, j)) = AsChar(x * 4 + y \div 16)
    <3>1. Quartet(v, j)[1] = x /\ Quartet(v, j)[2] = y
      BY <2>1 DEF Quartet
    <3> QED
      BY <3>1 DEF Out0
  <2>9. Octet(b, 24 * j + 0) = AsChar(x * 4 + y \div 16)
    <3>1. PICK w \in Nat : w = 24 * j + 0
      OBVIOUS
    <3>2. /\ w + 1 = 24 * j + 1 /\ w + 2 = 24 * j + 2 /\ w + 3 = 24 * j + 3 /\ w + 4 = 24 * j + 4
          /\ w + 5 = 24 * j + 5 /\ w + 6 = 24 * j + 6 /\ w + 7 = 24 * j + 7 /\ w + 8 = 24 * j + 8
      BY <3>1
    <3>3. Octet(b, w) = FirstBits(x, y)
      BY <2>6, <2>7, <3>1, <3>2, BitIs DEF Octet, FirstBits
    <3>4. Octet(b, w) = (x * 4 + y \div 16) % 256
      BY Zenon, <2>3, <3>3, FirstOctet
    <3> QED
      BY <3>1, <3>4 DEF AsChar
  <2> QED
    BY <2>5, <2>8, <2>9
<1>9. ASSUME NEW j \in Nat, 4 * j + 3 <= Len(v) PROVE o[3 * j + 2] = Out1(Quartet(v, j))
  <2>1. PICK x, y : x = v[4 * j + 2] /\ y = v[4 * j + 3]
    OBVIOUS
  <2>2. /\ 4 * j + 1 \in 0..(Len(v) - 1) /\ 4 * j + 2 \in 0..(Len(v) - 1)
        /\ (4 * j + 1) + 1 = 4 * j + 2 /\ (4 * j + 2) + 1 = 4 * j + 3
    BY <1>1, <1>9
  <2>3. x \in 0..63 /\ y \in 0..63
    BY <1>7, <2>1, <2>2
  <2>4. \A k \in 1..6 : b[6 * (4 * j + 1) + k] = Bit(x, k) /\ b[6 * (4 * j + 2) + k] = Bit(y, k)
    BY <1>5, <2>1, <2>2
  <2>5. o[3 * j + 2] = Octet(b, 24 * j + 8)
    <3>1. /\ 3 * j + 1 \in Nat /\ 8 * (3 * j + 1) + 8 <= 6 * Len(v) /\ 8 * (3 * j + 1) = 24 * j + 8
          /\ (3 * j + 1) + 1 = 3 * j + 2
      BY <1>1, <1>9
    <3> QED
      BY <1>6, <3>1
  <2>6. /\ b[24 * j + 9] = Bit(x, 3) /\ b[24 * j + 10] = Bit(x, 4) /\ b[24 * j + 11] = Bit(x, 5)
        /\ b[24 * j + 12] = Bit(x, 6)
    <3>1. /\ 6 * (4 * j + 1) + 3 = 24 * j + 9 /\ 6 * (4 * j + 1) + 4 = 24 * j + 10 /\ 6 * (4 * j + 1) + 5 = 24 * j + 11
          /\ 6 * (4 * j + 1) + 6 = 24 * j + 12
      OBVIOUS
    <3> QED
      BY <2>4, <3>1
  <2>7. /\ b[24 * j + 13] = Bit(y, 1) /\ b[24 * j + 14] = Bit(y, 2) /\ b[24 * j + 15] = Bit(y, 3)
        /\ b[24 * j + 16] = Bit(y, 4)
    <3>1. /\ 6 * (4 * j + 2) + 1 = 24 * j + 13 /\ 6 * (4 * j + 2) + 2 = 24 * j + 14 /\ 6 * (4 * j + 2) + 3 = 24 * j + 15
          /\ 6 * (4 * j + 2) + 4 = 24 * j + 16
      OBVIOUS
    <3> QED
      BY <2>4, <3>1
  <2>8. Out1(Quartet(v, j)) = AsChar(x * 16 + y \div 4)
    <3>1. Quartet(v, j)[2] = x /\ Quartet(v, j)[3] = y
      BY <2>1 DEF Quartet
    <3> QED
      BY <3>1 DEF Out1
  <2>9. Octet(b, 24 * j + 8) = AsChar(x * 16 + y \div 4)
    <3>1. PICK w \in Nat : w = 24 * j + 8
      OBVIOUS
    <3>2. /\ w + 1 = 24 * j + 9 /\ w + 2 = 24 * j + 10 /\ w + 3 = 24 * j + 11 /\ w + 4 = 24 * j + 12
          /\ w + 5 = 24 * j + 13 /\ w + 6 = 24 * j + 14 /\ w + 7 = 24 * j + 15 /\ w + 8 = 24 * j + 16
      BY <3>1
    <3>3. Octet(b, w) = SecondBits(x, y)
      BY <2>6, <2>7, <3>1, <3>2, BitIs DEF Octet, SecondBits
    <3>4. Octet(b, w) = (x * 16 + y \div 4) % 256
      BY Zenon, <2>3, <3>3, SecondOctet
    <3> QED
      BY <3>1, <3>4 DEF AsChar
  <2> QED
    BY <2>5, <2>8, <2>9
<1>10. ASSUME NEW j \in Nat, 4 * j + 4 <= Len(v) PROVE o[3 * j + 3] = Out2(Quartet(v, j))
  <2>1. PICK x, y : x = v[4 * j + 3] /\ y = v[4 * j + 4]
    OBVIOUS
  <2>2. /\ 4 * j + 2 \in 0..(Len(v) - 1) /\ 4 * j + 3 \in 0..(Len(v) - 1)
        /\ (4 * j + 2) + 1 = 4 * j + 3 /\ (4 * j + 3) + 1 = 4 * j + 4
    BY <1>1, <1>10
  <2>3. x \in 0..63 /\ y \in 0..63
    BY <1>7, <2>1, <2>2
  <2>4. \A k \in 1..6 : b[6 * (4 * j + 2) + k] = Bit(x, k) /\ b[6 * (4 * j + 3) + k] = Bit(y, k)
    BY <1>5, <2>1, <2>2
  <2>5. o[3 * j + 3] = Octet(b, 24 * j + 16)
    <3>1. /\ 3 * j + 2 \in Nat /\ 8 * (3 * j + 2) + 8 <= 6 * Len(v) /\ 8 * (3 * j + 2) = 24 * j + 16
          /\ (3 * j + 2) + 1 = 3 * j + 3
      BY <1>1, <1>10
    <3> QED
      BY <1>6, <3>1
  <2>6. /\ b[24 * j + 17] = Bit(x, 5) /\ b[24 * j + 18] = Bit(x, 6)
    <3>1. /\ 6 * (4 * j + 2) + 5 = 24 * j + 17 /\ 6 * (4 * j + 2) + 6 = 24 * j + 18
      OBVIOUS
    <3> QED
      BY <2>4, <3>1
  <2>7. /\ b[24 * j + 19] = Bit(y, 1) /\ b[24 * j + 20] = Bit(y, 2) /\ b[24 * j + 21] = Bit(y, 3)
        /\ b[24 * j + 22] = Bit(y, 4) /\ b[24 * j + 23] = Bit(y, 5) /\ b[24 * j + 24] = Bit(y, 6)
    <3>1. /\ 6 * (4 * j + 3) + 1 = 24 * j + 19 /\ 6 * (4 * j + 3) + 2 = 24 * j + 20 /\ 6 * (4 * j + 3) + 3 = 24 * j + 21
          /\ 6 * (4 * j + 3) + 4 = 24 * j + 22 /\ 6 * (4 * j + 3) + 5 = 24 * j + 23 /\ 6 * (4 * j + 3) + 6 = 24 * j + 24
      OBVIOUS
    <3> QED
      BY <2>4, <3>1
  <2>8. Out2(Quartet(v, j)) = AsChar(x * 64 + y)
    <3>1. Quartet(v, j)[3] = x /\ Quartet(v, j)[4] = y
      BY <2>1 DEF Quartet
    <3> QED
      BY <3>1 DEF Out2
  <2>9. Octet(b, 24 * j + 16) = AsChar(x * 64 + y)
    <3>1. PICK w \in Nat : w = 24 * j + 16
      OBVIOUS
    <3>2. /\ w + 1 = 24 * j + 17 /\ w + 2 = 24 * j + 18 /\ w + 3 = 24 * j + 19 /\ w + 4 = 24 * j + 20
          /\ w + 5 = 24 * j + 21 /\ w + 6 = 24 * j + 22 /\ w + 7 = 24 * j + 23 /\ w + 8 = 24 * j + 24
      BY <3>1
    <3>3. Octet(b, w) = ThirdBits(x, y)
      BY <2>6, <2>7, <3>1, <3>2, BitIs DEF Octet, ThirdBits
    <3>4. Octet(b, w) = (x * 64 + y) % 256
      BY Zenon, <2>3, <3>3, ThirdOctet
    <3> QED
      BY <3>1, <3>4 DEF AsChar
  <2> QED
    BY <2>5, <2>8, <2>9
<1>11. o \in Seq(Int)
  <2>1. \A i \in 1..Len(o) : o[i] \in Int
    <3> SUFFICES ASSUME NEW i \in 1..Len(o) PROVE o[i] \in Int
      OBVIOUS
    <3>1. i - 1 \in Nat /\ 8 * (i - 1) + 8 <= 6 * Len(v)
      BY <1>1, <1>4
    <3>2. o[(i - 1) + 1] = Octet(b, 8 * (i - 1))
      BY <1>6, <3>1
    <3>3. \A n \in 1..Len(b) : b[n] \in Int
      <4> TAKE n \in 1..Len(b)
      <4>1. PICK x, k \in Nat : x = (n + 5) \div 6 /\ k = 1 + ((n - 1) % 6)
        BY <1>1, <1>3
      <4>2. x \in 1..Len(v) /\ k \in 1..6
        BY <1>1, <1>3, <4>1
      <4>3. v[x] \in 0..63
        BY <4>2, ElementOfSeq
      <4>4. b[n] = Bit(v[x], k)
        BY <1>2, <1>3, <4>1 DEF SixBits
      <4> QED
        BY <4>2, <4>3, <4>4, BitTyped
    <3>4. Octet(b, 8 * (i - 1)) \in Int
      <4>1. PICK w \in Nat : w = 8 * (i - 1)
        BY <3>1
      <4>2. \A k \in 1..8 : b[w + k] \in Int
        BY <1>3, <3>1, <3>3, <4>1
      <4>3. PICK c1, c2, c3, c4, c5, c6, c7, c8 \in Int :
              /\ c1 = b[w + 1] /\ c2 = b[w + 2] /\ c3 = b[w + 3] /\ c4 = b[w + 4]
              /\ c5 = b[w + 5] /\ c6 = b[w + 6] /\ c7 = b[w + 7] /\ c8 = b[w + 8]
        <5>1. /\ b[w + 1] \in Int /\ b[w + 2] \in Int /\ b[w + 3] \in Int /\ b[w + 4] \in Int
              /\ b[w + 5] \in Int /\ b[w + 6] \in Int /\ b[w + 7] \in Int /\ b[w + 8] \in Int
          BY <4>2
        <5> QED
          BY Zenon, <5>1
      <4>4. Octet(b, w) = 128 * c1 + 64 * c2 + 32 * c3 + 16 * c4 + 8 * c5 + 4 * c6 + 2 * c7 + c8
        BY <4>3 DEF Octet
      <4>5. Octet(b, w) \in Int
        BY <4>4
      <4> QED
        BY <4>1, <4>5
    <3> QED
      BY <3>2, <3>4
  <2>2. o \in [1..Len(o) -> Int]
    BY <1>2, <1>4, <2>1 DEF Octets
  <2> QED
    BY <1>4, <2>2, SeqDef
<1> QED
  BY <1>2, <1>4, <1>8, <1>9, <1>10, <1>11
-----------------------------------------------------------------------------
\* What has been read behind i characters of the piece.
B64 == "base64"
V(i) == Readings(B64, sent)[Len(sent) - Len(piece) + i].said

LEMMA ValueTyped == ASSUME NEW ch \in 0..127 PROVE Base64Value(ch) \in 0..63 \cup {-1}
BY DEF Base64Value

LEMMA B64Next ==
    ASSUME Runs, SentInv, NEW i \in 0..Len(piece)
    PROVE  /\ V(i) \in Seq(0..63)
           /\ i < Len(piece) /\ Base64Value(Char(i)) = -1 => V(i + 1) = V(i)
           /\ i < Len(piece) /\ Base64Value(Char(i)) # -1 =>
                /\ Base64Value(Char(i)) \in 0..63
                /\ V(i + 1) = Append(V(i), Base64Value(Char(i)))
           /\ V(Len(piece)) = Reading(B64, sent).said
<1>1. /\ sent \in Seq(0..127) /\ piece \in Seq(0..127) /\ Len(sent) \in Nat /\ Len(piece) \in Nat
      /\ Len(piece) <= Len(sent)
  BY LenProperties DEF Runs, CallInv, SentInv
<1>2. PICK b \in Nat : b = Len(sent) - Len(piece)
  <2>1. Len(sent) - Len(piece) \in Nat
    BY <1>1
  <2> QED
    BY <2>1
<1>3. b + i \in 0..Len(sent) /\ b + Len(piece) = Len(sent)
  BY <1>1, <1>2
<1>4. PICK r \in Values : r = Readings(B64, sent)[b + i]
  BY <1>1, <1>3, ReadingsTyped DEF B64
<1>5. V(i) = r.said /\ r.said \in Seq(0..63)
  BY <1>2, <1>4 DEF V, Values
<1>6. ASSUME i < Len(piece) PROVE V(i + 1) = ReadBase64(r, Char(i)).said /\ Char(i) \in 0..127
  <2>1. b + (i + 1) \in 1..Len(sent) /\ (b + (i + 1)) - 1 = b + i /\ i + 1 \in 1..Len(piece)
    BY <1>1, <1>2, <1>6
  <2>2. sent[b + (i + 1)] = piece[i + 1]
    BY <1>2, <2>1 DEF SentInv
  <2>3. Readings(B64, sent)[b + (i + 1)] = Read(B64, Readings(B64, sent)[b + i], sent[b + (i + 1)])
    BY <1>1, <2>1, ReadingsAre
  <2>4. piece[i + 1] \in 0..127
    BY <1>1, <2>1, ElementOfSeq
  <2> QED
    BY <1>2, <1>4, <2>2, <2>3, <2>4 DEF V, Char, Read, B64
<1>7. ASSUME i < Len(piece), Base64Value(Char(i)) = -1 PROVE V(i + 1) = V(i)
  BY <1>5, <1>6, <1>7 DEF ReadBase64
<1>8. ASSUME i < Len(piece), Base64Value(Char(i)) # -1
      PROVE  Base64Value(Char(i)) \in 0..63 /\ V(i + 1) = Append(V(i), Base64Value(Char(i)))
  <2>1. PICK ch \in 0..127 : ch = Char(i)
    BY <1>6, <1>8
  <2>2. Base64Value(ch) \in 0..63
    <3>1. Base64Value(ch) \in 0..63 \cup {-1}
      BY ValueTyped
    <3>2. Base64Value(ch) # -1
      BY <1>8, <2>1
    <3> QED
      BY <3>1, <3>2
  <2>3. ReadBase64(r, ch) = [r EXCEPT !.said = Append(@, Base64Value(ch))]
    BY <1>8, <2>1 DEF ReadBase64
  <2>4. ReadBase64(r, ch).said = Append(r.said, Base64Value(ch))
    BY <2>3 DEF Values
  <2> QED
    BY <1>5, <1>6, <1>8, <2>1, <2>2, <2>4
<1>9. V(Len(piece)) = Reading(B64, sent).said
  BY <1>2, <1>3 DEF V, Reading
<1> QED
  BY <1>5, <1>7, <1>8, <1>9

\* The bytes so far and the values of the quantum that is begun.
B64Follows(v, s, c, q) ==
    /\ Quartets(v, s, q) /\ Len(v) = 4 * q + Len(c)
    /\ \A j \in 1..Len(c) : c[j] = v[4 * q + j]
B64Inv ==
    mechanism = B64 /\ whole =>
      /\ state = "idle" /\ Len(Reading(B64, sent).said) % 4 # 1 =>
           stream = Octets(SixBits(Reading(B64, sent).said))
      /\ state = "base64" => \E q \in Nat : B64Follows(V(cur), stream \o out.str, chunk, q)

\* One value more.
LEMMA OneValue ==
    ASSUME NEW v \in Seq(0..63), NEW s \in Seq(Int), NEW c \in Seq(0..63), NEW q \in Nat,
           B64Follows(v, s, c, q), NEW x \in 0..63
    PROVE  /\ B64Follows(Append(v, x), s, Append(c, x), q)
           /\ Len(c) = 3 => B64Follows(Append(v, x),
                 s \o <<Out0(Append(c, x)), Out1(Append(c, x)), Out2(Append(c, x))>>, <<>>, q + 1)
<1>1. PICK w, d : w = Append(v, x) /\ d = Append(c, x)
  OBVIOUS
<1>2. /\ Len(v) \in Nat /\ Len(c) \in Nat /\ Len(v) = 4 * q + Len(c) /\ Len(s) = 3 * q
      /\ w \in Seq(0..63) /\ Len(w) = Len(v) + 1 /\ d \in Seq(0..63) /\ Len(d) = Len(c) + 1
      /\ \A j \in 1..Len(v) : w[j] = v[j]
      /\ \A j \in 1..Len(c) : d[j] = c[j]
      /\ w[Len(v) + 1] = x /\ d[Len(c) + 1] = x
  BY <1>1, AppendProperties, LenProperties DEF B64Follows, Quartets
<1>3. \A j \in 1..Len(d) : d[j] = w[4 * q + j]
  <2> TAKE j \in 1..Len(d)
  <2>1. CASE j = Len(c) + 1
    <3>1. 4 * q + j = Len(v) + 1
      BY <1>2, <2>1
    <3> QED
      BY <1>2, <2>1, <3>1
  <2>2. CASE j \in 1..Len(c)
    <3>1. 4 * q + j \in 1..Len(v)
      BY <1>2, <2>2
    <3>2. c[j] = v[4 * q + j]
      BY <2>2 DEF B64Follows
    <3> QED
      BY <1>2, <2>2, <3>1, <3>2
  <2> QED
    BY <1>2, <2>1, <2>2
<1>4. \A j \in 0..(q - 1) : Quartet(w, j) = Quartet(v, j)
  <2> TAKE j \in 0..(q - 1)
  <2>1. ASSUME NEW k \in 1..4 PROVE w[4 * j + k] = v[4 * j + k]
    <3>1. 4 * j + k \in 1..Len(v)
      BY <1>2
    <3> QED
      BY <1>2, <3>1
  <2> QED
    BY <2>1 DEF Quartet
<1>5. B64Follows(w, s, d, q)
  <2>1. Quartets(w, s, q)
    <3>1. 4 * q <= Len(w)
      BY <1>2
    <3> QED
      BY <1>4, <3>1 DEF B64Follows, Quartets
  <2>2. Len(w) = 4 * q + Len(d)
    BY <1>2
  <2> QED
    BY <1>3, <2>1, <2>2 DEF B64Follows
<1>6. ASSUME Len(c) = 3 PROVE B64Follows(w, s \o <<Out0(d), Out1(d), Out2(d)>>, <<>>, q + 1)
  <2>1. \A k \in 1..4 : Quartet(w, q)[k] = d[k]
    <3>1. Len(d) = 4
      BY <1>2, <1>6
    <3> QED
      BY <1>3, <3>1 DEF Quartet
  <2>2. Out0(Quartet(w, q)) = Out0(d) /\ Out1(Quartet(w, q)) = Out1(d) /\ Out2(Quartet(w, q)) = Out2(d)
    BY <2>1 DEF Out0, Out1, Out2
  <2>3. PICK t : t = <<Out0(d), Out1(d), Out2(d)>>
    OBVIOUS
  <2>4. t \in Seq(Int)
    <3>1. \A k \in 1..4 : d[k] \in 0..63
      <4>1. Len(d) = 4
        BY <1>2, <1>6
      <4> QED
        BY <1>2, <4>1, ElementOfSeq
    <3>2. PICK d1, d2, d3, d4 \in 0..63 : d1 = d[1] /\ d2 = d[2] /\ d3 = d[3] /\ d4 = d[4]
      <4>1. d[1] \in 0..63 /\ d[2] \in 0..63 /\ d[3] \in 0..63 /\ d[4] \in 0..63
        BY <3>1
      <4> QED
        BY Zenon, <4>1
    <3>3. Out0(d) = (d1 * 4 + d2 \div 16) % 256 /\ Out1(d) = (d2 * 16 + d3 \div 4) % 256
          /\ Out2(d) = (d3 * 64 + d4) % 256
      BY <3>2 DEF Out0, Out1, Out2, AsChar
    <3>4. (d1 * 4 + d2 \div 16) % 256 \in Int /\ (d2 * 16 + d3 \div 4) % 256 \in Int /\ (d3 * 64 + d4) % 256 \in Int
      OBVIOUS
    <3>5. Out0(d) \in Int /\ Out1(d) \in Int /\ Out2(d) \in Int
      BY <3>3, <3>4
    <3> QED
      BY <2>3, <3>5
  <2>5. Len(t) = 3 /\ t[1] = Out0(d) /\ t[2] = Out1(d) /\ t[3] = Out2(d)
    BY <2>3
  <2>6. PICK u : u = s \o t
    OBVIOUS
  <2>7. /\ Len(u) = 3 * q + 3
        /\ \A j \in 1..(3 * q) : u[j] = s[j]
        /\ u[3 * q + 1] = t[1] /\ u[3 * q + 2] = t[2] /\ u[3 * q + 3] = t[3]
    <3>1. Len(u) = Len(s) + Len(t) /\ \A j \in 1..(Len(s) + Len(t)) : u[j] = IF j <= Len(s) THEN s[j] ELSE t[j - Len(s)]
      BY <2>4, <2>6, ConcatProperties
    <3>2. Len(s) = 3 * q /\ Len(t) = 3
      BY <1>2, <2>5
    <3>3. ASSUME NEW j \in 1..(3 * q) PROVE u[j] = s[j]
      <4>1. j \in 1..(Len(s) + Len(t)) /\ j <= Len(s)
        BY <3>2
      <4> QED
        BY <3>1, <4>1
    <3>4. ASSUME NEW j \in 1..3 PROVE u[3 * q + j] = t[j]
      <4>1. 3 * q + j \in 1..(Len(s) + Len(t)) /\ ~(3 * q + j <= Len(s)) /\ (3 * q + j) - Len(s) = j
        BY <3>2
      <4> QED
        BY <3>1, <4>1
    <3> QED
      BY <3>1, <3>2, <3>3, <3>4
  <2>8. Quartets(w, u, q + 1)
    <3>1. Len(u) = 3 * (q + 1)
      BY <2>7
    <3>3. 4 * (q + 1) <= Len(w)
      <4>1. Len(w) = (4 * q + 3) + 1
        BY <1>2, <1>6
      <4> QED
        BY <4>1
    <3>2. ASSUME NEW j \in 0..((q + 1) - 1)
          PROVE  /\ u[3 * j + 1] = Out0(Quartet(w, j))
                 /\ u[3 * j + 2] = Out1(Quartet(w, j))
                 /\ u[3 * j + 3] = Out2(Quartet(w, j))
      <4>1. CASE j = q
        BY <2>2, <2>5, <2>7, <4>1
      <4>2. CASE j \in 0..(q - 1)
        <5>1. 3 * j + 1 \in 1..(3 * q) /\ 3 * j + 2 \in 1..(3 * q) /\ 3 * j + 3 \in 1..(3 * q)
          <6>1. j >= 0 /\ j <= q - 1 /\ j \in Int
            BY <4>2
          <6> HIDE <4>2
          <6> QED
            BY <6>1
        <5>2. /\ s[3 * j + 1] = Out0(Quartet(v, j))
              /\ s[3 * j + 2] = Out1(Quartet(v, j))
              /\ s[3 * j + 3] = Out2(Quartet(v, j))
          BY <4>2 DEF B64Follows, Quartets
        <5> QED
          BY <1>4, <2>7, <4>2, <5>1, <5>2
      <4> QED
        BY <4>1, <4>2
    <3> QED
      BY <3>1, <3>2, <3>3 DEF Quartets
  <2>9. Len(<<>>) = 0 /\ Len(w) = 4 * (q + 1) + 0
    BY <1>2, <1>6, EmptySeq
  <2> QED
    BY <2>3, <2>6, <2>8, <2>9 DEF B64Follows
<1> QED
  BY <1>1, <1>5, <1>6

\* The bytes of the quartets of v are the first that its bits make.
LEMMA QuartetsAre ==
    ASSUME NEW v \in Seq(0..63), NEW s \in Seq(Int), NEW q \in Nat, Quartets(v, s, q)
    PROVE  \A i \in 1..(3 * q) : s[i] = Octets(SixBits(v))[i]
<1>1. Len(v) \in Nat /\ 4 * q <= Len(v)
  BY LenProperties DEF Quartets
<1> TAKE i \in 1..(3 * q)
<1>2. PICK j \in Nat, k \in 1..3 : i = 3 * j + k /\ j \in 0..(q - 1)
  <2>1. PICK j, k \in Int : j = (i - 1) \div 3 /\ k = 1 + ((i - 1) % 3)
    OBVIOUS
  <2>2. i = 3 * j + k /\ j \in 0..(q - 1) /\ j \in Nat /\ k \in 1..3
    BY <2>1
  <2> QED
    BY <2>2
<1>3. 4 * j + 2 <= Len(v) /\ 4 * j + 3 <= Len(v) /\ 4 * j + 4 <= Len(v)
  BY <1>1, <1>2
<1>4. PICK o : o = Octets(SixBits(v))
  OBVIOUS
<1>5. /\ o[3 * j + 1] = Out0(Quartet(v, j)) /\ o[3 * j + 2] = Out1(Quartet(v, j))
      /\ o[3 * j + 3] = Out2(Quartet(v, j))
  BY <1>3, <1>4, OctetsAre
<1>6. /\ s[3 * j + 1] = Out0(Quartet(v, j)) /\ s[3 * j + 2] = Out1(Quartet(v, j))
      /\ s[3 * j + 3] = Out2(Quartet(v, j))
  BY <1>2 DEF Quartets
<1>7. k = 1 \/ k = 2 \/ k = 3
  OBVIOUS
<1> QED
  BY <1>2, <1>4, <1>5, <1>6, <1>7

LEMMA SeqsEqual ==
    ASSUME NEW s \in Seq(Int), NEW t \in Seq(Int), Len(s) = Len(t), \A i \in 1..Len(s) : s[i] = t[i]
    PROVE  s = t
BY SeqEqual

\* What the piece leaves of a quantum makes the bytes of its last bits.
LEMMA LastValues ==
    ASSUME NEW v \in Seq(0..63), NEW s \in Seq(Int), NEW c \in Seq(0..63), NEW q \in Nat,
           B64Follows(v, s, c, q), NEW rest \in Seq(Int),
           \/ Len(c) = 0 /\ rest = <<>>
           \/ Len(c) = 2 /\ rest = <<Out0(c)>>
           \/ Len(c) = 3 /\ rest = <<Out0(c), Out1(c)>>
    PROVE  s \o rest = Octets(SixBits(v))
<1>1. PICK o, u : o = Octets(SixBits(v)) /\ u = s \o rest
  OBVIOUS
<1>2. /\ Len(v) \in Nat /\ Len(c) \in Nat /\ Len(v) = 4 * q + Len(c) /\ Len(s) = 3 * q
      /\ Quartets(v, s, q)
  BY LenProperties DEF B64Follows, Quartets
<1>3. /\ Len(o) = (6 * Len(v)) \div 8 /\ o \in Seq(Int)
  BY <1>1, OctetsAre
<1>4. /\ u \in Seq(Int) /\ Len(u) = 3 * q + Len(rest) /\ Len(rest) \in Nat
      /\ \A i \in 1..(Len(s) + Len(rest)) : u[i] = IF i <= Len(s) THEN s[i] ELSE rest[i - Len(s)]
  <2>1. /\ u \in Seq(Int) /\ Len(u) = Len(s) + Len(rest)
        /\ \A i \in 1..(Len(s) + Len(rest)) : u[i] = IF i <= Len(s) THEN s[i] ELSE rest[i - Len(s)]
    BY <1>1, ConcatProperties
  <2>2. Len(rest) \in Nat
    BY LenProperties
  <2> QED
    BY <1>2, <2>1, <2>2
<1>5. ASSUME NEW i \in 1..(3 * q) PROVE u[i] = o[i]
  <2>1. i \in 1..(Len(s) + Len(rest)) /\ i <= Len(s)
    BY <1>2, <1>4
  <2>2. s[i] = o[i]
    BY <1>1, <1>2, QuartetsAre
  <2> QED
    BY <1>4, <2>1, <2>2
<1>6. ASSUME NEW j \in 1..Len(rest) PROVE u[3 * q + j] = rest[j]
  <2>1. 3 * q + j \in 1..(Len(s) + Len(rest)) /\ ~(3 * q + j <= Len(s)) /\ (3 * q + j) - Len(s) = j
    BY <1>2, <1>4
  <2> QED
    BY <1>4, <2>1
<1>7. /\ Len(c) >= 1 => Quartet(v, q)[1] = c[1]
      /\ Len(c) >= 2 => Quartet(v, q)[2] = c[2]
      /\ Len(c) >= 3 => Quartet(v, q)[3] = c[3]
  BY <1>2 DEF B64Follows, Quartet
<1>8. CASE Len(c) = 0 /\ rest = <<>>
  <2>1. Len(rest) = 0
    BY <1>8, EmptySeq
  <2>2. Len(u) = 3 * q /\ Len(o) = 3 * q
    <3>1. Len(v) = 4 * q
      BY <1>2, <1>8
    <3>2. (6 * (4 * q)) \div 8 = 3 * q
      OBVIOUS
    <3> QED
      BY <1>3, <1>4, <2>1, <3>1, <3>2
  <2> QED
    BY <1>1, <1>3, <1>4, <1>5, <2>2, SeqsEqual
<1>9. CASE Len(c) = 2 /\ rest = <<Out0(c)>>
  <2>1. Len(rest) = 1 /\ rest[1] = Out0(c)
    BY <1>9
  <2>2. Len(u) = 3 * q + 1 /\ Len(o) = 3 * q + 1
    <3>1. Len(v) = 4 * q + 2
      BY <1>2, <1>9
    <3>2. (6 * (4 * q + 2)) \div 8 = 3 * q + 1
      OBVIOUS
    <3> QED
      BY <1>3, <1>4, <2>1, <3>1, <3>2
  <2>3. o[3 * q + 1] = Out0(Quartet(v, q))
    BY <1>1, <1>2, <1>9, OctetsAre
  <2>4. u[3 * q + 1] = Out0(c)
    BY <1>6, <2>1
  <2>5. Out0(Quartet(v, q)) = Out0(c)
    BY <1>7, <1>9 DEF Out0
  <2>6. \A i \in 1..Len(u) : u[i] = o[i]
    <3> TAKE i \in 1..Len(u)
    <3>1. i \in 1..(3 * q) \/ i = 3 * q + 1
      BY <2>2
    <3> QED
      BY <1>5, <2>3, <2>4, <2>5, <3>1
  <2> QED
    BY <1>1, <1>3, <1>4, <2>2, <2>6, SeqsEqual
<1>10. CASE Len(c) = 3 /\ rest = <<Out0(c), Out1(c)>>
  <2>1. Len(rest) = 2 /\ rest[1] = Out0(c) /\ rest[2] = Out1(c)
    BY <1>10
  <2>2. Len(u) = 3 * q + 2 /\ Len(o) = 3 * q + 2
    <3>1. Len(v) = 4 * q + 3
      BY <1>2, <1>10
    <3>2. (6 * (4 * q + 3)) \div 8 = 3 * q + 2
      OBVIOUS
    <3> QED
      BY <1>3, <1>4, <2>1, <3>1, <3>2
  <2>3. o[3 * q + 1] = Out0(Quartet(v, q)) /\ o[3 * q + 2] = Out1(Quartet(v, q))
    <3>1. 4 * q + 2 <= Len(v) /\ 4 * q + 3 <= Len(v)
      BY <1>2, <1>10
    <3> QED
      BY <1>1, <3>1, OctetsAre
  <2>4. u[3 * q + 1] = Out0(c) /\ u[3 * q + 2] = Out1(c)
    BY <1>6, <2>1
  <2>5. Out0(Quartet(v, q)) = Out0(c) /\ Out1(Quartet(v, q)) = Out1(c)
    BY <1>7, <1>10 DEF Out0, Out1
  <2>6. \A i \in 1..Len(u) : u[i] = o[i]
    <3> TAKE i \in 1..Len(u)
    <3>1. i \in 1..(3 * q) \/ i = 3 * q + 1 \/ i = 3 * q + 2
      BY <2>2
    <3> QED
      BY <1>5, <2>3, <2>4, <2>5, <3>1
  <2> QED
    BY <1>1, <1>3, <1>4, <2>2, <2>6, SeqsEqual
<1> QED
  BY <1>8, <1>9, <1>10

\* What is known at a turn of the decoder.
B64Turn == Runs /\ SentInv /\ Base64Inv /\ StringInv /\ state = "base64" /\ mechanism = B64

LEMMA BytesAreInts == ASSUME NEW s \in Seq(Bytes) PROVE s \in Seq(Int)
<1>1. Len(s) \in Nat /\ s \in [1..Len(s) -> Bytes]
  BY LenProperties
<1>2. Bytes \subseteq Int
  BY DEF Bytes, Behind, Unset
<1>3. \A i \in 1..Len(s) : s[i] \in Int
  BY <1>1, <1>2
<1>4. s \in [1..Len(s) -> Int]
  BY <1>1, <1>3
<1> QED
  BY <1>1, <1>4, SeqDef

LEMMA B64TurnTypes ==
    ASSUME B64Turn
    PROVE  /\ stream \in Seq(Int) /\ out.str \in Seq(Int) /\ stream \o out.str \in Seq(Int)
           /\ out \in OutType /\ chunk \in Seq(0..63) /\ Len(chunk) \in Nat /\ Len(chunk) < 4
           /\ Len(piece) \in Nat /\ cur \in 0..Len(piece) /\ cur \in Nat
<1>1. out \in OutType /\ chunk \in Seq(0..63) /\ Len(chunk) < 4 /\ stream \in Seq(Bytes)
  BY DEF B64Turn, Base64Inv, StringInv, B64
<1>2. out.str \in Seq(Bytes)
  BY <1>1 DEF OutType
<1>3. stream \in Seq(Int) /\ out.str \in Seq(Int)
  BY <1>1, <1>2, BytesAreInts
<1>4. stream \o out.str \in Seq(Int)
  BY <1>3, ConcatProperties
<1>5. Len(piece) \in Nat /\ cur \in 0..Len(piece) /\ cur \in Nat
  BY LengthOfPiece DEF B64Turn, Runs, CallInv
<1> QED
  BY <1>1, <1>3, <1>4, <1>5, LenProperties

LEMMA OctetsAreInts ==
    ASSUME NEW c \in Seq(0..63)
    PROVE  /\ Len(c) = 2 => <<Out0(c)>> \in Seq(Int)
           /\ Len(c) = 3 => <<Out0(c), Out1(c)>> \in Seq(Int)
           /\ Len(c) = 4 => <<Out0(c), Out1(c), Out2(c)>> \in Seq(Int)
<1>1. Bytes \subseteq Int
  BY DEF Bytes, Behind, Unset
<1>2. ASSUME Len(c) = 2 PROVE <<Out0(c)>> \in Seq(Int)
  <2>1. Out0(c) \in Int
    BY <1>1, <1>2, OctetTypes
  <2> QED
    BY <2>1
<1>3. ASSUME Len(c) = 3 PROVE <<Out0(c), Out1(c)>> \in Seq(Int)
  <2>1. Out0(c) \in Int /\ Out1(c) \in Int
    BY <1>1, <1>3, OctetTypes
  <2> QED
    BY <2>1
<1>4. ASSUME Len(c) = 4 PROVE <<Out0(c), Out1(c), Out2(c)>> \in Seq(Int)
  <2>1. Out0(c) \in Int /\ Out1(c) \in Int /\ Out2(c) \in Int
    BY <1>1, <1>4, OctetTypes
  <2> QED
    BY <2>1
<1> QED
  BY <1>2, <1>3, <1>4

LEMMA Base64CharFollows ==
    ASSUME B64Turn, NEW q \in Nat, B64Follows(V(cur), stream \o out.str, chunk, q), Base64Char
    PROVE  \E r \in Nat : B64Follows(V(cur)', (stream \o out.str)', chunk', r)
<1>1. /\ cur < Len(piece) /\ cur' = cur + 1 /\ UNCHANGED <<piece, sent, stream>>
      /\ V(cur) \in Seq(0..63)
  BY B64TurnTypes, B64Next DEF Base64Char, More, input, B64Turn
<1>2. V(cur)' = V(cur + 1)
  BY <1>1 DEF V
<1>3. PICK x, c : x = Base64Value(Char(cur)) /\ c = (IF x = -1 THEN chunk ELSE Append(chunk, x))
  OBVIOUS
<1>4. IF Len(c) = 4 THEN chunk' = <<>> /\ Put(<<Out0(c), Out1(c), Out2(c)>>)
                    ELSE chunk' = c /\ UNCHANGED out
  BY <1>3 DEF Base64Char
<1>5. CASE x = -1
  <2>1. chunk' = chunk /\ out' = out
    <3>1. c = chunk /\ Len(chunk) < 4 /\ Len(chunk) \in Nat
      BY <1>3, <1>5, B64TurnTypes
    <3>2. PICK n : n = Len(chunk)
      OBVIOUS
    <3>3. n \in Nat /\ n < 4
      BY <3>1, <3>2
    <3>4. n # 4
      BY <3>3
    <3>5. Len(c) # 4
      BY <3>1, <3>2, <3>4
    <3> QED
      BY <1>4, <3>1, <3>5
  <2>2. V(cur + 1) = V(cur)
    BY <1>1, <1>3, <1>5, B64TurnTypes, B64Next DEF B64Turn
  <2> QED
    BY <1>1, <1>2, <2>1, <2>2
<1>6. CASE x # -1
  <2>1. x \in 0..63 /\ V(cur + 1) = Append(V(cur), x) /\ c = Append(chunk, x)
    BY <1>1, <1>3, <1>6, B64TurnTypes, B64Next DEF B64Turn
  <2>2. c \in Seq(0..63) /\ Len(c) = Len(chunk) + 1
    BY <2>1, B64TurnTypes, AppendProperties
  <2>3. PICK v, s, k : v = V(cur) /\ s = stream \o out.str /\ k = chunk
    OBVIOUS
  <2>4. v \in Seq(0..63) /\ s \in Seq(Int) /\ k \in Seq(0..63) /\ B64Follows(v, s, k, q)
    BY <1>1, <2>3, B64TurnTypes
  <2>5. /\ B64Follows(Append(v, x), s, Append(k, x), q)
        /\ Len(k) = 3 => B64Follows(Append(v, x),
              s \o <<Out0(Append(k, x)), Out1(Append(k, x)), Out2(Append(k, x))>>, <<>>, q + 1)
    BY <2>1, <2>4, OneValue
  <2>6. CASE Len(c) # 4
    <3>1. chunk' = c /\ out' = out
      BY <1>4, <2>6
    <3>2. B64Follows(V(cur)', (stream \o out.str)', chunk', q)
      BY <1>1, <1>2, <2>1, <2>3, <2>5, <3>1
    <3> QED
      BY <3>2
  <2>7. CASE Len(c) = 4
    <3>1. PICK bytes : bytes = <<Out0(c), Out1(c), Out2(c)>>
      OBVIOUS
    <3>2. bytes \in Seq(Int)
      BY <2>2, <2>7, <3>1, OctetsAreInts
    <3>3. chunk' = <<>> /\ out'.str = out.str \o bytes
      BY <1>4, <2>7, <3>1, B64TurnTypes DEF Put, OutType
    <3>4. stream \o (out.str \o bytes) = (stream \o out.str) \o bytes
      BY <3>2, B64TurnTypes, IntsJoined
    <3>5. (stream \o out.str)' = s \o bytes
      BY <1>1, <2>3, <3>3, <3>4
    <3>6. Len(k) = 3
      <4>1. Len(chunk) \in Nat /\ 4 = Len(chunk) + 1
        BY <2>2, <2>7, B64TurnTypes
      <4>2. PICK n : n = Len(chunk)
        OBVIOUS
      <4>3. n \in Nat /\ 4 = n + 1
        BY <4>1, <4>2
      <4>4. n = 3
        BY <4>3
      <4> QED
        BY <2>3, <4>2, <4>4
    <3>7. B64Follows(V(cur)', (stream \o out.str)', chunk', q + 1)
      BY <1>2, <2>1, <2>3, <2>5, <3>1, <3>3, <3>5, <3>6
    <3> QED
      BY <3>7
  <2> QED
    BY <2>6, <2>7
<1> QED
  BY <1>5, <1>6

LEMMA Base64EndFollows ==
    ASSUME B64Turn, NEW q \in Nat, B64Follows(V(cur), stream \o out.str, chunk, q), Base64End,
           Len(Reading(B64, sent).said) % 4 # 1
    PROVE  stream' = Octets(SixBits(Reading(B64, sent).said))
<1>1. cur = Len(piece) /\ stream' = stream \o (out.str \o Leftover)
  BY B64TurnTypes DEF Base64End, More, Done
<1>2. PICK v, s, c : v = V(cur) /\ s = stream \o out.str /\ c = chunk
  OBVIOUS
<1>3. /\ v \in Seq(0..63) /\ v = Reading(B64, sent).said /\ s \in Seq(Int) /\ c \in Seq(0..63)
      /\ B64Follows(v, s, c, q) /\ Len(c) \in Nat /\ Len(c) < 4
  <2>1. V(Len(piece)) \in Seq(0..63) /\ V(Len(piece)) = Reading(B64, sent).said
    BY B64TurnTypes, B64Next DEF B64Turn
  <2> QED
    BY <1>1, <1>2, <2>1, B64TurnTypes
<1>4. Len(c) \in {0, 2, 3}
  <2>1. Len(v) = 4 * q + Len(c)
    BY <1>3 DEF B64Follows
  <2>2. ASSUME Len(c) = 1 PROVE FALSE
    <3>1. (4 * q + 1) % 4 = 1
      OBVIOUS
    <3> QED
      BY <1>3, <2>1, <2>2, <3>1
  <2>3. PICK n : n = Len(c)
    OBVIOUS
  <2>4. n \in Nat /\ n < 4 /\ n # 1
    BY <1>3, <2>2, <2>3
  <2>5. n \in {0, 2, 3}
    BY <2>4
  <2> QED
    BY <2>3, <2>5
<1>5. PICK rest : rest = Leftover
  OBVIOUS
<1>6. \/ Len(c) = 0 /\ rest = <<>>
      \/ Len(c) = 2 /\ rest = <<Out0(c)>>
      \/ Len(c) = 3 /\ rest = <<Out0(c), Out1(c)>>
  <2>1. CASE Len(c) = 0
    BY <1>2, <1>5, <2>1 DEF Leftover
  <2>2. CASE Len(c) = 2
    BY <1>2, <1>5, <2>2 DEF Leftover
  <2>3. CASE Len(c) = 3
    BY <1>2, <1>5, <2>3 DEF Leftover
  <2> QED
    BY <1>4, <2>1, <2>2, <2>3
<1>7. rest \in Seq(Int)
  <2>1. <<>> \in Seq(Int)
    OBVIOUS
  <2>2. CASE Len(c) = 0 /\ rest = <<>>
    BY <2>1, <2>2
  <2>3. CASE Len(c) = 2 /\ rest = <<Out0(c)>>
    BY <1>3, <2>3, OctetsAreInts
  <2>4. CASE Len(c) = 3 /\ rest = <<Out0(c), Out1(c)>>
    BY <1>3, <2>4, OctetsAreInts
  <2> QED
    BY <1>6, <2>2, <2>3, <2>4
<1>8. s \o rest = Octets(SixBits(v))
  BY <1>3, <1>6, <1>7, LastValues
<1>9. stream \o (out.str \o rest) = s \o rest
  BY <1>2, <1>7, B64TurnTypes, IntsJoined
<1> QED
  BY <1>1, <1>3, <1>5, <1>8, <1>9

LEMMA B64Starts == ASSUME Init PROVE B64Inv
<1> SUFFICES ASSUME mechanism = B64 PROVE B64Inv
  BY DEF B64Inv
<1>1. sent = <<>> /\ stream = <<>> /\ state = "idle"
  BY DEF Init
<1>2. <<>> \in Seq(0..127) /\ Len(<<>>) = 0
  BY EmptySeq
<1>3. Readings(B64, sent)[0] = Beginning
  BY <1>1, <1>2, ReadingsAre
<1>4. Reading(B64, sent).said = <<>>
  BY <1>1, <1>2, <1>3 DEF Reading, Beginning
<1>5. PICK v : v = <<>>
  OBVIOUS
<1>6. v \in Seq(0..63) /\ Len(v) = 0
  BY <1>5, EmptySeq
<1>7. Len(Octets(SixBits(v))) = 0 /\ Octets(SixBits(v)) \in Seq(Int)
  <2>1. (6 * 0) \div 8 = 0
    OBVIOUS
  <2> QED
    BY <1>6, <2>1, OctetsAre
<1>8. Octets(SixBits(v)) = <<>>
  BY <1>7, EmptySeq
<1> QED
  BY <1>1, <1>4, <1>5, <1>8 DEF B64Inv

LEMMA FourFold == \A n \in Nat : n % 4 = 0 => n \div 4 \in Nat /\ n = 4 * (n \div 4)
OBVIOUS

LEMMA BodyParseB64 ==
    ASSUME Runs, StringInv, B64Inv, mechanism = B64, BodyParse, whole'
    PROVE  state' = "base64" /\ \E q \in Nat : B64Follows(V(cur)', (stream \o out.str)', chunk', q)
<1>0. PICK p \in SeqOf(Characters[mechanism], MaxSent[mechanism] - Len(sent)) :
         /\ piece' = p /\ sent' = sent \o p
         /\ \E s \in Allocated(Len(p)) :
               /\ out' = s
               /\ state' = (IF s.ok THEN Entry(mechanism) ELSE "idle")
               /\ whole' = (whole /\ BetweenCodes(mechanism, sent) /\ s.ok)
  BY DEF BodyParse
<1>1. PICK s \in Allocated(Len(p)) :
         /\ piece' = p /\ sent' = sent \o p /\ out' = s
         /\ state' = (IF s.ok THEN Entry(mechanism) ELSE "idle")
         /\ whole' = (whole /\ BetweenCodes(mechanism, sent) /\ s.ok)
  BY <1>0
<1>2. /\ state = "idle" /\ cur' = 0 /\ chunk' = <<>> /\ UNCHANGED <<mechanism, stream>>
  BY DEF BodyParse
<1>3. whole /\ BetweenCodes(mechanism, sent) /\ s.ok
  BY <1>1
<1>4. p \in Seq(0..127) /\ sent \in Seq(0..127) /\ Len(p) \in Nat /\ Len(sent) \in Nat
  <2>1. MaxSent[mechanism] - Len(sent) \in Int
    BY MaxSentAssumption, LenProperties DEF Runs, CallInv
  <2>2. p \in Seq(0..127)
    BY <1>0, <2>1, PiecesType DEF Runs, CallInv
  <2> QED
    BY <2>2, LenProperties DEF Runs, CallInv
<1>5. PICK v : v = Reading(B64, sent).said
  OBVIOUS
<1>6. v \in Seq(0..63) /\ Len(v) \in Nat /\ Len(v) % 4 = 0
  <2>1. Reading(B64, sent) \in Values
    BY <1>4, ReadingsTyped DEF Reading, B64
  <2>2. v \in Seq(0..63)
    BY <1>5, <2>1 DEF Values
  <2> QED
    BY <1>3, <1>5, <2>2, LenProperties DEF BetweenCodes, B64
<1>7. stream = Octets(SixBits(v))
  <2>1. PICK n \in Nat : n = Len(v)
    BY <1>6
  <2>2. n % 4 # 1
    BY <1>6, <2>1
  <2> QED
    BY <1>2, <1>3, <1>5, <2>1, <2>2 DEF B64Inv
<1>8. PICK q \in Nat : Len(v) = 4 * q
  <2>1. PICK n \in Nat : n = Len(v)
    BY <1>6
  <2>2. n % 4 = 0
    BY <1>6, <2>1
  <2>3. n \div 4 \in Nat /\ n = 4 * (n \div 4)
    BY <2>2, FourFold
  <2> QED
    BY <2>1, <2>3
<1>9. Quartets(v, stream, q)
  <2>1. Len(stream) = 3 * q
    <3>1. (6 * (4 * q)) \div 8 = 3 * q
      OBVIOUS
    <3> QED
      BY <1>6, <1>7, <1>8, <3>1, OctetsAre
  <2>2. 4 * q <= Len(v)
    BY <1>8
  <2>3. ASSUME NEW j \in 0..(q - 1)
        PROVE  /\ stream[3 * j + 1] = Out0(Quartet(v, j))
               /\ stream[3 * j + 2] = Out1(Quartet(v, j))
               /\ stream[3 * j + 3] = Out2(Quartet(v, j))
    <3>1. j \in Nat /\ 4 * j + 2 <= Len(v) /\ 4 * j + 3 <= Len(v) /\ 4 * j + 4 <= Len(v)
      BY <1>8
    <3> QED
      BY <1>6, <1>7, <3>1, OctetsAre
  <2> QED
    BY <2>1, <2>2, <2>3 DEF Quartets
<1>10. V(cur)' = v
  <2>1. Len(sent \o p) - Len(p) + 0 = Len(sent)
    <3>1. Len(sent \o p) = Len(sent) + Len(p)
      BY <1>4, ConcatProperties
    <3> QED
      BY <1>4, <3>1
  <2>2. V(cur)' = Readings(B64, sent \o p)[Len(sent)].said
    BY <1>1, <1>2, <2>1 DEF V
  <2>3. Readings(B64, sent \o p)[Len(sent)] = Readings(B64, sent)[Len(sent)]
    BY <1>4, ReadingsOfPrefix
  <2> QED
    BY <1>5, <2>2, <2>3 DEF Reading
<1>11. (stream \o out.str)' = stream
  <2>1. s.str = <<>>
    BY <1>1, <1>3 DEF Allocated, NullString, B64
  <2>2. stream \o <<>> = stream
    BY ConcatEmptySeq DEF StringInv
  <2> QED
    BY <1>1, <1>2, <2>1, <2>2
<1>12. B64Follows(v, stream, <<>>, q)
  <2>1. Len(<<>>) = 0
    OBVIOUS
  <2> QED
    BY <1>8, <1>9, <2>1 DEF B64Follows
<1>13. state' = "base64"
  BY <1>1, <1>3 DEF Entry, B64
<1> QED
  BY <1>2, <1>10, <1>11, <1>12, <1>13

LEMMA B64Kept ==
    ASSUME Runs, SentInv, Base64Inv, StringInv, B64Inv, [Next]_vars
    PROVE  B64Inv'
<1> SUFFICES ASSUME mechanism' = B64, whole'
             PROVE  /\ state' = "idle" /\ Len(Reading(B64, sent').said) % 4 # 1 =>
                         stream' = Octets(SixBits(Reading(B64, sent').said))
                    /\ state' = "base64" =>
                         \E q \in Nat : B64Follows(V(cur)', (stream \o out.str)', chunk', q)
  BY DEF B64Inv
<1>1. CASE UNCHANGED vars
  BY <1>1 DEF vars, B64Inv, V
<1>2. CASE BodyParse
  <2>1. mechanism = B64
    BY <1>2 DEF BodyParse
  <2> QED
    BY <1>2, <2>1, BodyParseB64
<1>3. CASE Turn
  <2>1. mechanism = B64 /\ sent' = sent
    BY <1>3 DEF Turn, Base64Char, Base64End, QpEqual, QpNewline, QpReturn, QpLiteral, QpBreak, QpSoftBreak,
                QpOctet, QpCut, QpEnd, Binary, Write, input
  <2>2. Base64Char \/ Base64End
    BY <1>3, <2>1 DEF Turn, QpEqual, QpNewline, QpReturn, QpLiteral, QpBreak, QpSoftBreak,
                QpOctet, QpCut, QpEnd, Binary, Runs, CallInv, B64
  <2>3. B64Turn /\ whole
    BY <2>1, <2>2 DEF Base64Char, Base64End, B64Turn, input
  <2>4. PICK q \in Nat : B64Follows(V(cur), stream \o out.str, chunk, q)
    BY <2>3 DEF B64Inv, B64Turn
  <2>5. CASE Base64Char
    <3>1. state' = "base64"
      BY <2>5 DEF Base64Char
    <3> QED
      BY <2>3, <2>4, <2>5, <3>1, Base64CharFollows
  <2>6. CASE Base64End
    <3>1. state' = "idle"
      BY <2>6 DEF Base64End, Done
    <3> QED
      BY <2>1, <2>3, <2>4, <2>6, <3>1, Base64EndFollows
  <2> QED
    BY <2>2, <2>5, <2>6
<1> QED
  BY <1>1, <1>2, <1>3 DEF Next
-----------------------------------------------------------------------------
LEMMA QpStarts == ASSUME Init PROVE QpInv
<1>1. sent = <<>> /\ stream = <<>> /\ state = "idle"
  BY DEF Init
<1>2. <<>> \in Seq(0..127) /\ Len(<<>>) = 0
  BY EmptySeq
<1>3. Readings(Qp, sent)[0] = Beginning
  BY <1>1, <1>2, ReadingsAre
<1>4. Reading(Qp, sent).said = <<>>
  BY <1>1, <1>2, <1>3 DEF Reading, Beginning
<1> QED
  BY <1>1, <1>4 DEF QpInv, QpStates
-----------------------------------------------------------------------------
(***************************************************************************)
(* The text as it is: a piece that has a successor does not end in a line  *)
(* break, so what is stripped is the break at the end of the body.         *)
(***************************************************************************)
LEMMA CutOff ==
    ASSUME NEW t \in Seq(Bytes), NEW n \in 0..Len(t)
    PROVE  /\ SubSeq(t, 1, n) \in Seq(Bytes) /\ Len(SubSeq(t, 1, n)) = n
           /\ \A i \in 1..n : SubSeq(t, 1, n)[i] = t[i]
<1>1. Len(t) \in Nat
  BY LenProperties
<1>2. \A i \in 1..n : t[i] \in Bytes
  BY <1>1, ElementOfSeq
<1>3. n \in Int /\ 1 \in Int /\ n - 1 + 1 = n
  BY <1>1
<1> QED
  BY <1>1, <1>2, <1>3, SubSeqProperties

LEMMA FirstOnes ==
    ASSUME NEW t \in Seq(Bytes)
    PROVE  /\ Len(t) >= 1 => SubSeq(t, 1, 1) = <<t[1]>>
           /\ Len(t) >= 2 => SubSeq(t, 1, 2) = <<t[1], t[2]>>
<1>1. Len(t) \in Nat
  BY LenProperties
<1>2. ASSUME Len(t) >= 1 PROVE SubSeq(t, 1, 1) = <<t[1]>>
  <2>1. PICK s : s = SubSeq(t, 1, 1)
    OBVIOUS
  <2>2. 1 \in 0..Len(t)
    BY <1>1, <1>2
  <2>3. s \in Seq(Bytes) /\ Len(s) = 1 /\ s[1] = t[1]
    BY <2>1, <2>2, CutOff
  <2>4. PICK u : u = <<t[1]>>
    OBVIOUS
  <2>5. u \in Seq(Bytes) /\ Len(u) = 1 /\ u[1] = t[1]
    <3>1. t[1] \in Bytes
      BY <1>1, <1>2, ElementOfSeq
    <3> QED
      BY <2>4, <3>1
  <2>6. \A i \in 1..1 : s[i] = u[i]
    BY <2>3, <2>5
  <2>7. s = u
    BY <2>3, <2>5, <2>6, SeqEqual
  <2> QED
    BY <2>1, <2>4, <2>7
<1>3. ASSUME Len(t) >= 2 PROVE SubSeq(t, 1, 2) = <<t[1], t[2]>>
  <2>1. PICK s : s = SubSeq(t, 1, 2)
    OBVIOUS
  <2>2. 2 \in 0..Len(t)
    BY <1>1, <1>3
  <2>3. s \in Seq(Bytes) /\ Len(s) = 2 /\ s[1] = t[1] /\ s[2] = t[2]
    BY <2>1, <2>2, CutOff
  <2>4. PICK u : u = <<t[1], t[2]>>
    OBVIOUS
  <2>5. u \in Seq(Bytes) /\ Len(u) = 2 /\ u[1] = t[1] /\ u[2] = t[2]
    <3>1. t[1] \in Bytes /\ t[2] \in Bytes
      BY <1>1, <1>3, ElementOfSeq
    <3> QED
      BY <2>4, <3>1
  <2>6. \A i \in 1..2 : s[i] = u[i]
    BY <2>3, <2>5
  <2>7. s = u
    BY <2>3, <2>5, <2>6, SeqEqual
  <2> QED
    BY <2>1, <2>4, <2>7
<1> QED
  BY <1>2, <1>3

LEMMA TextIs ==
    ASSUME NEW t \in Seq(Bytes), NEW n \in Nat, n = Len(t)
    PROVE  /\ (n >= 1 => t[n] # LF) => Text(t) = t
           /\ n >= 1 /\ t[n] = LF /\ (n >= 2 => t[n - 1] # CR) => Text(t) = SubSeq(t, 1, n - 1)
           /\ n >= 2 /\ t[n] = LF /\ t[n - 1] = CR => Text(t) = SubSeq(t, 1, n - 2)
<1>1. PICK r : r = Reverse(t)
  OBVIOUS
<1>2. Len(r) = n /\ r = [i \in 1..n |-> t[(n - i) + 1]]
  BY <1>1 DEF Reverse
<1>3. \A i \in 1..n : r[i] \in Bytes
  <2> TAKE i \in 1..n
  <2>1. (n - i) + 1 \in 1..n
    OBVIOUS
  <2> QED
    BY <1>2, <2>1, ElementOfSeq
<1>4. Reverse(<<LF>>) = <<LF>> /\ Reverse(CRLF) = <<LF, CR>>
  BY DEF Reverse, CRLF
<1>8. r \in Seq(Bytes)
  BY <1>2, <1>3, SeqDef
<1>9. LF \in Bytes /\ CR \in Bytes
  BY DEF LF, CR, Bytes
<1>5. IsSuffix(<<LF>>, t) <=> n >= 1 /\ t[n] = LF
  <2>1. SubSeq(<<LF>>, 1, 1) = <<LF>> /\ Len(<<LF>>) = 1
    <3>1. PICK a : a = <<LF>>
      OBVIOUS
    <3>2. a \in Seq(Bytes) /\ Len(a) = 1 /\ a[1] = LF
      BY <1>9, <3>1
    <3>3. SubSeq(a, 1, 1) = <<a[1]>>
      BY <3>2, FirstOnes
    <3> QED
      BY <3>1, <3>2, <3>3
  <2>2. ASSUME n >= 1 PROVE SubSeq(r, 1, 1) = <<t[n]>>
    <3>1. r[1] \in Bytes /\ r[1] = t[n]
      BY <1>2, <1>3, <2>2
    <3>2. SubSeq(r, 1, 1) = <<r[1]>>
      BY <1>8, <1>2, <2>2, FirstOnes
    <3> QED
      BY <3>1, <3>2
  <2>3. IsSuffix(<<LF>>, t) <=> 1 <= n /\ <<LF>> = SubSeq(r, 1, 1)
    BY <1>1, <1>2, <1>4, <2>1 DEF IsSuffix, IsPrefix
  <2>4. n >= 1 => (<<LF>> = <<t[n]>> <=> t[n] = LF)
    OBVIOUS
  <2> QED
    BY <2>2, <2>3, <2>4
<1>6. IsSuffix(CRLF, t) <=> n >= 2 /\ t[n] = LF /\ t[n - 1] = CR
  <2>1. SubSeq(<<LF, CR>>, 1, 2) = <<LF, CR>> /\ Len(<<LF, CR>>) = 2
    <3>1. PICK a : a = <<LF, CR>>
      OBVIOUS
    <3>2. a \in Seq(Bytes) /\ Len(a) = 2 /\ a[1] = LF /\ a[2] = CR
      BY <1>9, <3>1
    <3>3. SubSeq(a, 1, 2) = <<a[1], a[2]>>
      <4>1. Len(a) >= 2
        BY <3>2
      <4> QED
        BY <3>2, <4>1, FirstOnes
    <3> QED
      BY <3>1, <3>2, <3>3
  <2>2. ASSUME n >= 2 PROVE SubSeq(r, 1, 2) = <<t[n], t[n - 1]>>
    <3>1. r[1] \in Bytes /\ r[1] = t[n] /\ r[2] \in Bytes /\ r[2] = t[n - 1]
      BY <1>2, <1>3, <2>2
    <3>2. SubSeq(r, 1, 2) = <<r[1], r[2]>>
      BY <1>8, <1>2, <2>2, FirstOnes
    <3> QED
      BY <3>1, <3>2
  <2>3. IsSuffix(CRLF, t) <=> 2 <= n /\ <<LF, CR>> = SubSeq(r, 1, 2)
    BY <1>1, <1>2, <1>4, <2>1 DEF IsSuffix, IsPrefix
  <2>4. n >= 2 => (<<LF, CR>> = <<t[n], t[n - 1]>> <=> t[n] = LF /\ t[n - 1] = CR)
    OBVIOUS
  <2> QED
    BY <2>2, <2>3, <2>4
<1>7. SubSeq(t, 1, n - 0) = t
  BY SubSeqFull
<1> QED
  BY <1>5, <1>6, <1>7 DEF Text

\* The text of a piece that ends a body is the end of the body's text.
LEMMA StrippedEnds ==
    ASSUME NEW s \in Seq(Bytes), NEW p \in Seq(Bytes), p # <<>>,
           s = <<>> \/ Last(s) \notin {CR, LF}
    PROVE  s \o Stripped(p) = Text(s \o p)
<1>1. PICK t, m, l, n : t = s \o p /\ m = Len(s) /\ l = Len(p) /\ n = Len(t)
  OBVIOUS
<1>2. /\ m \in Nat /\ l \in Nat /\ l >= 1 /\ n = m + l /\ n \in Nat /\ t \in Seq(Bytes)
      /\ \A i \in 1..(m + l) : t[i] = IF i <= m THEN s[i] ELSE p[i - m]
  <2>1. m \in Nat /\ l \in Nat /\ l # 0
    BY <1>1, LenProperties, EmptySeq
  <2>2. t \in Seq(Bytes) /\ n = m + l
        /\ \A i \in 1..(m + l) : t[i] = IF i <= m THEN s[i] ELSE p[i - m]
    BY <1>1, ConcatProperties
  <2> QED
    BY <2>1, <2>2
<1>3. ASSUME NEW k \in 0..l PROVE s \o SubSeq(p, 1, k) = SubSeq(t, 1, m + k)
  <2>1. PICK u, w : u = SubSeq(p, 1, k) /\ w = SubSeq(t, 1, m + k)
    OBVIOUS
  <2>2. u \in Seq(Bytes) /\ Len(u) = k /\ \A i \in 1..k : u[i] = p[i]
    <3>1. k \in 0..Len(p)
      BY <1>1
    <3> QED
      BY <2>1, <3>1, CutOff
  <2>3. m + k \in 0..n
    BY <1>2
  <2>4. w \in Seq(Bytes) /\ Len(w) = m + k /\ \A i \in 1..(m + k) : w[i] = t[i]
    <3>1. m + k \in 0..Len(t)
      BY <1>1, <2>3
    <3> QED
      BY <1>2, <2>1, <3>1, CutOff
  <2>5. PICK c : c = s \o u
    OBVIOUS
  <2>6. c \in Seq(Bytes) /\ Len(c) = m + k
        /\ \A i \in 1..(m + k) : c[i] = IF i <= m THEN s[i] ELSE u[i - m]
    BY <1>1, <2>2, <2>5, ConcatProperties
  <2>7. \A i \in 1..(m + k) : c[i] = w[i]
    <3> TAKE i \in 1..(m + k)
    <3>1. i \in 1..(m + l)
      BY <1>2
    <3>2. CASE i <= m
      BY <1>2, <2>4, <2>6, <3>1, <3>2
    <3>3. CASE ~(i <= m)
      <4>1. i - m \in 1..k
        BY <1>2, <3>3
      <4> QED
        BY <1>2, <2>2, <2>4, <2>6, <3>1, <3>3, <4>1
    <3> QED
      BY <3>2, <3>3
  <2>8. c = w
    BY <2>4, <2>6, <2>7, SeqEqual
  <2> QED
    BY <2>1, <2>5, <2>8
<1>4. t[n] = p[l] /\ Last(p) = p[l]
  BY <1>1, <1>2 DEF Last
<1>5. l > 1 => t[n - 1] = p[l - 1]
  BY <1>2
<1>6. l = 1 /\ n >= 2 => t[n - 1] \notin {CR, LF}
  <2> SUFFICES ASSUME l = 1, n >= 2 PROVE t[n - 1] \notin {CR, LF}
    OBVIOUS
  <2>1. m >= 1 /\ n - 1 = m /\ m \in 1..(m + l) /\ m <= m
    BY <1>2
  <2>2. t[n - 1] = s[m]
    BY <1>2, <2>1
  <2>3. s # <<>>
    BY <1>1, <2>1, EmptySeq
  <2> QED
    BY <1>1, <2>2, <2>3 DEF Last
<1>7. CASE p[l] # LF
  <2>1. Stripped(p) = p
    BY <1>4, <1>7 DEF Stripped
  <2>2. Text(t) = t
    BY <1>1, <1>2, <1>4, <1>7, TextIs
  <2> QED
    BY <1>1, <2>1, <2>2
<1>8. CASE p[l] = LF /\ l > 1 /\ p[l - 1] = CR
  <2>1. Stripped(p) = SubSeq(p, 1, l - 2)
    BY <1>1, <1>4, <1>8 DEF Stripped
  <2>2. Text(t) = SubSeq(t, 1, n - 2)
    <3>1. n >= 2
      BY <1>2, <1>8
    <3> QED
      BY <1>1, <1>2, <1>4, <1>5, <1>8, <3>1, TextIs
  <2>3. l - 2 \in 0..l /\ m + (l - 2) = n - 2
    BY <1>2, <1>8
  <2> QED
    BY <1>1, <1>3, <2>1, <2>2, <2>3
<1>9. CASE p[l] = LF /\ ~(l > 1 /\ p[l - 1] = CR)
  <2>1. Stripped(p) = SubSeq(p, 1, l - 1)
    BY <1>1, <1>4, <1>9 DEF Stripped, Front
  <2>2. Text(t) = SubSeq(t, 1, n - 1)
    <3>1. n >= 1 /\ (l = 1 \/ l > 1)
      BY <1>2
    <3>2. n >= 2 => t[n - 1] # CR
      BY <1>5, <1>6, <1>9, <3>1
    <3> QED
      BY <1>1, <1>2, <1>4, <1>9, <3>1, <3>2, TextIs
  <2>3. l - 1 \in 0..l /\ m + (l - 1) = n - 1
    BY <1>2
  <2> QED
    BY <1>1, <1>3, <2>1, <2>2, <2>3
<1> QED
  BY <1>7, <1>8, <1>9

BinaryInv ==
    mechanism = "binary" /\ whole =>
      /\ state = "idle" => stream = Text(sent)
      /\ state = "binary" =>
           /\ piece # <<>> /\ stream \o piece = sent
           /\ stream = <<>> \/ Last(stream) \notin {CR, LF}

LEMMA BinaryStarts == ASSUME Init PROVE BinaryInv
<1>1. sent = <<>> /\ stream = <<>> /\ state = "idle"
  BY DEF Init
<1>2. <<>> \in Seq(Bytes) /\ Len(<<>>) = 0
  BY EmptySeq
<1>3. Text(<<>>) = <<>>
  <2>1. PICK t, n : t = <<>> /\ n = 0
    OBVIOUS
  <2>2. t \in Seq(Bytes) /\ n \in Nat /\ n = Len(t) /\ ~(n >= 1)
    BY <1>2, <2>1
  <2>3. Text(t) = t
    BY <2>2, TextIs
  <2> QED
    BY <2>1, <2>3
<1> QED
  BY <1>1, <1>3 DEF BinaryInv

LEMMA SentBytes == ASSUME NEW s \in Seq(0..127) PROVE s \in Seq(Bytes)
<1>1. 0..127 \subseteq Bytes
  BY DEF Bytes
<1> QED
  BY <1>1, SeqMonotonic

LEMMA BinaryKept ==
    ASSUME Runs, StringInv, BinaryInv, [Next]_vars
    PROVE  BinaryInv'
<1> SUFFICES ASSUME mechanism' = "binary", whole'
             PROVE  /\ state' = "idle" => stream' = Text(sent')
                    /\ state' = "binary" =>
                         /\ piece' # <<>> /\ stream' \o piece' = sent'
                         /\ stream' = <<>> \/ Last(stream') \notin {CR, LF}
  BY DEF BinaryInv
<1>1. CASE UNCHANGED vars
  BY <1>1 DEF vars, BinaryInv
<1>2. CASE BodyParse
  <2>0. PICK p \in SeqOf(Characters[mechanism], MaxSent[mechanism] - Len(sent)) \ {<<>>} :
           /\ piece' = p /\ sent' = sent \o p
           /\ \E s \in Allocated(Len(p)) :
                 /\ out' = s
                 /\ state' = (IF s.ok THEN Entry(mechanism) ELSE "idle")
                 /\ whole' = (whole /\ BetweenCodes(mechanism, sent) /\ s.ok)
    BY <1>2 DEF BodyParse
  <2>1. PICK s \in Allocated(Len(p)) :
           /\ piece' = p /\ sent' = sent \o p /\ out' = s
           /\ state' = (IF s.ok THEN Entry(mechanism) ELSE "idle")
           /\ whole' = (whole /\ BetweenCodes(mechanism, sent) /\ s.ok)
    BY <2>0
  <2>2. state = "idle" /\ mechanism = "binary" /\ stream' = stream
    BY <1>2 DEF BodyParse
  <2>3. whole /\ BetweenCodes(mechanism, sent) /\ s.ok
    BY <2>1
  <2>4. sent = <<>> \/ Last(sent) \notin {CR, LF}
    BY <2>2, <2>3 DEF BetweenCodes
  <2>5. sent \in Seq(Bytes)
    BY SentBytes DEF Runs, CallInv
  <2>6. Text(sent) = sent
    <3>1. PICK n \in Nat : n = Len(sent)
      BY <2>5, LenProperties
    <3>2. n >= 1 => sent[n] # LF
      BY <2>4, <2>5, <3>1, EmptySeq DEF Last
    <3> QED
      BY <2>5, <3>1, <3>2, TextIs
  <2>7. stream = sent
    BY <2>2, <2>3, <2>6 DEF BinaryInv
  <2>8. state' = "binary"
    BY <2>1, <2>2, <2>3 DEF Entry
  <2> QED
    BY <2>0, <2>1, <2>2, <2>4, <2>7, <2>8
<1>3. CASE Turn
  <2>1. mechanism = "binary" /\ sent' = sent
    BY <1>3 DEF Turn, Base64Char, Base64End, QpEqual, QpNewline, QpReturn, QpLiteral, QpBreak, QpSoftBreak,
                QpOctet, QpCut, QpEnd, Binary, Write, input
  <2>2. Binary
    BY <1>3, <2>1 DEF Turn, Base64Char, Base64End, QpEqual, QpNewline, QpReturn, QpLiteral, QpBreak, QpSoftBreak,
                QpOctet, QpCut, QpEnd, Runs, CallInv
  <2>3. PICK s \in NewLen(Stripped(piece)) :
           whole' = (whole /\ s.ok) /\ state' = "idle" /\ stream' = stream \o s.str
    BY <2>2 DEF Binary, Done
  <2>4. whole /\ s.ok
    BY <2>3
  <2>5. s.str = Stripped(piece)
    <3>1. PICK v : v = Stripped(piece)
      OBVIOUS
    <3>2. v \in Seq(Bytes)
      BY <3>1, StrippedType
    <3>3. PICK u \in SizedNew(Len(v)) : s \in IF u.ok THEN AppendLen(u, v) ELSE {u}
      BY <2>3, <3>1 DEF NewLen
    <3>4. u.str = <<>> /\ u \in OutType
      <4>1. Len(v) \in Nat
        BY <3>2, LenProperties
      <4>2. Holds(u)
        BY <3>3, <4>1, NewStrings
      <4>3. u.str = <<>>
        BY <3>3 DEF SizedNew, MaybeExpand, NullString
      <4> QED
        BY <4>2, <4>3 DEF Holds
    <3>5. u.ok
      BY <2>4, <3>3
    <3>6. s.str = u.str \o v
      BY <2>4, <3>3, <3>4, <3>5 DEF AppendLen, MaybeExpand, OutType
    <3>7. <<>> \o v = v
      BY <3>2, ConcatEmptySeq
    <3> QED
      BY <3>1, <3>4, <3>6, <3>7
  <2>6. /\ piece # <<>> /\ stream \o piece = sent
        /\ stream = <<>> \/ Last(stream) \notin {CR, LF}
    BY <2>1, <2>2, <2>4 DEF BinaryInv, Binary
  <2>7. stream \in Seq(Bytes) /\ piece \in Seq(Bytes)
    BY SentBytes DEF StringInv, Runs, CallInv
  <2>8. stream \o Stripped(piece) = Text(stream \o piece)
    BY <2>6, <2>7, StrippedEnds
  <2> QED
    BY <2>1, <2>3, <2>5, <2>6, <2>8
<1> QED
  BY <1>1, <1>2, <1>3 DEF Next

-----------------------------------------------------------------------------
MeaningInv == SentInv /\ B64Inv /\ QpInv /\ BinaryInv

\* As long as pieces end between two codes, the stream is what the client
\* encoded (body.c): in base64 the bytes that the bits of its characters make,
\* in quoted-printable what a reader of it says, else the text; for bodies of
\* every length, in pieces of any size and runs of any MaxRun.
THEOREM BodyDecoded == Spec => []AsEncoded
<1>1. Init => MeaningInv
  BY SentAtFirst, B64Starts, QpStarts, BinaryStarts DEF MeaningInv
<1>2. BodyInv /\ MeaningInv /\ [Next]_vars => MeaningInv'
  <2> SUFFICES ASSUME BodyInv, MeaningInv, [Next]_vars PROVE MeaningInv'
    OBVIOUS
  <2>1. Runs /\ Base64Inv /\ StringInv /\ SentInv /\ B64Inv /\ QpInv /\ BinaryInv
    BY DEF BodyInv, MeaningInv
  <2>2. SentInv'
    <3>1. BodyParse \/ UNCHANGED <<piece, sent>>
      BY DEF Next, Turn, Base64Char, Base64End, QpEqual, QpNewline, QpReturn, QpLiteral, QpBreak, QpSoftBreak,
             QpOctet, QpCut, QpEnd, Binary, Write, input, vars
    <3> QED
      BY <2>1, <3>1, SentKept
  <2>3. B64Inv'
    BY <2>1, B64Kept
  <2>4. QpInv'
    BY <2>1, QpKept
  <2>5. BinaryInv'
    BY <2>1, BinaryKept
  <2> QED
    BY <2>2, <2>3, <2>4, <2>5 DEF MeaningInv
<1>3. BodyInv /\ MeaningInv => AsEncoded
  <2> SUFFICES ASSUME BodyInv, MeaningInv, state = "idle", whole, EndsWell(mechanism, sent)
               PROVE  stream = Meaning(mechanism, sent)
    BY DEF AsEncoded
  <2>1. CASE mechanism = "base64"
    BY <2>1 DEF MeaningInv, B64Inv, B64, EndsWell, Meaning
  <2>2. CASE mechanism = "quoted-printable"
    BY <2>2 DEF MeaningInv, QpInv, Qp, Readable, EndsWell, Meaning
  <2>3. CASE mechanism = "binary"
    BY <2>3 DEF MeaningInv, BinaryInv, Meaning
  <2> QED
    BY <2>1, <2>2, <2>3 DEF BodyInv, Runs, CallInv, Mechanisms
<1> QED
  BY <1>1, <1>2, <1>3, BodyInvariant, PTL DEF Spec
=============================================================================

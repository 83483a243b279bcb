------------------------------ MODULE SmtpBody ------------------------------
(***************************************************************************)
(* src/body.c: the decoders the rules call for every piece of a body       *)
(* (smtp_mime_body_parse in the actions of smtp.nel), loop turn by loop    *)
(* turn, and the stream the decoded pieces add up to.                      *)
(*                                                                         *)
(* Each piece is decoded on its own: nothing is kept from one call to the  *)
(* next.  Whether the stream is the body the client encoded depends        *)
(* therefore on where the pieces end; Meaning says what was encoded,     *)
(* and "whole" is TRUE as long as no piece ended inside a code.            *)
(*                                                                         *)
(* A character is its ASCII code.  Behind stands for whatever follows the  *)
(* piece in memory, Unset for a byte computed from a variable never set.   *)
(***************************************************************************)
EXTENDS Integers, Sequences, SequencesExt, MmapString

CONSTANTS
    Characters,  \* what the client may send, by mechanism
    MaxRun,      \* WRITE_MAX_QP
    MaxSent      \* bound: characters in a body, by mechanism

LF == 10
CR == 13
EQ == 61
CRLF == <<CR, LF>>
Behind == 256
Unset == 257
Mechanisms == {"base64", "quoted-printable", "binary"}

ASSUME CharactersAssumption == Characters \in [Mechanisms -> SUBSET (0..127)]
ASSUME MaxRunAssumption == MaxRun \in Nat \ {0}
ASSUME MaxSentAssumption == MaxSent \in [Mechanisms -> Nat]

VARIABLES
    mechanism,  \* the part's Content-Transfer-Encoding
    state,      \* "idle" between calls, else where the decoder is
    piece,      \* message
    cur,        \* cur_token: characters of it that have been read
    start,      \* where the run of literal characters begins
    count,      \* and how many there are
    chunk,      \* the values of a base64 quantum
    out,        \* the buffer or string the piece is decoded into
    stream,     \* what nel_stream_put has been given
    sent,       \* the body so far
    whole       \* every piece before the last ended between two codes, and was decoded

input == <<mechanism, piece, sent, whole>>
run == <<start, count>>
vars == <<mechanism, state, piece, cur, start, count, chunk, out, stream, sent, whole>>

Char(i) == piece[i + 1]
More == cur < Len(piece)

(***************************************************************************)
(* base64                                                                  *)
(***************************************************************************)
Base64Value(ch) ==
    CASE ch \in 65..90 -> ch - 65
      [] ch \in 97..122 -> ch - 97 + 26
      [] ch \in 48..57 -> ch - 48 + 52
      [] ch = 43 -> 62
      [] ch = 47 -> 63
      [] OTHER -> -1

\* What a char keeps of an int.  Mutant: all of it.
AsInt(n) == n
AsChar(n) == n % 256
Out0(c) == AsChar(c[1] * 4 + c[2] \div 16)
Out1(c) == AsChar(c[2] * 16 + c[3] \div 4)
Out2(c) == AsChar(c[3] * 64 + c[4])

Put(bytes) == out' = [out EXCEPT !.str = @ \o bytes]

\* nel_stream_put, at the end of a call.
Done(bytes) == state' = "idle" /\ stream' = stream \o bytes

\* One character.
Base64Char ==
    /\ state = "base64" /\ More /\ cur' = cur + 1
    /\ LET v == Base64Value(Char(cur))
           c == IF v = -1 THEN chunk ELSE Append(chunk, v)
       IN IF Len(c) = 4
          THEN chunk' = <<>> /\ Put(<<Out0(c), Out1(c), Out2(c)>>)
          ELSE chunk' = c /\ UNCHANGED out
    /\ UNCHANGED <<input, state, run, stream>>

\* What is left of a quantum when the piece ends.  A lone value is joined with
\* chunk[1], which is 0 behind a full quantum and else has never been set.
Leftover ==
    CASE Len(chunk) = 0 -> <<>>
      [] Len(chunk) = 1 -> <<IF out.str = <<>> THEN Unset ELSE AsChar(chunk[1] * 4)>>
      [] Len(chunk) = 2 -> <<Out0(chunk)>>
      [] Len(chunk) = 3 -> <<Out0(chunk), Out1(chunk)>>
Base64End ==
    /\ state = "base64" /\ ~More
    /\ Put(Leftover) /\ Done(out.str \o Leftover)
    /\ UNCHANGED <<input, cur, run, chunk>>

(***************************************************************************)
(* quoted-printable                                                        *)
(***************************************************************************)
HexaToChar(ch) ==
    CASE ch \in 48..57 -> ch - 48
      [] ch \in 97..102 -> ch - 97 + 10
      [] ch \in 65..70 -> ch - 65 + 10
      [] OTHER -> 0
ToChar(i) == HexaToChar(Char(i)) * 16 + HexaToChar(Char(i + 1))

\* The run of literal characters, however far it reaches.
Literal == [i \in 1..count |-> IF start + i <= Len(piece) THEN piece[start + i] ELSE Behind]

\* The run is written, then val, and the next run has n characters already.
\* Without memory the call gives up, and the stream is given nothing.
Written(val) == UNION {IF s.ok THEN AppendLen(s, val) ELSE {s} : s \in AppendLen(out, Literal)}
Write(val, n, next) ==
    /\ \E s \in Written(val) :
          /\ out' = s
          /\ IF s.ok THEN state' = next /\ UNCHANGED whole
             ELSE state' = "idle" /\ whole' = FALSE
    /\ count' = n /\ UNCHANGED <<mechanism, piece, chunk, stream, sent>>
\* n more characters are read, and the run begins behind them.
Skip(n) == cur' = cur + n /\ start' = cur + n

\* STATE_NORMAL
QpEqual ==
    /\ state = "normal" /\ More /\ Char(cur) = EQ /\ state' = "coded"
    /\ UNCHANGED <<input, cur, run, chunk, out, stream>>
QpNewline ==
    state = "normal" /\ More /\ Char(cur) = LF /\ Write(CRLF, 0, "normal") /\ Skip(1)
QpReturn ==
    /\ state = "normal" /\ More /\ Char(cur) = CR /\ state' = "cr" /\ cur' = cur + 1
    /\ UNCHANGED <<input, run, chunk, out, stream>>
QpLiteral ==
    /\ state = "normal" /\ More /\ Char(cur) \notin {EQ, LF, CR} /\ cur' = cur + 1
    /\ IF count < MaxRun
       THEN count' = count + 1 /\ UNCHANGED <<input, state, start, chunk, out, stream>>
       ELSE Write(<<>>, 1, "normal") /\ start' = cur

\* STATE_CR: a line break, whether the line feed is there or not.
QpBreak ==
    /\ state = "cr" /\ More /\ Write(CRLF, 0, "normal")
    /\ Skip(IF Char(cur) = LF THEN 1 ELSE 0)

\* STATE_CODED: a soft line break, an octet, or a code the piece cuts short.
\* "=" alone is taken for a literal; so is the character behind it, which is
\* then counted twice.  Mutants: a soft break is one character long; one that
\* is cut behind its return does not end the loop; the run behind a
\* code cut after one character begins behind that character.
QpSoftBreakShort ==
    /\ state = "coded" /\ cur + 1 < Len(piece) /\ Char(cur + 1) = LF
    /\ Skip(1) /\ Write(<<>>, 0, "normal")
QpSoftBreakKept ==
    /\ state = "coded" /\ cur + 2 = Len(piece) /\ Char(cur + 1) = CR
    /\ Write(<<>>, 0, "coded") /\ UNCHANGED <<cur, start>>
QpSoftBreak ==
    /\ state = "coded" /\ cur + 1 < Len(piece)
    /\ \/ Char(cur + 1) = LF /\ Skip(2) /\ Write(<<>>, 0, "normal")
       \/ /\ Char(cur + 1) = CR /\ cur + 2 < Len(piece)
          /\ Skip(IF Char(cur + 2) = LF THEN 3 ELSE 2) /\ Write(<<>>, 0, "normal")
       \/ /\ Char(cur + 1) = CR /\ cur + 2 = Len(piece)
          /\ Write(<<>>, 0, "out") /\ UNCHANGED <<cur, start>>
QpOctet ==
    /\ state = "coded" /\ cur + 2 < Len(piece) /\ Char(cur + 1) \notin {LF, CR}
    /\ Write(<<ToChar(cur + 1)>>, 0, "normal") /\ Skip(3)
QpCutBehind ==
    /\ state = "coded" /\ Write(<<>>, 1, "normal") /\ cur' = cur + 1
    /\ \/ cur + 1 = Len(piece) /\ start' = cur
       \/ cur + 2 = Len(piece) /\ Char(cur + 1) \notin {LF, CR} /\ start' = cur + 2
QpCut ==
    /\ state = "coded" /\ Write(<<>>, 1, "normal") /\ cur' = cur + 1
    /\ \/ cur + 1 = Len(piece) /\ start' = cur
       \/ cur + 2 = Len(piece) /\ Char(cur + 1) \notin {LF, CR} /\ start' = cur + 1

QpEnd ==
    /\ state = "out" \/ (state \in {"normal", "cr"} /\ ~More)
    /\ \E s \in AppendLen(out, Literal) :
          /\ out' = s /\ whole' = (whole /\ s.ok)
          /\ Done(IF s.ok THEN s.str ELSE <<>>)
    /\ count' = 0 /\ UNCHANGED <<mechanism, piece, cur, start, chunk, sent>>

(***************************************************************************)
(* The text as it is, without the line break that ends it.                 *)
(***************************************************************************)
Stripped(t) ==
    IF t = <<>> \/ Last(t) # LF THEN t
    ELSE IF Len(t) > 1 /\ t[Len(t) - 1] = CR THEN SubSeq(t, 1, Len(t) - 2) ELSE Front(t)
Binary ==
    /\ state = "binary"
    /\ \E s \in NewLen(Stripped(piece)) :
          /\ out' = s /\ whole' = (whole /\ s.ok) /\ Done(s.str)
    /\ cur' = Len(Stripped(piece)) /\ UNCHANGED <<mechanism, piece, run, chunk, sent>>

(***************************************************************************)
(* What was encoded.                                                       *)
(***************************************************************************)
\* [at: where a reader stands, said: what it has read], from one character to the
\* next.  base64: the values of the characters that have one.
ReadBase64(r, ch) ==
    IF Base64Value(ch) = -1 THEN r ELSE [r EXCEPT !.said = Append(@, Base64Value(ch))]

\* quoted-printable: octets, line breaks, and soft ones, which say nothing.
Hex == (48..57) \cup (65..70) \cup (97..102)
ReadQp(r, ch) ==
    CASE r.at = "text" /\ ch \notin {EQ, CR, LF} -> [r EXCEPT !.said = Append(@, ch)]
      [] r.at = "text" /\ ch = EQ -> [r EXCEPT !.at = "code"]
      [] r.at = "text" /\ ch = CR -> [r EXCEPT !.at = "return"]
      [] r.at \in {"text", "return"} /\ ch = LF -> [at |-> "text", said |-> r.said \o CRLF]
      [] r.at = "code" /\ ch = CR -> [r EXCEPT !.at = "soft"]
      [] r.at \in {"code", "soft"} /\ ch = LF -> [r EXCEPT !.at = "text"]
      [] r.at = "code" /\ ch \in Hex -> [at |-> "digit", said |-> Append(r.said, HexaToChar(ch))]
      [] r.at = "digit" /\ ch \in Hex ->
           [at |-> "text", said |-> [r.said EXCEPT ![Len(r.said)] = @ * 16 + HexaToChar(ch)]]
      [] OTHER -> [r EXCEPT !.at = "astray"]

\* A text in mechanism m, and what has been read behind each of its characters.
Read(m, r, ch) == IF m = "base64" THEN ReadBase64(r, ch) ELSE ReadQp(r, ch)
Readings(m, t) ==
    LET r[i \in 0..Len(t)] == IF i = 0 THEN [at |-> "text", said |-> <<>>] ELSE Read(m, r[i - 1], t[i])
    IN r
Reading(m, t) == Readings(m, t)[Len(t)]

\* base64: six bits a character, eight bits a byte.
Bit(n, k) == (n \div <<32, 16, 8, 4, 2, 1>>[k]) % 2
SixBits(v) == [i \in 1..(6 * Len(v)) |-> Bit(v[(i + 5) \div 6], 1 + ((i - 1) % 6))]
Octet(b, i) ==
    128 * b[i + 1] + 64 * b[i + 2] + 32 * b[i + 3] + 16 * b[i + 4]
    + 8 * b[i + 5] + 4 * b[i + 6] + 2 * b[i + 7] + b[i + 8]
Octets(b) == [i \in 1..(Len(b) \div 8) |-> Octet(b, 8 * i - 8)]

\* The text: all but the line break that belongs to the boundary.
Text(t) ==
    IF IsSuffix(CRLF, t) THEN SubSeq(t, 1, Len(t) - 2)
    ELSE SubSeq(t, 1, Len(t) - IF IsSuffix(<<LF>>, t) THEN 1 ELSE 0)

Meaning(m, t) ==
    CASE m = "base64" -> Octets(SixBits(Reading(m, t).said))
      [] m = "quoted-printable" -> Reading(m, t).said
      [] m = "binary" -> Text(t)

\* Where a body may end, and where a piece may end that has a successor.
EndsWell(m, t) ==
    CASE m = "base64" -> Len(Reading(m, t).said) % 4 # 1
      [] m = "quoted-printable" -> Reading(m, t).at = "text"
      [] m = "binary" -> TRUE
BetweenCodes(m, t) ==
    CASE m = "base64" -> Len(Reading(m, t).said) % 4 = 0
      [] m = "quoted-printable" -> Reading(m, t).at \in {"text", "return"}
      [] m = "binary" -> t = <<>> \/ Last(t) \notin {CR, LF}

(***************************************************************************)
(* The calls                                                               *)
(***************************************************************************)
\* Mutant: no room for what a lone value leaves.
Base64RoomBare(n) == (n * 3) \div 4
Base64Room(n) == (n * 3) \div 4 + 3
Allocated(n) ==
    CASE mechanism = "base64" ->
           {[NullString EXCEPT !.room = Base64Room(n)]}
           \cup (IF MayRefuse THEN {[NullString EXCEPT !.ok = FALSE]} ELSE {})
      [] mechanism = "quoted-printable" -> SizedNew(n)
      [] mechanism = "binary" -> {NullString}
Entry(m) == IF m = "quoted-printable" THEN "normal" ELSE m

\* smtp_mime_body_parse (message, length, encoding, stream).
BodyParse ==
    /\ state = "idle"
    /\ \E p \in SeqOf(Characters[mechanism], MaxSent[mechanism] - Len(sent)) \ {<<>>} :
          /\ piece' = p /\ sent' = sent \o p
          /\ \E s \in Allocated(Len(p)) :
                /\ out' = s
                /\ state' = (IF s.ok THEN Entry(mechanism) ELSE "idle")
                /\ whole' = (whole /\ BetweenCodes(mechanism, sent) /\ s.ok)
    /\ cur' = 0 /\ start' = 0 /\ count' = 0 /\ chunk' = <<>>
    /\ UNCHANGED <<mechanism, stream>>

Init ==
    /\ mechanism \in Mechanisms /\ state = "idle" /\ piece = <<>>
    /\ cur = 0 /\ start = 0 /\ count = 0 /\ chunk = <<>>
    /\ out = NullString /\ stream = <<>> /\ sent = <<>> /\ whole = TRUE

Turn ==
    \/ Base64Char \/ Base64End
    \/ QpEqual \/ QpNewline \/ QpReturn \/ QpLiteral \/ QpBreak
    \/ QpSoftBreak \/ QpOctet \/ QpCut \/ QpEnd
    \/ Binary
Next == BodyParse \/ Turn

\* A call runs until it returns.
Spec == Init /\ [][Next]_vars /\ WF_vars(Turn)

-----------------------------------------------------------------------------
\* The state's types; bytes are bytes.
Bytes == (0..255) \cup {Behind, Unset}
States == {"idle", "base64", "normal", "cr", "coded", "out", "binary"}
TypeOK ==
    /\ mechanism \in Mechanisms /\ state \in States /\ whole \in BOOLEAN
    /\ piece \in Seq(0..127) /\ sent \in Seq(0..127)
    /\ cur \in 0..Len(piece) /\ start \in 0..Len(piece) /\ count \in 0..MaxRun
    /\ chunk \in Seq(0..63) /\ Len(chunk) < 4
    /\ out.str \in Seq(Bytes) /\ out.room \in Nat /\ out.ok \in BOOLEAN
    /\ stream \in Seq(Bytes)

\* What is decoded fits what was allocated for it: the malloc of three quarters
\* and three bytes (body.c:141), the string with its NUL (mmapstring.c:279).
BufferHolds ==
    IF mechanism = "base64" THEN Len(out.str) <= out.room
    ELSE out.room = 0 \/ Len(out.str) < out.room

\* The run of literals never reaches further than one byte behind the piece, and
\* that one only if the piece ends with "=" and one character (body.c:356).
InBounds ==
    state # "idle" =>
       /\ start + count <= Len(piece) + 1
       /\ start + count > Len(piece) => Len(piece) >= 2 /\ piece[Len(piece) - 1] = EQ

\* As long as pieces end between two codes, the stream is what the client
\* encoded: no character lost or doubled, where runs, breaks and pieces meet.
AsEncoded == state = "idle" /\ whole /\ EndsWell(mechanism, sent) => stream = Meaning(mechanism, sent)

\* Every call returns (the loops of body.c:151 and 294), whatever the piece.
Returns == state # "idle" ~> state = "idle"
=============================================================================

------------------------------ MODULE SmtpFields ------------------------------
(***************************************************************************)
(* A header field on its way to its parser.  The client sends the text a   *)
(* piece at a time; a segment may end after any piece, and then the parser *)
(* is called on everything that has arrived.  It keeps nothing between two *)
(* calls: SMTP_ERROR_CONTINUE means call me again with more, anything else *)
(* is final (smtp_fields_parse in src/fields.re moves on to the next field *)
(* or gives up the session).                                               *)
(*                                                                         *)
(* So the answer must not depend on where segments ended: that is what the *)
(* properties say.                                                         *)
(***************************************************************************)
EXTENDS SmtpContent

CONSTANTS
    Texts,     \* legal lines: [field, text, val], val what the parser should return
    Alphabet,  \* the pieces of arbitrary texts, by field
    MaxPieces, \* bound: pieces in an arbitrary text
    Uncut,     \* the characters no segment ends with, by field
    Rest,      \* what follows a line
    Parser     \* the parser of each field, from what has arrived to an answer

Fields == {"from", "to", "type", "encoding", "disposition", "path"}
LibraryFields == {"sender", "reply-to", "cc", "resent-from", "resent-to", "resent-msg-id",
                  "resent-sender", "resent-cc", "bcc", "message-id", "references",
                  "in-reply-to", "keywords", "return", "subject", "comments", "received",
                  "version", "language", "x-token", "date", "resent-date"}
Lexical == {"fws", "comment", "quoted", "literal", "line", "wsp line"}
AllFields == Fields \cup LibraryFields \cup Lexical

\* The characters of a string.
Chars(s) == [k \in 1..Len(s) |-> SubSeq(s, k, k)]
\* What the provers do not know of strings: they are made of characters.
Spelt(s) ==
    /\ Len(s) \in Nat
    /\ \A k \in 1..Len(s) : Chars(s)[k] \in STRING /\ Chars(Chars(s)[k]) = <<Chars(s)[k]>>

ASSUME TextsAssumption == \A t \in Texts : t.field \in AllFields /\ Spelt(t.text \o Rest)
ASSUME AlphabetAssumption ==
    DOMAIN Alphabet \subseteq AllFields /\ \A f \in DOMAIN Alphabet : \A p \in Alphabet[f] : Spelt(p)
ASSUME MaxPiecesAssumption == MaxPieces \in Nat
ASSUME ParserAssumption == DOMAIN Parser = AllFields

VARIABLES
    field,   \* the field being parsed
    line,    \* the legal line the client is sending; none when it is sending anything
    text,    \* what has arrived
    pieces,  \* pieces of an arbitrary text sent
    now,     \* the parser's answer, called on what has arrived
    said     \* the answer it gave, none while it has asked for more

vars == <<field, line, text, pieces, now, said>>

None == [v |-> "none", i |-> 0, val |-> <<>>]
NoLine == [field |-> "none", text |-> "", val |-> <<>>]

\* The parsers of the library, by field.
Parse(f, m) ==
    CASE f = "from" -> From(m)
      [] f = "to" -> To(m)
      [] f = "type" -> ContentType(m)
      [] f = "encoding" -> Encoding(m)
      [] f = "disposition" -> Disposition(m)
      [] f = "path" -> MailFrom(m)
      [] f = "sender" -> Sender(m)
      [] f = "reply-to" -> ReplyTo(m)
      [] f = "cc" -> Cc(m)
      [] f = "resent-from" -> ResentFrom(m)
      [] f = "resent-to" -> ResentTo(m)
      [] f = "resent-msg-id" -> ResentMsgId(m)
      [] f = "resent-sender" -> ResentSender(m)
      [] f = "resent-cc" -> ResentCc(m)
      [] f = "bcc" -> Bcc(m)
      [] f = "message-id" -> MessageId(m)
      [] f = "references" -> References(m)
      [] f = "in-reply-to" -> InReplyTo(m)
      [] f = "keywords" -> Keywords(m)
      [] f = "return" -> Return(m)
      [] f = "subject" -> Subject(m)
      [] f = "comments" -> Comments(m)
      [] f = "received" -> Received(m)
      [] f = "version" -> Version(m)
      [] f = "language" -> Language(m)
      [] f = "x-token" -> XToken(m)
      [] f = "date" -> OrigDate(m)
      [] f = "resent-date" -> ResentDate(m)
      [] f = "fws" -> Fws(m, 0)
      [] f = "comment" -> Comment(m, 0)
      [] f = "quoted" -> QuotedString(m, 0)
      [] f = "literal" -> DomainLiteral(m, 0)
      [] f = "line" -> StrCrLf(m, 0)
      [] f = "wsp line" -> WspUnstrictCrLf(m, 0)
\* The library as a value of Parser: the one of every run and theorem.
Library ==
    LET ParserOf(f) == [m \in Seq(STRING) |-> Parse(f, m)]
    IN [f \in AllFields |-> ParserOf(f)]

Init ==
    /\ \/ line \in Texts /\ field = line.field
       \/ line = NoLine /\ field \in DOMAIN Alphabet
    /\ text = <<>> /\ pieces = 0 /\ now = None /\ said = None

Whole == Chars(line.text \o Rest)

\* The segment ends: the parser is called, unless it has answered already.
Deliver == said' = IF said = None /\ now'.v # "cont" THEN now' ELSE said

\* The client sends a piece; the segment ends after it, or does not.
Send(piece) ==
    /\ text' = text \o Chars(piece)
    /\ now' = Parser[field][text']
    /\ \/ piece \notin Uncut[field] /\ Deliver
       \/ UNCHANGED said
    /\ UNCHANGED <<field, line>>
SendLine ==
    /\ line # NoLine /\ text # Whole
    /\ Send(Ch(Whole, Len(text)))
    /\ UNCHANGED pieces
SendAny ==
    /\ line = NoLine /\ pieces < MaxPieces
    /\ \E p \in Alphabet[field] : Send(p)
    /\ pieces' = pieces + 1
\* Nothing more comes for now: the last segment ends.
Push ==
    /\ line # NoLine /\ text = Whole /\ said = None
    /\ UNCHANGED <<field, line, text, pieces, now>>
    /\ Deliver

Next == SendLine \/ SendAny \/ Push

Spec == Init /\ [][Next]_vars

-----------------------------------------------------------------------------
(***************************************************************************)
(* Properties.                                                             *)
(***************************************************************************)
TypeOK ==
    /\ field \in AllFields
    /\ line \in Texts \cup {NoLine}
    /\ text \in Seq(STRING)
    /\ pieces \in 0..MaxPieces
    /\ now.v \in {"none", "ok", "parse", "cont", "spin", "null"}
    /\ said.v \in {"none", "ok", "parse", "spin", "null"}
    /\ said.i \in 0..Len(text)

\* An answer is final: however the text goes on, a parser called on all of it
\* would have said the same, and left the same index.
Final == said # None => now = said

\* A legal line is accepted, wherever segments end: the index left is its end,
\* and the value is the one the line means.
Meant == line # NoLine /\ said # None => said = Got(Len(line.text), line.val)

\* A parser given a legal line and what follows it does not ask for more.
Answered == line # NoLine /\ text = Whole => now.v # "cont"

\* Every loop of the parsers ends, and no path frees what it has not got.
Returns == said.v \notin {"spin", "null"}

-----------------------------------------------------------------------------
(***************************************************************************)
(* The grammar the comments of src/mime.c quote, as recognisers that know  *)
(* nothing of parsers.                                                     *)
(***************************************************************************)
\* How deep in comments a text is after k characters, read from the left;
\* -1 once it cannot be the beginning of a comment.
Deep(m) ==
    LET d[k \in 0..Len(m)] ==
            IF k = 0 THEN [deep |-> 0, quoted |-> FALSE]
            ELSE LET c == Ch(m, k - 1)
                     p == d[k - 1]
                 IN IF p.deep < 0 \/ (k > 1 /\ p.deep = 0) THEN [deep |-> -1, quoted |-> FALSE]
                    ELSE IF p.quoted THEN [deep |-> p.deep, quoted |-> FALSE]
                    ELSE CASE c = "(" -> [deep |-> p.deep + 1, quoted |-> FALSE]
                           [] c = ")" -> [deep |-> p.deep - 1, quoted |-> FALSE]
                           [] OTHER -> [deep |-> IF p.deep = 0 THEN -1 ELSE p.deep, quoted |-> c = "\\"]
    IN [k \in 0..Len(m) |-> d[k].deep]

\* A comment ends where it has closed as often as it opened:
\* comment = "(" *([FWS] ccontent) [FWS] ")", with quoted pairs skipped.  A text
\* that ends with the comment is left out: the parser does not return.
CommentIsBalanced ==
    field = "comment" /\ now.v # "none" =>
       LET ends == {k \in 1..Len(text) : Deep(text)[k] = 0}
       IN /\ now.v = "ok" => ends = {now.i}
          /\ now.v = "parse" => ends = {}
          /\ ends # {} => now.v = "ok" \/ ends = {Len(text)}

\* FWS = [*WSP CRLF] 1*WSP: the answer is the longest such beginning.
FwsIsLongest ==
    field = "fws" /\ now.v # "none" =>
       LET Blank(i, j) == \A k \in i..(j - 1) : At(text, k, Wsp)
           Break(j) == At(text, j, {"\n"}) \/ (At(text, j, {"\r"}) /\ At(text, j + 1, {"\n"}))
           Behind(j) == IF At(text, j, {"\r"}) THEN j + 2 ELSE j + 1
           IsFws(k) == \/ k > 0 /\ Blank(0, k)
                       \/ \E j \in 0..(k - 1) : /\ Blank(0, j) /\ Break(j)
                                                /\ Behind(j) < k /\ Blank(Behind(j), k)
           ends == {k \in 1..Len(text) : IsFws(k)}
       IN CASE now.v = "ok" -> now.i \in ends /\ \A k \in ends : k <= now.i
            [] now.v = "parse" -> ends = {}
            [] now.v = "cont" -> TRUE

\* Comments and folding white space, which every other construct is made of,
\* are those of the grammar the comments of src/mime.c quote.
AsInGrammar == CommentIsBalanced /\ FwsIsLongest
=============================================================================

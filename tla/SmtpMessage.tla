----------------------------- MODULE SmtpMessage -----------------------------
(***************************************************************************)
(* The content of messages as src/message.re takes it apart: the stack of  *)
(* MIME parts, the parsers of header fields, preamble, body and epilogue,  *)
(* and the loop of parse_smtp_message that calls them, beside the message  *)
(* the client is really sending.                                           *)
(*                                                                         *)
(* The client's half is a legal message: headers, nested multiparts,       *)
(* message/rfc822.  The tracker's half sees lines and has to rebuild that  *)
(* structure from them, across segments that end anywhere.                 *)
(*                                                                         *)
(* A line is a record [kind, id, form].  kind: "multi" (a Content-Type of  *)
(* multipart with boundary id), "single" and "rfc822" (other Content-      *)
(* Types), "field" (any other field), "blank", "text", "delim" (--id),     *)
(* "close" (--id--), "dot" (a full stop alone).  form: "whole"; "head", a   *)
(* line cut by the end of a segment; "bare", a closing delimiter cut       *)
(* between its last dashes and its line feed; "tail", what completes them.  *)
(***************************************************************************)
EXTENDS Integers, Sequences, SequencesExt

CONSTANTS
    MaxDepth,    \* SMTP_MSG_STACK_MAX_DEPTH
    Boundaries,  \* the boundaries clients use
    Malformed,   \* TRUE: the client may send lines out of place
    Scraps,      \* TRUE: a segment may end with less of a piece than a boundary is long
    MaxNesting,  \* bound: multiparts open at once in what the client sends
    BufLines     \* bound: lines the client buffer holds

None == "none"

ASSUME DepthAssumption == MaxDepth \in Nat /\ MaxDepth >= 3
ASSUME BoundariesAssumption == {None, "single", "rfc822"} \cap Boundaries = {}
ASSUME MalformedAssumption == Malformed \in BOOLEAN
ASSUME ScrapsAssumption == Scraps \in BOOLEAN
ASSUME MaxNestingAssumption == MaxNesting \in Nat
ASSUME BufLinesAssumption == BufLines \in Nat \ {0}

VARIABLES
    open,     \* the session has a smtp_info
    why,      \* what ended it
    message,  \* curr_parse_state is SMTP_STATE_PARSE_MESSAGE
    last,     \* last_cli_event_type, as far as message events go
    stack,    \* part_stack
    top,      \* part_stack_top
    newPart,  \* new_part_flag
    buf,      \* lines of the client buffer
    cur,      \* cur_token, in lines
    kept,     \* the buffer begins with text a search for a boundary kept back
    phase     \* where parse_smtp_message is

VARIABLES
    at,       \* the piece of a message the client is sending
    type,     \* the content type its header has declared
    nested,   \* the boundaries of the multiparts it has open
    text,     \* the line before was one of text
    owed,     \* the rest of a line cut by the end of a segment
    orderly   \* its messages are among those the tracker follows

parts == <<stack, top, newPart>>
session == <<open, why, message, last>>
tracker == <<session, parts, buf, cur, kept, phase>>
sender == <<at, type, nested, text, owed, orderly>>
vars == <<tracker, sender>>

Indices == 0..(MaxDepth - 1)
States == {"fields", "body", "preamble", "epilogue"}
Types == {"none", "single", "multi", "rfc822"}
Kinds == {"multi", "single", "rfc822", "field", "blank", "text", "delim", "close", "dot"}
Forms == {"whole", "head", "bare", "tail"}
Lines == [kind : Kinds, id : Boundaries \cup {None}, form : Forms]
Reasons == {"none", "peer", "refused", "parse", "corrupt", "push", "pop", "buffer"}
Phases == {"idle", "filling", "loop", "cont", "succ"}
Pieces == {"done", "header", "preamble", "body", "epilogue", "lost"}

ClearPart == [state |-> "fields", type |-> "none", bound |-> None]
Line(kind, id) == [kind |-> kind, id |-> id, form |-> "whole"]

-----------------------------------------------------------------------------
(***************************************************************************)
(* The client.                                                             *)
(***************************************************************************)
Inner == nested[Len(nested)]

\* The lines that may come next in a legal message.
HeaderLines ==
    {Line("field", None), Line("blank", None), Line("single", None), Line("rfc822", None)}
    \cup IF Len(nested) < MaxNesting
         THEN {Line("multi", b) : b \in Boundaries \ Range(nested)} ELSE {}
Delimiters == {Line("delim", Inner), Line("close", Inner)}
LegalLines ==
    CASE at = "header" -> IF type = "none" THEN HeaderLines
                          ELSE {Line("field", None), Line("blank", None)}
      [] at = "preamble" -> {Line("text", None), Line("delim", Inner)}
      [] at \in {"body", "epilogue"} ->
            {Line("text", None)} \cup
            IF nested = <<>> THEN {Line("dot", None)} ELSE Delimiters
      [] OTHER -> {}
AnyLine ==
    {Line(k, None) : k \in {"single", "rfc822", "field", "blank", "text", "dot"}} \cup
    {Line(k, b) : k \in {"multi", "delim", "close"}, b \in Boundaries}

\* The piece of the message that follows a line.
SenderMoves(l) ==
    /\ at' = IF l \notin LegalLines THEN "lost"
             ELSE CASE l.kind = "blank" -> IF type = "rfc822" THEN "header"
                                           ELSE IF type \in Boundaries THEN "preamble" ELSE "body"
                    [] l.kind = "delim" -> "header"
                    [] l.kind = "close" -> "epilogue"
                    [] l.kind = "dot" -> "done"
                    [] OTHER -> at
    /\ type' = CASE l.kind \in {"single", "rfc822"} -> l.kind
                 [] l.kind = "multi" -> l.id
                 [] l.kind = "field" -> type
                 [] OTHER -> "none"
    /\ nested' = IF l \notin LegalLines THEN <<>>
                 ELSE CASE l.kind = "blank" /\ type \in Boundaries -> Append(nested, type)
                        [] l.kind = "close" -> Front(nested)
                        [] OTHER -> nested
    /\ text' = (l.kind = "text")

\* What the tracker follows: every part of a multipart declares its content
\* type, the nesting fits the stack, and a line of text comes before the end.
Followed(l) ==
    /\ l \in LegalLines
    /\ l.kind = "dot" => text
    /\ l.kind = "blank" => type # "none" \/ nested = <<>>
    /\ l.kind = "multi" => Len(nested) + 3 <= MaxDepth

-----------------------------------------------------------------------------
(***************************************************************************)
(* The stack of parts.                                                     *)
(***************************************************************************)
Fail(reason) ==
    /\ open' = FALSE /\ why' = reason /\ phase' = "idle"
    /\ stack' = [i \in Indices |-> ClearPart] /\ top' = 0 /\ newPart' = TRUE
    /\ buf' = <<>> /\ cur' = 0 /\ kept' = FALSE
    /\ UNCHANGED <<message, last>>

\* pop_part_stack: s without its top, n times.
Popped(s, n) == [i \in Indices |-> IF i > top - n /\ i <= top THEN ClearPart ELSE s[i]]

\* The top's type and boundary are kept, its state is set.
InState(s, i, state) == [s EXCEPT ![i].state = state]

-----------------------------------------------------------------------------
(***************************************************************************)
(* The parsers.  Each says where cur_token moves and what becomes of the   *)
(* stack; Continue is SMTP_ERROR_CONTINUE.                                 *)
(***************************************************************************)
Rest == SubSeq(buf, cur + 1, Len(buf))
IsWhole(l) == l.form = "whole"

\* What a parser of text leaves in the buffer: as much as an end of message or
\* a delimiter cut by the end of the segment may need.
Held == IF Rest = <<>> THEN 0
        ELSE IF IsWhole(Last(Rest)) \/ Len(Rest) = 1 THEN 1 ELSE 2

\* Mutant: the loop goes on.
ContinueAgain(n) ==
    /\ cur' = n /\ phase' = "loop"
    /\ UNCHANGED <<session, parts, buf, kept>>
Continue(n) ==
    /\ cur' = n /\ phase' = "cont"
    /\ UNCHANGED <<session, parts, buf, kept>>
Advance(n, next) ==
    /\ cur' = n /\ phase' = next /\ kept' = FALSE
    /\ UNCHANGED <<open, why, message, buf>>

\* No boundary yet: enough is kept for one that is cut, unless all there is of
\* the piece is shorter than the boundary.  Then nothing is kept.
Search ==
    /\ phase' = "cont" /\ UNCHANGED <<session, parts, buf>>
    /\ \/ cur' = Len(buf) - Held /\ kept' = TRUE
       \/ Scraps /\ ~kept /\ cur' = Len(buf) /\ kept' = FALSE

\* smtp_envelope_or_optional_field_parse: one field, or the end of the header.
\* A field at the end of the segment may still be continued by the next line.
FieldKinds == {"field", "multi", "single", "rfc822"}
TypeOfField(p, l) ==
    CASE l.kind = "multi" -> [p EXCEPT !.type = "multi", !.bound = l.id]
      [] l.kind \in {"single", "rfc822"} -> [p EXCEPT !.type = l.kind]
      [] OTHER -> p

\* Mutant: a message in a message does not give its entry of the stack back.
PoppedWithHeader(t) == 0
PoppedAfterHeader(t) == IF t = "rfc822" THEN 1 ELSE 0
EndOfHeader(k) ==
    LET t == stack[top].type
        n == PoppedAfterHeader(t) IN
    CASE t = "none" /\ top # 1 -> Fail("parse")
      [] t # "none" /\ n > top -> Fail("pop")
      [] OTHER ->
            /\ stack' = IF t = "rfc822" THEN Popped(stack, n)
                        ELSE InState(stack, top, IF t = "multi" THEN "preamble" ELSE "body")
            /\ top' = top - n /\ newPart' = (t = "rfc822")
            /\ Advance(k, "loop") /\ UNCHANGED last

FieldsParse ==
    IF Rest = <<>> THEN Continue(cur)
    ELSE LET l == Head(Rest) IN
         \/ l.form # "whole" /\ Continue(cur)
         \/ IsWhole(l) /\ l.kind = "blank" /\ EndOfHeader(cur + 1)
         \/ IsWhole(l) /\ l.kind \in FieldKinds /\ Len(Rest) = 1 /\ Continue(cur)
         \/ /\ IsWhole(l) /\ l.kind \in FieldKinds
            /\ stack' = [stack EXCEPT ![top] = TypeOfField(@, l)]
            /\ Advance(cur + 1, "loop") /\ UNCHANGED <<top, newPart, last>>
         \/ IsWhole(l) /\ l.kind \notin FieldKinds \cup {"blank"} /\ Fail("parse")

\* smtp_mime_body_part_dash2_boundary_parse: where the first line of the rest is
\* that begins with the boundary; empty when there is none.
Marks(bound) ==
    {k \in (cur + 1)..Len(buf) : /\ buf[k].kind \in {"delim", "close"} /\ buf[k].id = bound
                                 /\ buf[k].form \in {"whole", "bare"}}
Found(bound) == {k \in Marks(bound) : \A j \in Marks(bound) : k <= j}

\* CRLF.CRLF at the end of the buffer, its first CRLF not consumed yet.
\* Mutant: it has to be all that is left.
EndOfMessageAlone(lines) == lines = <<Line("text", None), Line("dot", None)>>
EndOfMessage(lines) ==
    Len(lines) >= 2 /\ Last(lines) = Line("dot", None)

\* A delimiter is found: n entries are popped, and another part begins.
NextPart(k, n) ==
    IF n > top THEN Fail("pop")
    ELSE /\ last' = "EOT" /\ newPart' = TRUE
         /\ top' = top - n /\ stack' = InState(Popped(stack, n), top - n, "fields")
         /\ Advance(k, "loop")
\* A closing delimiter is found.  One that the segment cuts before its line
\* feed moves cur_token past the end of the buffer.
Closed(k, n) ==
    IF n > top THEN Fail("pop")
    ELSE /\ last' = "EOB" /\ UNCHANGED newPart
         /\ top' = top - n /\ stack' = InState(Popped(stack, n), top - n, "epilogue")
         /\ Advance(IF buf[k].form = "bare" THEN Len(buf) + 1 ELSE k, "loop")

\* smtp_msg_body_parse, and what the loop does with its result.
\* Mutants: CRLF.CRLF ends a message in any part; the end of a multipart's last
\* part leaves the multipart on the stack.
AnyPart == top >= 1
PoppedWithPart == 1
OnlyPart == top = 1
PoppedWithLastPart == IF stack[top - 1].type = "multi" THEN 2 ELSE 1
BodyParse ==
    LET bound == stack[top - 1].bound IN
    CASE OnlyPart /\ EndOfMessage(Rest) ->
            /\ last' = "EOM" /\ newPart' = TRUE
            /\ stack' = Popped(stack, 1) /\ top' = top - 1
            /\ Advance(Len(buf), "succ")
      [] OnlyPart /\ ~EndOfMessage(Rest) -> Continue(Len(buf) - Held)
      [] ~OnlyPart /\ bound = None -> Fail("parse")
      [] ~OnlyPart /\ bound # None /\ Found(bound) = {} -> Search
      [] OTHER -> \E k \in Found(bound) :
                     IF buf[k].kind = "delim" THEN NextPart(k, 1)
                     ELSE Closed(k, PoppedWithLastPart)

\* smtp_msg_preamble_parse, and what the loop does with its result.
PreambleParse ==
    LET bound == stack[top].bound IN
    CASE bound = None -> Fail("parse")
      [] bound # None /\ Found(bound) = {} -> Search
      [] OTHER -> \E k \in Found(bound) :
                     IF buf[k].kind = "delim" THEN NextPart(k, 0) ELSE Fail("parse")

\* smtp_msg_epilogue_parse, and what the loop does with its result.
EpilogueParse ==
    LET bound == stack[top].bound IN
    CASE top = 0 /\ EndOfMessage(Rest) ->
            /\ last' = "EOM" /\ newPart' = TRUE /\ message' = FALSE
            /\ cur' = Len(buf) /\ phase' = "succ"
            /\ UNCHANGED <<open, why, stack, top, buf, kept>>
      [] top = 0 /\ ~EndOfMessage(Rest) -> Continue(Len(buf) - Held)
      [] top # 0 /\ bound # None /\ Found(bound) = {} -> Search
      [] top # 0 /\ bound = None -> Fail("parse")
      [] OTHER -> \E k \in Found(bound) :
                     IF buf[k].kind = "delim" THEN NextPart(k, 0) ELSE Closed(k, 1)

-----------------------------------------------------------------------------
(***************************************************************************)
(* parse_smtp_message                                                      *)
(***************************************************************************)
\* push_part_stack.
\* Mutant: one part too many.
FullLate == top = MaxDepth
Full == top = MaxDepth - 1
Push ==
    IF Full THEN Fail("push")
    ELSE /\ top' = top + 1 /\ newPart' = FALSE
         /\ stack' = [stack EXCEPT ![top + 1] = ClearPart]
         /\ UNCHANGED <<session, buf, cur, kept, phase>>

\* One turn of the loop: the push, then the parser of the top's state.
Turn ==
    /\ phase = "loop" /\ UNCHANGED sender
    /\ IF cur >= Len(buf) THEN Continue(cur)
       ELSE IF newPart THEN Push
       ELSE \/ CASE stack[top].state = "fields" -> FieldsParse
                 [] stack[top].state = "body" -> BodyParse
                 [] stack[top].state = "preamble" -> PreambleParse
                 [] OTHER -> EpilogueParse
            \/ Fail("refused")   \* by the rules, or for want of memory

\* The test for CRLF.CRLF in a message that is not over.  In a shorter buffer
\* it reads what stands in front of it.
Corrupt ==
    \/ EndOfMessage(buf)
    \/ buf = <<Line("dot", None)>>
Return(lines) ==
    /\ buf' = lines /\ cur' = 0 /\ phase' = "idle"
    /\ UNCHANGED <<session, parts, kept>>
Sync ==
    IF cur > Len(buf) THEN Fail("buffer") ELSE Return(Rest)
Finish ==
    /\ UNCHANGED sender
    /\ \/ phase = "cont" /\ Corrupt /\ Fail("corrupt")
       \/ phase = "cont" /\ ~EndOfMessage(buf) /\ Sync
       \/ phase = "succ" /\ Sync

-----------------------------------------------------------------------------
(***************************************************************************)
(* Segments, and what the rest of the session does.                        *)
(***************************************************************************)
\* The buffer with one more piece of a line in it; the rest of a line whose
\* beginning is gone is text.
Joined(l) ==
    IF l.form # "tail" THEN Append(buf, l)
    ELSE IF buf # <<>> /\ ~IsWhole(Last(buf))
    THEN Append(Front(buf), [l EXCEPT !.form = "whole"])
    ELSE Append(buf, Line("text", None))

Arrives(l) ==
    /\ buf' = Joined(l) /\ phase' = "filling"
    /\ UNCHANGED <<session, parts, cur, kept>>

\* The client sends a line, or the first part of one.
SendLine ==
    /\ open /\ message /\ phase \in {"idle", "filling"} /\ owed = <<>>
    /\ at # "done" /\ Len(buf) < BufLines
    /\ \E l \in IF Malformed THEN AnyLine \cup LegalLines ELSE LegalLines :
          \/ /\ SenderMoves(l) /\ Arrives(l) /\ owed' = <<>>
             /\ orderly' = (orderly /\ Followed(l))
          \/ \E f \in IF l.kind = "close" THEN {"head", "bare"} ELSE {"head"} :
                /\ Arrives([l EXCEPT !.form = f]) /\ owed' = <<l>>
                /\ orderly' = (orderly /\ f = "head")
                /\ UNCHANGED <<at, type, nested, text>>

\* It sends the rest of a line, in another segment.
SendRest ==
    /\ open /\ message /\ phase = "idle" /\ owed # <<>>
    /\ SenderMoves(owed[1]) /\ owed' = <<>>
    /\ orderly' = (orderly /\ Followed(owed[1]))
    /\ Arrives([owed[1] EXCEPT !.form = "tail"])

\* The segment is complete: parse_smtp_message is called.
Segment ==
    /\ phase = "filling" /\ phase' = "loop"
    /\ UNCHANGED <<session, parts, buf, cur, kept, sender>>

\* The server's reply to a message whose end the tracker has seen.
MessageAccepted ==
    /\ open /\ phase = "idle" /\ at \in {"done", "lost"} /\ last = "EOM" /\ message
    /\ message' = FALSE
    /\ UNCHANGED <<open, why, last, parts, buf, cur, kept, phase, sender>>

\* The server grants DATA, and another message begins.
DataGranted ==
    /\ open /\ phase = "idle" /\ ~message /\ at \in {"done", "lost"} /\ owed = <<>>
    /\ message' = TRUE /\ last' = "DATA"
    /\ at' = "header" /\ type' = "none" /\ nested' = <<>> /\ text' = FALSE
    /\ UNCHANGED <<open, why, parts, buf, cur, kept, phase, owed, orderly>>

Teardown ==
    /\ open /\ phase = "idle" /\ Fail("peer") /\ UNCHANGED sender

Init ==
    /\ open = TRUE /\ why = "none" /\ message = FALSE /\ last = "DATA"
    /\ stack = [i \in Indices |-> ClearPart] /\ top = 0 /\ newPart = TRUE
    /\ buf = <<>> /\ cur = 0 /\ kept = FALSE /\ phase = "idle"
    /\ at = "done" /\ type = "none" /\ nested = <<>> /\ text = FALSE
    /\ owed = <<>> /\ orderly = TRUE

Parse == Turn \/ Finish
Next ==
    SendLine \/ SendRest \/ Segment \/ Parse \/ MessageAccepted \/ DataGranted \/ Teardown

\* The program runs until parse_smtp_message returns; nothing else is owed.
Fairness == WF_vars(Parse)

Spec == Init /\ [][Next]_vars /\ Fairness

-----------------------------------------------------------------------------
TypeOK ==
    /\ open \in BOOLEAN /\ why \in Reasons /\ message \in BOOLEAN
    /\ last \in {"DATA", "EOT", "EOB", "EOM"}
    /\ stack \in [Indices -> [state : States, type : Types, bound : Boundaries \cup {None}]]
    /\ top \in Indices /\ newPart \in BOOLEAN
    /\ buf \in Seq(Lines) /\ cur \in Nat /\ kept \in BOOLEAN /\ phase \in Phases
    /\ at \in Pieces /\ type \in {"none", "single", "rfc822"} \cup Boundaries
    /\ nested \in Seq(Boundaries) /\ text \in BOOLEAN /\ orderly \in BOOLEAN
    /\ owed \in Seq(Lines) /\ Len(owed) <= 1

\* Below the top there are only multiparts with a boundary, and the first entry
\* is never a part: every parser finds its boundary where it looks for it, no
\* body looks in front of the stack, and no pop finds it empty.
PartsNest ==
    /\ \A i \in 1..(top - 1) : stack[i].type = "multi" /\ stack[i].bound # None
    /\ stack[0].bound = None /\ stack[0].type = "none"
    /\ why # "pop"

\* Whatever was sent, a message whose end the tracker sees leaves the stack as
\* the first message found it, and so does the way back to commands.
BalancedAtEnd == phase = "succ" \/ (orderly /\ ~message) => top = 0 /\ newPart

\* The multiparts the tracker has open.
Open ==
    LET n == IF newPart \/ stack[top].state \in {"preamble", "epilogue"} THEN top ELSE top - 1
    IN [i \in 1..n |-> stack[i].bound]
Settled ==
    /\ open /\ message /\ phase = "idle" /\ last # "EOM"
    /\ \A i \in 1..Len(buf) : buf[i].kind = "text" \/ buf[i].form = "head"

\* In messages the tracker follows (Followed), the multiparts on its stack are
\* those the client has open, after every segment.  Segments end anywhere but
\* behind a scrap (Scraps) or a close delimiter cut bare.
OpenParts == orderly /\ Settled => Open = nested

\* Such a message ends for the tracker when it ends for the client, and the
\* tracker loses no session over it.  Nothing is claimed of the legal messages
\* Followed leaves out: an empty body, a full stop right behind a close delimiter
\* (the test of message.re:2094 closes both), a part without a Content-Type, more
\* parts inside each other than the stack holds.
EndSeen ==
    /\ orderly /\ open /\ phase = "idle" /\ at = "done" => last = "EOM" \/ ~message
    /\ orderly => why \in {"none", "peer", "refused"}

\* A call of parse_smtp_message returns.
Returns == phase = "loop" ~> phase = "idle"

(***************************************************************************)
(* What the sources say and the code does not do.                          *)
(***************************************************************************)
\* src/message.re, "dealing with corrupt mail messages": a message closed there
\* is not one that is legal.
CorruptIsCorrupt == why = "corrupt" => at = "lost"

\* src/smtp.c, sync_client_data: no more is processed than there is.
NeverPastEnd == why # "buffer"

=============================================================================

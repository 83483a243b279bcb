----------------------------- MODULE SmtpSession -----------------------------
(***************************************************************************)
(* One SMTP connection as smtp-nel-filter tracks it: the struct smtp_info  *)
(* of the connection, fed by process_smtp with the segments libnids        *)
(* reassembles, beside the dialogue the client and the server really hold. *)
(*                                                                         *)
(* The filter only listens.  It guesses the server's state from the last   *)
(* client command it parsed (last_cli_event_type) and from the first line  *)
(* of each server segment, so what can go wrong is the agreement between   *)
(* the two halves of the state below.                                      *)
(*                                                                         *)
(* A client line is a record [line, form]: line is the command verb, or    *)
(* "user"/"pass" (a line of the AUTH LOGIN dialogue), "body"/"eom" (a piece *)
(* of a message, CRLF.CRLF), "junk" (a line no parser knows).  form is     *)
(* "whole", "refused" (complete, its argument is one the parser rejects),  *)
(* "head" or "tail" (a line cut by a segment boundary).  A server line is  *)
(* a record [code, more, form]; more marks "250-".                         *)
(***************************************************************************)
EXTENDS Integers, Sequences

CONSTANTS
    Commands,     \* the verbs this client uses
    Codes,        \* the reply codes this server uses
    Verdicts,     \* what the rules may decide on an event
    Disabled,     \* commands switched off by var_disable_helo_cmd / _vrfy_ / _expn_
    Segmentation, \* TRUE: a segment may hold two lines or cut one
    MaxAsked,     \* bound: replies the client lets outstanding
    CliCap,       \* lines the client buffer holds
    SvrCap        \* lines the server buffer holds

Verbs == {"RSET", "HELO", "EHLO", "AUTH", "MAIL", "RCPT", "DATA", "BDAT", "QUIT",
          "TURN", "ATRN", "VRFY", "EXPN", "HELP", "NOOP", "SEND", "SOML", "SAML",
          "ETRN", "STARTTLS"}
AuthLines == {"user", "pass"}
MessageLines == {"body", "eom"}
ClientLines == Verbs \cup AuthLines \cup MessageLines \cup {"junk"}

\* The bits of psmtp->permit each verdict sets: SMTP_PERMIT_DROP is 3, not 4.
Bits == [forward |-> {}, alert |-> {"alert"}, deny |-> {"deny"},
         drop |-> {"alert", "deny"}, error |-> {}]

ASSUME CommandsAssumption == Commands \subseteq Verbs
ASSUME CodesAssumption == Codes \subseteq 200..599
ASSUME VerdictsAssumption == Verdicts \subseteq DOMAIN Bits
ASSUME DisabledAssumption == Disabled \subseteq {"HELO", "VRFY", "EXPN"}
ASSUME SegmentationAssumption == Segmentation \in BOOLEAN
ASSUME BoundsAssumption ==
    MaxAsked \in Nat \ {0} /\ CliCap \in Nat \ {0} /\ SvrCap \in Nat \ {0}

VARIABLES
    open,     \* the connection has a smtp_info
    parse,    \* curr_parse_state
    last,     \* last_cli_event_type
    mail,     \* mail_state
    permit,   \* permit, as a set of bits
    cliBuf,   \* client lines received and not consumed
    svrBuf,   \* server lines received and not consumed
    svrOff,   \* svr_data - svr_buf, in lines
    why       \* why the tracker closed the session

VARIABLES
    srv,      \* where the real server is in its transaction
    auth,     \* which line of an AUTH LOGIN dialogue the server waits for
    asked,    \* what the client sent and the server has not answered
    cliOwed,  \* the rest of a client line cut by a segment boundary
    svrOwed,  \* the rest of a reply cut by a segment boundary
    orderly   \* the dialogue has been one the tracker can follow

tracker == <<open, parse, last, mail, permit, cliBuf, svrBuf, svrOff, why>>
dialogue == <<srv, auth, asked, cliOwed, svrOwed, orderly>>
vars == <<tracker, dialogue>>

Events == (Verbs \ {"NOOP"}) \cup {"UNCERTAIN", "USER", "PASSWD", "EOT", "EOB", "EOM"}
MailStates == {"ORIGN", "HELO", "MAIL", "RCPT", "DATA"}
ParseStates == {"UNCERTAIN", "COMMAND", "MESSAGE"}
Reasons == {"none", "policy", "parse", "mailbox", "corrupt", "undefined", "peer"}

\* The verbs parse_smtp_command consumes without parsing or analysing them.
Skipped == {"BDAT", "TURN", "ATRN", "HELP", "ETRN", "STARTTLS"}

ClientTokens == [line : ClientLines, form : {"whole", "refused", "head", "tail"}]
ServerTokens == [code : 200..599, more : BOOLEAN, form : {"whole", "head", "tail"}]

-----------------------------------------------------------------------------
(***************************************************************************)
(* Ends of a handler                                                       *)
(***************************************************************************)
\* smtp_close_connection and free_smtp_info: the entry goes back to the pool.
Close(reason) ==
    /\ open' = FALSE
    /\ why' = reason
    /\ parse' = "UNCERTAIN" /\ last' = "UNCERTAIN" /\ mail' = "ORIGN"
    /\ cliBuf' = <<>> /\ svrBuf' = <<>> /\ svrOff' = 0

\* permit & SMTP_PERMIT_DENY, else permit & SMTP_PERMIT_DROP.
Blocked(p) == "deny" \in p \/ p \cap Bits["drop"] # {}

\* Mutant: permit is not tested after the event.
AnalyseUntested(Passed) ==
    \E v \in Verdicts :
       /\ permit' = permit \cup Bits[v]
       /\ IF v = "error" THEN Close("policy") ELSE Passed /\ UNCHANGED <<open, why>>

\* nel_env_analysis of an event and the test of permit that follows it.
Analyse(Passed) ==
    \E v \in Verdicts :
       /\ permit' = permit \cup Bits[v]
       /\ IF v = "error" \/ Blocked(permit \cup Bits[v]) THEN Close("policy")
          ELSE Passed /\ UNCHANGED <<open, why>>

\* A handler's error return.
Fail(reason) == Close(reason) /\ UNCHANGED permit

-----------------------------------------------------------------------------
(***************************************************************************)
(* Client commands                                                         *)
(***************************************************************************)
\* The command is recorded and its line consumed (sync_client_data).
Recorded(e, buf) ==
    /\ last' = e
    /\ cliBuf' = Tail(buf)
    /\ UNCHANGED <<parse, mail, svrBuf, svrOff>>

\* reset_client_buf with a result that keeps the session: the line is lost.
Forgotten(e) ==
    /\ last' = e
    /\ cliBuf' = <<>>
    /\ UNCHANGED <<open, why, parse, mail, permit, svrBuf, svrOff>>

\* The body the command parsers share: syntax, event, permit, record.
ParseCommand(e, lastSoFar, buf) ==
    \/ Head(buf).form = "whole" /\ Analyse(Recorded(e, buf))
    \/ Head(buf).form = "refused" /\ Fail("parse")
    \/ Head(buf).form = "head" /\ (Forgotten(lastSoFar) \/ Fail("parse"))

HeloCmd(buf) ==
    /\ Head(buf).line = "HELO"
    /\ IF "HELO" \in Disabled THEN Forgotten(last) ELSE ParseCommand("HELO", last, buf)
EhloCmd(buf) == Head(buf).line = "EHLO" /\ ParseCommand("EHLO", last, buf)
AuthCmd(buf) == Head(buf).line = "AUTH" /\ ParseCommand("AUTH", "AUTH", buf)
MailCmd(buf) == Head(buf).line = "MAIL" /\ ParseCommand("MAIL", last, buf)
RcptCmd(buf) == Head(buf).line = "RCPT" /\ ParseCommand("RCPT", last, buf)
DataCmd(buf) == Head(buf).line = "DATA" /\ ParseCommand("DATA", last, buf)
RsetCmd(buf) == Head(buf).line = "RSET" /\ ParseCommand("RSET", last, buf)
QuitCmd(buf) == Head(buf).line = "QUIT" /\ ParseCommand("QUIT", last, buf)
SendCmd(buf) == Head(buf).line = "SEND" /\ ParseCommand("SEND", last, buf)
\* parse_smtp_command hands SAML FROM to the SOML parser.
SomlCmd(buf) == Head(buf).line \in {"SOML", "SAML"} /\ ParseCommand("SOML", last, buf)
\* Mutant: var_disable_vrfy_cmd is ignored.
VrfyCmdAlways(buf) == Head(buf).line = "VRFY" /\ ParseCommand("VRFY", last, buf)
VrfyCmd(buf) ==
    /\ Head(buf).line = "VRFY"
    /\ IF "VRFY" \in Disabled THEN Fail("policy") ELSE ParseCommand("VRFY", last, buf)
ExpnCmd(buf) ==
    /\ Head(buf).line = "EXPN"
    /\ IF "EXPN" \in Disabled THEN Fail("policy") ELSE ParseCommand("EXPN", last, buf)

\* A line of the AUTH LOGIN dialogue: whatever the client sends is taken for it.
AuthLine(e, buf) ==
    \/ Head(buf).form # "head" /\ Analyse(Recorded(e, buf))
    \/ Head(buf).form = "head" /\ Fail("parse")
UserCmd(buf) == last = "AUTH" /\ AuthLine("USER", buf)
\* Mutant: the password is recorded as one more user name.
PasswdCmdAsUser(buf) == last = "USER" /\ AuthLine("USER", buf)
PasswdCmd(buf) == last = "USER" /\ AuthLine("PASSWD", buf)

\* The commands that `goto succ': the whole buffer is consumed, and the result
\* is decided by two locals no path has set, so the session lives or is closed.
SkippedCmd(buf) ==
    /\ Head(buf).line \in Skipped \cup {"NOOP"}
    /\ \/ /\ last' = IF Head(buf).line = "NOOP" THEN last ELSE Head(buf).line
          /\ cliBuf' = <<>>
          /\ UNCHANGED <<open, why, parse, mail, permit, svrBuf, svrOff>>
       \/ Fail("undefined")

\* parse_smtp_command, one command per call.
ParseSmtpCommand(buf) ==
    \/ UserCmd(buf)
    \/ PasswdCmd(buf)
    \/ /\ last \notin {"AUTH", "USER"}
       /\ IF Head(buf).form = "tail" \/ Head(buf).line \notin Verbs
          THEN Fail("parse")
          ELSE \/ HeloCmd(buf) \/ EhloCmd(buf) \/ AuthCmd(buf) \/ MailCmd(buf)
               \/ RcptCmd(buf) \/ DataCmd(buf) \/ RsetCmd(buf) \/ QuitCmd(buf)
               \/ SendCmd(buf) \/ SomlCmd(buf) \/ VrfyCmd(buf) \/ ExpnCmd(buf)
               \/ SkippedCmd(buf)

-----------------------------------------------------------------------------
(***************************************************************************)
(* Message content.  What the MIME parser does with a segment is a choice  *)
(* here: it consumes a part of the buffer, analyses some events with and    *)
(* some without a test of permit (eoh, eot, eob and eom have none), and may *)
(* end a body part.  Only CRLF.CRLF at the very end of the buffer ends a   *)
(* message.                                                                *)
(***************************************************************************)
EndsMessage(buf) == buf[Len(buf)] = [line |-> "eom", form |-> "whole"]

\* The message stays incomplete (SMTP_ERROR_CONTINUE), or is refused.
MessageGoesOn(buf) ==
    /\ ~EndsMessage(buf)
    /\ \/ /\ \E v \in Verdicts \ {"error"} : permit' = permit \cup Bits[v]
          /\ last' \in {last, "EOT", "EOB"}
          /\ \E n \in 0..Len(buf) : cliBuf' = SubSeq(buf, n + 1, Len(buf))
          /\ UNCHANGED <<open, why, parse, mail, svrBuf, svrOff>>
       \/ \E v \in Verdicts :
             /\ permit' = permit \cup Bits[v]
             /\ v = "error" \/ Blocked(permit \cup Bits[v])
             /\ Close("policy")
       \/ Fail("corrupt")

\* End of message: from the body of a single part (parse unchanged), or from
\* an epilogue (back to COMMAND before the server has answered).
MessageEnded(next) ==
    /\ parse' = next
    /\ last' = "EOM"
    /\ cliBuf' = <<>>
    /\ UNCHANGED <<open, why, mail, svrBuf, svrOff>>
MessageEnds(buf) ==
    /\ EndsMessage(buf)
    /\ \/ \E t, e \in Verdicts :      \* the text event, then eot and eom
             /\ permit' = permit \cup Bits[t] \cup Bits[e]
             /\ IF t = "error" \/ e = "error" \/ Blocked(permit \cup Bits[t])
                THEN Close("policy")
                ELSE MessageEnded(parse)
       \/ \E e \in Verdicts :
             /\ permit' = permit \cup Bits[e]
             /\ IF e = "error" THEN Close("policy") ELSE MessageEnded("COMMAND")
       \/ Fail("corrupt")

ParseSmtpMessage(buf) == MessageGoesOn(buf) \/ MessageEnds(buf)

ParseSmtpClient(buf) ==
    IF parse = "MESSAGE" THEN ParseSmtpMessage(buf) ELSE ParseSmtpCommand(buf)

-----------------------------------------------------------------------------
(***************************************************************************)
(* Server replies.  Each parser reads the first line of the buffer,        *)
(* applies the effect of its code, and only then looks for the CRLF, asks  *)
(* the rules and tests permit; it consumes that one line.                  *)
(***************************************************************************)
Whole(l) == l.form = "whole"
Has(l, codes) == l.form # "tail" /\ l.code \in codes
Negative == 400..599

\* sync_server_data after n lines, with the reply's effect on the session.
Answered(m, p, l, buf, n) ==
    /\ mail' = m /\ parse' = p /\ last' = l
    /\ svrBuf' = SubSeq(buf, n + 1, Len(buf)) /\ svrOff' = 0
    /\ UNCHANGED cliBuf

\* The end of every reply parser.
Reply(m, p, l, buf) ==
    IF Whole(Head(buf)) THEN Analyse(Answered(m, p, l, buf, 1)) ELSE Fail("parse")
Unchanged(buf) == Reply(mail, parse, last, buf)

HeloAck(buf) ==
    IF Has(Head(buf), {250}) THEN Reply("HELO", parse, last, buf) ELSE Unchanged(buf)

\* The lines of a 250 reply up to the final one, in this segment or refused.
FinalLine(buf) ==
    {n \in 1..Len(buf) : \A i \in 1..n :
        Whole(buf[i]) /\ buf[i].code = 250 /\ (buf[i].more <=> i < n)}
\* Mutant: only a one-line reply is understood.
EhloAckOneLine(buf) ==
    IF ~Has(Head(buf), {250}) THEN Unchanged(buf)
    ELSE IF Head(buf).more THEN Fail("parse") ELSE Reply("HELO", parse, last, buf)
EhloAck(buf) ==
    IF ~Has(Head(buf), {250}) THEN Unchanged(buf)
    ELSE \/ \E n \in FinalLine(buf) : Analyse(Answered("HELO", parse, last, buf, n))
         \/ FinalLine(buf) = {} /\ Fail("parse")

AuthAck(buf) ==
    CASE Has(Head(buf), {235, 334}) -> Unchanged(buf)
      [] Has(Head(buf), Negative) -> Reply(mail, parse, "UNCERTAIN", buf)
      [] OTHER -> Fail("parse")
UserAck(buf) ==
    Reply(mail, parse, IF Has(Head(buf), Negative) THEN "UNCERTAIN" ELSE last, buf)
PasswdAck(buf) ==
    Reply(mail, parse, IF Has(Head(buf), Negative) THEN "UNCERTAIN" ELSE last, buf)

MailAck(buf) ==
    IF Has(Head(buf), {250}) THEN Reply("MAIL", parse, last, buf) ELSE Unchanged(buf)
SendAck(buf) == Unchanged(buf)
SomlAck(buf) == Unchanged(buf)
SamlAck(buf) == Unchanged(buf)
RcptAck(buf) ==
    IF Has(Head(buf), {250, 251}) THEN Reply("RCPT", parse, last, buf) ELSE Unchanged(buf)
DataAck(buf) ==
    IF Has(Head(buf), {354}) THEN Reply("DATA", "MESSAGE", last, buf) ELSE Unchanged(buf)
\* Mutant: RSET forgets that HELO has been answered.
RsetAckToOrigin(buf) ==
    IF Has(Head(buf), {250}) THEN Reply("ORIGN", parse, last, buf) ELSE Unchanged(buf)
RsetAck(buf) ==
    IF Has(Head(buf), {250})
    THEN Reply(IF mail = "ORIGN" THEN "ORIGN" ELSE "HELO", parse, last, buf)
    ELSE Unchanged(buf)
QuitAck(buf) == Unchanged(buf)
\* Mutant: the reply counts whatever the rules said of the message.
MsgAckUntested(buf) ==
    IF Has(Head(buf), {250}) /\ Whole(Head(buf))
    THEN Answered("HELO", "COMMAND", last, buf, 1) /\ UNCHANGED <<open, why, permit>>
    ELSE Unchanged(buf)
MsgAck(buf) ==
    IF Has(Head(buf), {250}) THEN Reply("HELO", "COMMAND", last, buf) ELSE Unchanged(buf)

\* A mailbox cut short makes the reply vanish without an event.
ReplyLost ==
    /\ svrBuf' = <<>> /\ svrOff' = 0
    /\ UNCHANGED <<open, why, parse, last, mail, permit, cliBuf>>
VrfyAck(buf) ==
    IF Head(buf).more THEN Fail("parse")
    ELSE \/ Unchanged(buf)
         \/ Has(Head(buf), 200..299) /\ (Fail("mailbox") \/ ReplyLost)
ExpnAck(buf) ==
    IF ~Has(Head(buf), {250}) THEN Unchanged(buf)
    ELSE \/ \E n \in FinalLine(buf) : Analyse(Answered(mail, parse, last, buf, n))
         \/ FinalLine(buf) = {} /\ Fail("parse")
         \/ Fail("mailbox") \/ ReplyLost

\* The default case of parse_smtp_ack consumes all there is, CRLF or not, by
\* moving svr_data over it: the room it took is not given back.
OtherAck(buf) ==
    IF Head(buf).form = "tail" THEN Fail("parse")
    ELSE Analyse(/\ svrBuf' = <<>>
                 /\ svrOff' = svrOff + Len(buf)
                 /\ UNCHANGED <<parse, last, mail, cliBuf>>)

ParseSmtpAck(buf) ==
    CASE last = "HELO" -> HeloAck(buf)
      [] last = "EHLO" -> EhloAck(buf)
      [] last = "AUTH" -> AuthAck(buf)
      [] last = "USER" -> UserAck(buf)
      [] last = "PASSWD" -> PasswdAck(buf)
      [] last = "MAIL" -> MailAck(buf)
      [] last = "SEND" -> SendAck(buf)
      [] last = "SOML" -> SomlAck(buf)
      [] last = "SAML" -> SamlAck(buf)
      [] last = "RCPT" -> RcptAck(buf)
      [] last = "VRFY" -> VrfyAck(buf)
      [] last = "EXPN" -> ExpnAck(buf)
      [] last = "DATA" -> DataAck(buf)
      [] last = "RSET" -> RsetAck(buf)
      [] last = "QUIT" -> QuitAck(buf)
      [] last = "EOM" -> MsgAck(buf)
      [] OTHER -> OtherAck(buf)

-----------------------------------------------------------------------------
(***************************************************************************)
(* The client and the server (external): an RFC 5321 server that answers   *)
(* commands in order, and a client that knows what it was answered.        *)
(***************************************************************************)
\* Lines after which a client waits for the answer; the rest may be pipelined.
Pipelined == {"RSET", "MAIL", "RCPT", "SEND", "SOML", "SAML", "eom"}

\* The lines a client may send next when the lines in q are unanswered.
NextLines(q) ==
    IF srv = "bye" \/ Len(q) >= MaxAsked \/ (\E i \in 1..Len(q) : q[i] \notin Pipelined) THEN {}
    ELSE IF srv = "data" /\ (\A i \in 1..Len(q) : q[i] # "eom") THEN MessageLines
    ELSE IF auth # "none" THEN {auth}
    ELSE Commands \cup {"junk"}

Forms(line) ==
    IF line \in MessageLines THEN {"whole"}
    ELSE {"whole", "refused"} \cup IF Segmentation THEN {"head"} ELSE {}
NextTokens(q) == UNION {[line : {l}, form : Forms(l)] : l \in NextLines(q)}

\* What awaits an answer once the token has been sent.
Awaiting(q, t) == IF t.line = "body" \/ t.form = "head" THEN q ELSE Append(q, t.line)

ClientSegments ==
    IF cliOwed # <<>> THEN {cliOwed}
    ELSE {<<t>> : t \in NextTokens(asked)} \cup
         IF Segmentation
         THEN UNION {{<<t, u>> : u \in NextTokens(Awaiting(asked, t))} :
                        t \in {t \in NextTokens(asked) : t.form # "head"}}
         ELSE {}

\* The reply codes that grant a command, and the server states that allow it.
Granting(c) ==
    CASE c \in {"connect", "STARTTLS"} -> {220}
      [] c \in {"AUTH", "user"} -> {334}
      [] c = "pass" -> {235}
      [] c = "RCPT" -> {250, 251}
      [] c = "VRFY" -> {250, 252}
      [] c = "DATA" -> {354}
      [] c = "QUIT" -> {221}
      [] c = "HELP" -> {214}
      [] c = "junk" -> {}
      [] OTHER -> {250}
MayGrant(c) ==
    CASE c \in {"MAIL", "SEND", "SOML", "SAML", "AUTH"} -> srv = "ready"
      [] c = "RCPT" -> srv \in {"mail", "rcpt"}
      [] c \in {"DATA", "BDAT"} -> srv = "rcpt"
      [] OTHER -> TRUE
Answers(c) == {k \in Codes : k \in Negative \/ (k \in Granting(c) /\ MayGrant(c))}

SrvAfter(c, granted) ==
    CASE c = "eom" -> "ready"
      [] granted /\ c \in {"HELO", "EHLO", "BDAT"} -> "ready"
      [] granted /\ c \in {"MAIL", "SEND", "SOML", "SAML"} -> "mail"
      [] granted /\ c = "RCPT" -> "rcpt"
      [] granted /\ c = "DATA" -> "data"
      [] granted /\ c = "RSET" -> IF srv = "start" THEN "start" ELSE "ready"
      [] granted /\ c = "STARTTLS" -> "start"
      [] granted /\ c = "QUIT" -> "bye"
      [] OTHER -> srv
AuthAfter(c, granted) ==
    CASE granted /\ c = "AUTH" -> "user"
      [] granted /\ c = "user" -> "pass"
      [] OTHER -> "none"

ReplyLine(k, more, form) == [code |-> k, more |-> more, form |-> form]

\* The ways a reply reaches the filter: <<the segment, what is still to come>>.
Deliveries(k) ==
    {<< <<ReplyLine(k, FALSE, "whole")>>, <<>> >>,
     << <<ReplyLine(k, TRUE, "whole"), ReplyLine(k, FALSE, "whole")>>, <<>> >>} \cup
    IF Segmentation
    THEN {<< <<ReplyLine(k, FALSE, "head")>>, <<ReplyLine(k, FALSE, "tail")>> >>,
          << <<ReplyLine(k, TRUE, "whole")>>, <<ReplyLine(k, FALSE, "whole")>> >>}
    ELSE {}

(***************************************************************************)
(* The dialogues the tracker is expected to follow.                        *)
(***************************************************************************)
OrderlySegment(seg) ==
    /\ asked = <<>> /\ cliOwed = <<>> /\ svrOwed = <<>>
    /\ Len(seg) = 1 /\ seg[1].form = "whole"
    /\ seg[1].line \notin {"junk", "NOOP"} \cup (Disabled \cap {"HELO"})

\* Grants that change the server's state behind the tracker's back: SEND, SOML
\* and SAML open a transaction, BDAT ends one, TURN and ATRN swap the roles,
\* STARTTLS starts over; and a message the server does not accept.
Unfollowed(c, k) ==
    \/ k \in Granting(c) /\ c \in {"SEND", "SOML", "SAML", "BDAT", "TURN", "ATRN", "STARTTLS"}
    \/ c = "eom" /\ k # 250

OrderlyReply(c, k, seg) ==
    /\ svrOwed = <<>> /\ cliOwed = <<>>
    /\ ~Unfollowed(c, k)
    /\ \/ Len(seg) = 1 /\ seg[1] = ReplyLine(k, FALSE, "whole")
       \/ Len(seg) = 2 /\ c \in {"connect", "EHLO", "HELP", "ETRN"}
                        /\ (c = "EHLO" => k = 250)

-----------------------------------------------------------------------------
(***************************************************************************)
(* process_smtp, TCP_CONN_DATA                                             *)
(***************************************************************************)
\* memcpy after what the buffer holds: a cut line becomes whole.
Joined(buf, seg) ==
    IF buf # <<>> /\ buf[Len(buf)].form = "head" /\ Head(seg).form = "tail"
    THEN [buf EXCEPT ![Len(buf)] = [@ EXCEPT !.form = "whole"]] \o Tail(seg)
    ELSE buf \o seg

\* Segments that do not fit are dropped whole, and the session goes on.
\* Mutant: the room svr_data moved over is forgotten.
ServerFitsNoOffset(seg) == Len(svrBuf) + Len(seg) <= SvrCap
ClientFits(seg) == Len(cliBuf) + Len(seg) <= CliCap
ServerFits(seg) == svrOff + Len(svrBuf) + Len(seg) <= SvrCap

ClientData ==
    \E seg \in ClientSegments :
       LET t == seg[Len(seg)] IN
       /\ asked' = IF Len(seg) = 1 THEN Awaiting(asked, t)
                   ELSE Awaiting(Awaiting(asked, seg[1]), t)
       /\ cliOwed' = IF t.form = "head" THEN <<[t EXCEPT !.form = "tail"]>> ELSE <<>>
       /\ orderly' = (orderly /\ OrderlySegment(seg) /\ ClientFits(seg))
       /\ UNCHANGED <<srv, auth, svrOwed>>
       /\ IF ClientFits(seg) THEN ParseSmtpClient(Joined(cliBuf, seg))
          ELSE UNCHANGED tracker

\* A segment of server data reaches the filter.
ServerSegment(seg) ==
    IF ServerFits(seg) THEN ParseSmtpAck(Joined(svrBuf, seg)) ELSE UNCHANGED tracker

\* The server answers the oldest command.
ServerReplies ==
    /\ asked # <<>> /\ svrOwed = <<>>
    /\ \E k \in Answers(Head(asked)) : \E d \in Deliveries(k) :
          LET c == Head(asked) granted == k \in Granting(c) IN
          /\ asked' = Tail(asked)
          /\ srv' = SrvAfter(c, granted) /\ auth' = AuthAfter(c, granted)
          /\ svrOwed' = d[2]
          /\ orderly' = (orderly /\ OrderlyReply(c, k, d[1]) /\ ServerFits(d[1]))
          /\ UNCHANGED cliOwed
          /\ ServerSegment(d[1])

\* Two answers in one segment.
ServerCoalesces ==
    /\ Segmentation /\ Len(asked) >= 2 /\ svrOwed = <<>>
    /\ \E k \in Answers(Head(asked)) :
          LET c == Head(asked)
              s == SrvAfter(c, k \in Granting(c)) IN
          \E k2 \in {x \in Codes : x \in Negative} :
             /\ asked' = SubSeq(asked, 3, Len(asked))
             /\ srv' = IF asked[2] = "eom" THEN "ready" ELSE s
             /\ auth' = "none"
             /\ orderly' = FALSE
             /\ UNCHANGED <<svrOwed, cliOwed>>
             /\ ServerSegment(<<ReplyLine(k, FALSE, "whole"), ReplyLine(k2, FALSE, "whole")>>)

\* The rest of a reply that a segment boundary cut.
ServerResumes ==
    /\ svrOwed # <<>>
    /\ svrOwed' = <<>>
    /\ orderly' = FALSE
    /\ UNCHANGED <<srv, auth, asked, cliOwed>>
    /\ ServerSegment(svrOwed)

\* TCP_CONN_CLOSE: FIN or RST.
Teardown == Fail("peer") /\ UNCHANGED dialogue

Init ==
    /\ open = TRUE /\ why = "none"
    /\ parse = "UNCERTAIN" /\ last = "UNCERTAIN" /\ mail = "ORIGN"
    /\ permit = {} /\ cliBuf = <<>> /\ svrBuf = <<>> /\ svrOff = 0
    /\ srv = "start" /\ auth = "none" /\ asked = <<"connect">>
    /\ cliOwed = <<>> /\ svrOwed = <<>> /\ orderly = TRUE

Next ==
    open /\ (ClientData \/ ServerReplies \/ ServerCoalesces \/ ServerResumes \/ Teardown)

Spec == Init /\ [][Next]_vars

-----------------------------------------------------------------------------
TrackerTypeOK ==
    /\ open \in BOOLEAN /\ why \in Reasons
    /\ parse \in ParseStates /\ last \in Events /\ mail \in MailStates
    /\ permit \in SUBSET {"alert", "deny"}
    /\ cliBuf \in Seq(ClientTokens) /\ Len(cliBuf) <= CliCap
    /\ svrBuf \in Seq(ServerTokens) /\ svrOff \in Nat
    /\ svrOff + Len(svrBuf) <= SvrCap
DialogueTypeOK ==
    /\ srv \in {"start", "ready", "mail", "rcpt", "data", "bye"}
    /\ auth \in {"none", "user", "pass"}
    /\ asked \in Seq(ClientLines \cup {"connect"})
    /\ cliOwed \in Seq(ClientTokens) /\ Len(cliOwed) <= 1
    /\ svrOwed \in Seq(ServerTokens) /\ Len(svrOwed) <= 1
    /\ orderly \in BOOLEAN

\* Every variable stays in its type, and neither buffer outgrows its capacity
\* (the test of left_len in process_smtp, with what svr_data has moved over).
TypeOK == TrackerTypeOK /\ DialogueTypeOK

MailOf == [start |-> "ORIGN", ready |-> "HELO", mail |-> "MAIL", rcpt |-> "RCPT",
           data |-> "DATA"]

\* As long as the dialogue is one the tracker follows, its mail_state is the
\* server's transaction state, it parses message content exactly while the
\* server reads a message, and it takes a line for AUTH LOGIN data exactly
\* when the server waits for one.  This is what the rules on mail_state and
\* the whole choice between parse_smtp_command and parse_smtp_message rest on.
Agreement ==
    orderly /\ open /\ srv # "bye" =>
       /\ mail = MailOf[srv]
       /\ asked = <<>> => /\ (parse = "MESSAGE") <=> (srv = "data")
                          /\ (last = "AUTH") <=> (auth = "user")
                          /\ (last = "USER") <=> (auth = "pass")

\* last_cli_event_type when the answer to a line is due.
EventOf(c) ==
    CASE c = "connect" -> "UNCERTAIN"
      [] c = "user" -> "USER"
      [] c = "pass" -> "PASSWD"
      [] c = "eom" -> "EOM"
      [] c = "SAML" -> "SOML"
      [] OTHER -> c

\* In such a dialogue parse_smtp_ack hands each reply to the parser of the
\* command the server is answering.
Attribution == orderly /\ open /\ asked # <<>> => last = EventOf(Head(asked))

\* The closes an orderly dialogue cannot exclude, each with when it may come:
\* the peers end the connection; the rules have denied an event or failed on
\* it, or VRFY or EXPN comes switched off; the reply to VRFY or EXPN holds a
\* mailbox the grammar refuses; the client sends a command whose result
\* parse_smtp_command never sets, and the session lives or is closed as the
\* build has it; the server reads a message and its content is refused.
Ends(reason) ==
    \/ reason = "peer"
    \/ reason = "policy" /\ \/ "error" \in Verdicts \/ Blocked(permit')
                            \/ asked = <<>> /\ asked' # <<>> /\ Head(asked') \in Disabled
    \/ reason = "mailbox" /\ asked # <<>> /\ Head(asked) \in {"VRFY", "EXPN"}
    \/ reason = "undefined" /\ asked = <<>> /\ asked' # <<>> /\ Head(asked') \in Skipped
    \/ reason = "corrupt" /\ asked = <<>> /\ srv = "data"

\* A step of such a dialogue closes the session for one of those causes only.
\* So no syntax error ever ends it, whatever legal commands and replies came
\* before; a reply that is not the answer to VRFY or EXPN ends it by a verdict
\* of the rules alone; and nothing that is not message content is refused as
\* such.
NoSpuriousClose == [][orderly' /\ open /\ ~open' => Ends(why')]_vars

\* What keeps the two halves together, from one step to the next: between two
\* exchanges the tracker waits for what the server waits for, and within one it
\* remembers the line the server has not answered.  The properties above and
\* DisabledRefused follow from it, and it is inductive where they are not.
Between ==
    /\ (parse = "MESSAGE") <=> (srv = "data")
    /\ (last = "AUTH") <=> (auth = "user")
    /\ (last = "USER") <=> (auth = "pass")
Within ==
    LET c == Head(asked) IN
    /\ Len(asked) = 1 /\ srv # "bye"
    /\ c \in ((Verbs \ {"NOOP"}) \cup {"connect", "user", "pass", "eom"}) \ Disabled
    /\ last = EventOf(c)
    /\ c = "connect" => srv = "start"
    /\ (c = "eom") <=> (srv = "data")
    /\ (c = "user") <=> (auth = "user")
    /\ (c = "pass") <=> (auth = "pass")
    /\ IF c = "eom" THEN cliBuf = <<>> ELSE parse # "MESSAGE"
InStep ==
    orderly =>
       /\ why # "parse"
       /\ open => /\ cliOwed = <<>> /\ svrOwed = <<>> /\ svrBuf = <<>>
                  /\ parse # "MESSAGE" => cliBuf = <<>>
                  /\ auth # "none" => srv = "ready"
                  /\ srv # "bye" => mail = MailOf[srv]
                  /\ asked = <<>> /\ srv # "bye" => Between
                  /\ asked # <<>> => Within

\* A session the rules have denied stays open only past the analyses that are
\* not followed by a test of permit: inside a message, or after its end while
\* the client sends commands that are skipped without analysis, or an AUTH cut
\* by a segment boundary, which is recorded before it is parsed.
MessageEvents == {"DATA", "EOT", "EOB", "EOM"}
DeniedOnlyInGaps ==
    open /\ permit # {} => parse = "MESSAGE" \/ last \in {"EOM", "AUTH"} \cup Skipped

\* A denied session never moves its transaction on: whatever reply the server
\* sends next, the reply's parser closes the session before it counts.
DeniedNeverAdvances ==
    [][open /\ permit # {} /\ open' => mail' = mail /\ svrBuf' = svrBuf]_vars

\* With VRFY and EXPN switched off, neither reaches the server in a session
\* that goes on.
DisabledRefused ==
    orderly /\ open /\ asked # <<>> => Head(asked) \notin Disabled

(***************************************************************************)
(* What the sources say and the code does not do.                          *)
(***************************************************************************)
\* include/smtp.h, smtp_permit_type: alert, deny and drop are bits of their
\* own, so a verdict of alert alone closes no session.
AlertOnlyWarns == why = "policy" => "deny" \in permit

\* src/helo.re on var_disable_helo_cmd: "don't allow the command pass through".
HeloNotPassed == open /\ asked # <<>> => ~(Head(asked) = "HELO" /\ "HELO" \in Disabled)

\* rules/smtp/CMDS/DATA/data_bef_rcpt.nel takes mail_state < RCPT at a DATA
\* command for "haven't seen RCPT TO": once RCPT TO has been seen, it is RCPT.
RcptSeenBeforeData ==
    open /\ last = "DATA" /\ (\E i \in 1..Len(asked) : asked[i] = "RCPT")
       => mail \in {"RCPT", "DATA"}

=============================================================================

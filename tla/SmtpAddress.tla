----------------------------- MODULE SmtpAddress -----------------------------
(***************************************************************************)
(* The parsers of addresses: src/address.c, the paths of MAIL FROM and     *)
(* RCPT TO in src/path.c, the message identifiers of src/msg-id.c, and the *)
(* header fields that hold nothing else.                                   *)
(*                                                                         *)
(* A mailbox is the sequence of its one address, a group the sequence of   *)
(* the addresses of its mailboxes; display names are left out.             *)
(***************************************************************************)
EXTENDS SmtpText

\* A field ends with its line.
Line(m, r) == AndThen(r, With(UnstrictCrLf(m, r.i), r.val))

-----------------------------------------------------------------------------
(***************************************************************************)
(* Addresses.                                                              *)
(***************************************************************************)
AddrEnds == {">", ",", "\r", "\n", "(", ")", ":", ";"}
Undisclosed == "<Undisclosed-Recipient:;>"

\* Strings have lengths, which the provers do not know.
ASSUME UndisclosedAssumption == Len(Undisclosed) \in Nat

\* An address without the white space inside it.
Packed(m, i, j) == Joined(SelectSeq(SubSeq(m, i + 1, j), LAMBDA c : c \notin Wsp))

\* smtp_wsp_addr_spec_parse, and the second half of smtp_addr_spec_parse.  At the
\* end of the text the code takes the NUL behind it for an address and leaves an
\* index past the end, where what comes next, a ">", asks for more; only a "<"
\* leads there, since everything else in front of an address asks for more itself.
WspAddrSpec(m, i) ==
    LET e == Span(m, i, AddrEnds)
        spec == IF e = i THEN Fail ELSE Got(e, <<Packed(m, i, e)>>)
    IN IF i >= Len(m) THEN More ELSE spec

AddrSpec(m, i) ==
    Then(Opt(Cfws(m, i), i), LAMBDA j :
      IF j + Len(Undisclosed) <= Len(m) /\ Part(m, j, j + Len(Undisclosed)) = Undisclosed
      THEN Got(j + Len(Undisclosed), <<"">>)
      ELSE WspAddrSpec(m, j))

\* The answers to "<", to the address behind it and to ">", one after the other.
Angle(lower, addr, greater) ==
    AndThen(lower, AndThen(addr, With(greater, addr.val)))
AngleAddr(m, i) ==
    Then(Opt(Cfws(m, i), i), LAMBDA j :
      LET lower == UnstrictChar(m, j, "<")
          addr == AddrSpec(m, lower.i)
      IN Angle(lower, addr, UnstrictChar(m, addr.i, ">")))
NameAddr(m, i) == Then(Opt(Phrase(m, i), i), LAMBDA j : AngleAddr(m, j))
Mailbox(m, i) == Else(NameAddr(m, i), AddrSpec(m, i))
MailboxList(m, i) == StructList(m, i, ",", [j \in Indices(m) |-> Mailbox(m, j)])

\* smtp_group_parse: what follows the colon may be nothing but comments; a
\* group refused after that frees the list it has not got.
Group(m, i) ==
    LET colon == Then(Phrase(m, i), LAMBDA j : UnstrictChar(m, j, ":"))
        list == MailboxList(m, colon.i)
        none == Opt(Cfws(m, colon.i), colon.i)
        inner == Else(list, none)
        end == UnstrictChar(m, inner.i, ";")
        refused == IF list.v = "ok" THEN end ELSE Null
    IN AndThen(colon, AndThen(inner,
         IF end.v = "ok" THEN Got(end.i, FlattenSeq(inner.val)) ELSE refused))
Address(m, i) == Else(Group(m, i), Mailbox(m, i))
AddressList(m, i) == StructList(m, i, ",", [j \in Indices(m) |-> Address(m, j)])

DomainLiteral(m, i) ==
    LET open(j) == UnstrictChar(m, j, "[")
        Inside(j) == Then(Opt(Cfws(m, j), j), LAMBDA k : Dcontent(m, k))
    IN Then(Then(Then(Then(Opt(Cfws(m, i), i), open), LAMBDA j : Many([k \in Indices(m) |-> Inside(k)], j)),
                 LAMBDA j : Opt(Fws(m, j), j)),
            LAMBDA j : UnstrictChar(m, j, "]"))

-----------------------------------------------------------------------------
(***************************************************************************)
(* The paths of the envelope.                                              *)
(***************************************************************************)
WspAngleAddr(m, i) ==
    LET lower == WspUnstrictChar(m, i, "<")
        addr == WspAddrSpec(m, lower.i)
    IN Angle(lower, addr, WspUnstrictChar(m, addr.i, ">"))
WspNameAddr(m, i) == Then(Opt(WspPhrase(m, i), i), LAMBDA j : WspAngleAddr(m, j))
WspMailbox(m, i) == Else(WspNameAddr(m, i), WspAddrSpec(m, i))
WspMailboxList(m, i) == StructList(m, i, ",", [j \in Indices(m) |-> WspMailbox(m, j)])

\* smtp_adl_path_parse: a source route is skipped up to its colon, wherever
\* that is; only the list of mailboxes may ask for more.
AdlPath(m, i) ==
    LET lower == WspUnstrictChar(m, i, "<")
        route == WspUnstrictChar(m, lower.i, "@")
        colons == {j \in route.i..(Len(m) - 1) : Ch(m, j) = ":"}
        start == IF route.v # "ok" THEN lower.i
                 ELSE 1 + CHOOSE j \in colons : \A k \in colons : j <= k
        list == WspMailboxList(m, start)
        greater == WspUnstrictChar(m, list.i, ">")
    IN IF lower.v # "ok" \/ (route.v = "ok" /\ colons = {}) THEN Fail
       ELSE IF list.v # "ok" THEN list
       ELSE IF greater.v # "ok" \/ Len(list.val) # 1 THEN Fail
       ELSE Got(greater.i, list.val[1])

\* The argument of MAIL FROM: at most one space and the path; its parameters are left out.
Path(m, i) == Then(Opt(WspChar(m, i), i), LAMBDA j : AdlPath(m, j))

\* smtp_cmd_mail_parse up to its event: what follows the path must be there.
MailFrom(m) ==
    LET path == Path(m, 0)
        e == Span(m, path.i, {Ch(m, j) : j \in 0..(Len(m) - 1)} \ {" "})
    IN IF path.v # "ok" THEN path
       ELSE IF e + 2 <= Len(m) /\ Part(m, e, e + 2) = "\r\n" THEN Got(e + 2, path.val) ELSE Fail

\* smtp_path_parse, of Return-Path.
ReturnPath(m, i) ==
    LET lower == Then(Opt(Cfws(m, i), i), LAMBDA j : UnstrictChar(m, j, "<"))
        addr == AddrSpec(m, lower.i)
        inner == Else(addr, Opt(Cfws(m, lower.i), lower.i))
    IN AndThen(lower, AndThen(inner, With(UnstrictChar(m, inner.i, ">"), addr.val)))

-----------------------------------------------------------------------------
(***************************************************************************)
(* Message identifiers.                                                    *)
(***************************************************************************)
MsgId(m, i) ==
    Then(Opt(Cfws(m, i), i), LAMBDA j :
      LET lower == UnstrictChar(m, j, "<")
          addr == AddrSpec(m, lower.i)
      IN Angle(lower, addr, UnstrictChar(m, addr.i, ">")))

\* A word and marks, any of which may be missing.
Mark(m, r, c) == Then(r, LAMBDA k : Opt(UnstrictChar(m, k, c), k))
WordOrMarks(m, j) ==
    LET word == Opt(Word(m, j), j)
        some == Mark(m, Mark(m, Mark(m, word, ";"), ","), "+")
        all == Mark(m, Mark(m, Mark(m, some, ":"), "."), "@")
    IN IF all.v = "ok" /\ all.i = j THEN Fail ELSE all

\* smtp_parse_unwanted_msg_id looks at what surrounds an identifier and keeps
\* no index: it either stops the parser or changes nothing.
Unwanted(m, i) == AndThen(Many([j \in Indices(m) |-> WordOrMarks(m, j)], i), Ok(i))
UnstrictMsgId(m, i) ==
    LET before == Then(Opt(Cfws(m, i), i), LAMBDA j : Unwanted(m, j))
        id == MsgId(m, before.i)
    IN AndThen(before, AndThen(id, With(Unwanted(m, id.i), id.val)))
MsgIdList(m, i) == StructMultiple([j \in Indices(m) |-> UnstrictMsgId(m, j)], i)

-----------------------------------------------------------------------------
(***************************************************************************)
(* The fields.  From and To are parsed by the filter; the others are built *)
(* into it and not called.                                                 *)
(***************************************************************************)
From(m) == Line(m, MailboxList(m, 0))
To(m) == Line(m, AddressList(m, 0))
Sender(m) == Line(m, Mailbox(m, 0))
ReplyTo(m) == Line(m, AddressList(m, 0))
Cc(m) == Line(m, AddressList(m, 0))
ResentFrom(m) == Line(m, MailboxList(m, 0))
ResentTo(m) == Line(m, AddressList(m, 0))
ResentMsgId(m) == Line(m, MsgId(m, 0))
\* smtp_resent_sender_parse starts at the end of the text.
ResentSender(m) == Line(m, Mailbox(m, Len(m)))
ResentCc(m) == Line(m, AddressList(m, 0))
Bcc(m) ==
    LET list == AddressList(m, 0)
        r == Line(m, Else(list, Opt(Cfws(m, 0), 0)))
    IN IF list.v = "parse" /\ r.v \in {"parse", "cont"} THEN Null ELSE r
MessageId(m) == Line(m, MsgId(m, 0))
References(m) == Line(m, MsgIdList(m, 0))
InReplyTo(m) == Line(m, MsgIdList(m, 0))
Keywords(m) == Line(m, StructList(m, 0, ",", [j \in Indices(m) |-> Phrase(m, j)]))
Return(m) == Line(m, ReturnPath(m, 0))
Subject(m) == Line(m, Unstructured(m, 0))
Comments(m) == Line(m, Unstructured(m, 0))
Received(m) == Line(m, Unstructured(m, 0))
=============================================================================

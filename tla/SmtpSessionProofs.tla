------------------------- MODULE SmtpSessionProofs -------------------------
(***************************************************************************)
(* Theorems about SmtpSession, for every set of commands, reply codes and  *)
(* verdicts, with and without segmentation, for every buffer capacity.     *)
(***************************************************************************)
EXTENDS SmtpSession, SequenceTheorems, TLAPS

-----------------------------------------------------------------------------
(* Sequences *)

LEMMA SuffixOfSeq ==
  ASSUME NEW S, NEW s \in Seq(S), NEW n \in 0..Len(s)
  PROVE  /\ SubSeq(s, n + 1, Len(s)) \in Seq(S)
         /\ Len(SubSeq(s, n + 1, Len(s))) = Len(s) - n
<1>1. \A i \in (n + 1)..Len(s) : s[i] \in S
  BY ElementOfSeq
<1>2. Len(s) \in Nat
  BY LenProperties
<1> QED BY <1>1, <1>2, SubSeqProperties

LEMMA NonEmpty ==
  ASSUME NEW S, NEW s \in Seq(S), s # <<>>
  PROVE  Len(s) \in Nat \ {0}
BY EmptySeq, LenProperties

LEMMA AtMostOne ==
  ASSUME NEW n \in Nat \ {0}, n <= 1
  PROVE  n = 1
OBVIOUS

LEMMA Literals ==
  ASSUME NEW S, NEW a \in S, NEW b \in S
  PROVE  /\ <<>> \in Seq(S) /\ <<a>> \in Seq(S) /\ <<a, b>> \in Seq(S)
         /\ Len(<<>>) = 0 /\ Len(<<a>>) = 1 /\ Len(<<a, b>>) = 2
         /\ <<a>> # <<>> /\ <<a, b>> # <<>>
OBVIOUS

\* A buffer with a segment appended holds no more lines than the two together.
LEMMA JoinedType ==
  ASSUME NEW S, \A t \in S : [t EXCEPT !.form = "whole"] \in S,
         NEW buf \in Seq(S), NEW seg \in Seq(S), seg # <<>>
  PROVE  /\ Joined(buf, seg) \in Seq(S)
         /\ Joined(buf, seg) # <<>>
         /\ Len(Joined(buf, seg)) <= Len(buf) + Len(seg)
<1>1. CASE ~(buf # <<>> /\ buf[Len(buf)].form = "head" /\ Head(seg).form = "tail")
  <2>1. Joined(buf, seg) = buf \o seg
    BY <1>1 DEF Joined
  <2> QED BY <2>1, ConcatProperties, ConcatEqualIffEmpty, LenProperties, EmptySeq
<1>2. CASE buf # <<>> /\ buf[Len(buf)].form = "head" /\ Head(seg).form = "tail"
  <2> DEFINE mended == [buf[Len(buf)] EXCEPT !.form = "whole"]
             healed == [buf EXCEPT ![Len(buf)] = mended]
  <2>1. Len(buf) \in Nat \ {0}
    BY <1>2, EmptySeq
  <2>2. mended \in S
    BY <2>1, ElementOfSeq
  <2>3. healed \in Seq(S) /\ Len(healed) = Len(buf)
    BY <2>1, <2>2, ExceptSeq
  <2>4. Tail(seg) \in Seq(S) /\ Len(Tail(seg)) = Len(seg) - 1
    BY HeadTailProperties
  <2>5. Joined(buf, seg) = healed \o Tail(seg)
    BY <1>2 DEF Joined
  <2> HIDE DEF mended, healed
  <2>6. /\ healed \o Tail(seg) \in Seq(S)
        /\ Len(healed \o Tail(seg)) = Len(healed) + Len(Tail(seg))
    BY <2>3, <2>4, ConcatProperties
  <2>7. Len(seg) \in Nat \ {0}
    BY EmptySeq
  <2>8. Joined(buf, seg) # <<>>
    <3>1. Len(Joined(buf, seg)) # 0
      BY <2>1, <2>3, <2>4, <2>5, <2>6, <2>7
    <3> QED BY <3>1
  <2> QED BY <2>1, <2>3, <2>4, <2>5, <2>6, <2>7, <2>8
<1> QED BY <1>1, <1>2

-----------------------------------------------------------------------------
(* Types *)

LEMMA BitsType == \A v \in Verdicts : Bits[v] \in SUBSET {"alert", "deny"}
BY VerdictsAssumption DEF Bits

LEMMA CloseType ==
  ASSUME NEW r \in Reasons, Close(r), permit' \in SUBSET {"alert", "deny"}
  PROVE  TrackerTypeOK'
<1>1. /\ open' = FALSE /\ why' = r
      /\ parse' = "UNCERTAIN" /\ last' = "UNCERTAIN" /\ mail' = "ORIGN"
      /\ cliBuf' = <<>> /\ svrBuf' = <<>> /\ svrOff' = 0
  BY DEF Close
<1>2. /\ parse' \in ParseStates /\ last' \in Events /\ mail' \in MailStates
  BY <1>1 DEF ParseStates, Events, MailStates
<1>3. /\ cliBuf' \in Seq(ClientTokens) /\ svrBuf' \in Seq(ServerTokens)
      /\ Len(cliBuf') = 0 /\ Len(svrBuf') = 0
  BY <1>1, EmptySeq
<1>4. Len(cliBuf') <= CliCap /\ svrOff' \in Nat /\ svrOff' + Len(svrBuf') <= SvrCap
  BY <1>1, <1>3, BoundsAssumption
<1> QED BY <1>1, <1>2, <1>3, <1>4 DEF TrackerTypeOK

LEMMA FailType ==
  ASSUME TrackerTypeOK, NEW r \in Reasons, Fail(r)
  PROVE  TrackerTypeOK'
<1>1. Close(r) /\ permit' = permit
  BY DEF Fail
<1>2. permit' \in SUBSET {"alert", "deny"}
  BY <1>1 DEF TrackerTypeOK
<1> QED BY <1>1, <1>2, CloseType

LEMMA FailReasons == {"policy", "parse", "mailbox", "corrupt", "undefined", "peer"} \subseteq Reasons
BY DEF Reasons

LEMMA AnsweredType ==
  ASSUME TrackerTypeOK, NEW m \in MailStates, NEW p \in ParseStates, NEW l \in Events,
         NEW buf \in Seq(ServerTokens), Len(buf) <= SvrCap, buf # <<>>,
         NEW n \in 1..Len(buf), Analyse(Answered(m, p, l, buf, n))
  PROVE  TrackerTypeOK'
<1>1. PICK v \in Verdicts :
         /\ permit' = permit \cup Bits[v]
         /\ IF v = "error" \/ Blocked(permit \cup Bits[v]) THEN Close("policy")
            ELSE Answered(m, p, l, buf, n) /\ UNCHANGED <<open, why>>
  BY DEF Analyse
<1>2. permit' \in SUBSET {"alert", "deny"}
  BY <1>1, BitsType DEF TrackerTypeOK
<1>3. CASE Close("policy")
  BY <1>2, <1>3, CloseType DEF Reasons
<1>4. CASE Answered(m, p, l, buf, n) /\ UNCHANGED <<open, why>>
  <2>1. /\ SubSeq(buf, n + 1, Len(buf)) \in Seq(ServerTokens)
        /\ Len(SubSeq(buf, n + 1, Len(buf))) = Len(buf) - n
    BY SuffixOfSeq
  <2>2. Len(buf) \in Nat
    BY LenProperties
  <2>3. 0 + Len(SubSeq(buf, n + 1, Len(buf))) <= SvrCap
    BY <2>1, <2>2, BoundsAssumption
  <2> QED BY <1>2, <1>4, <2>1, <2>3 DEF Answered, TrackerTypeOK
<1> QED BY <1>1, <1>3, <1>4

LEMMA ReplyType ==
  ASSUME TrackerTypeOK, NEW m \in MailStates, NEW p \in ParseStates, NEW l \in Events,
         NEW buf \in Seq(ServerTokens), Len(buf) <= SvrCap, buf # <<>>, Reply(m, p, l, buf)
  PROVE  TrackerTypeOK'
<1>1. 1 \in 1..Len(buf)
  BY EmptySeq
<1>2. Analyse(Answered(m, p, l, buf, 1)) \/ Fail("parse")
  BY DEF Reply
<1> QED BY <1>1, <1>2, AnsweredType, FailType, FailReasons

\* The command parsers.
LEMMA RecordedType ==
  ASSUME TrackerTypeOK, NEW e \in Events, NEW buf \in Seq(ClientTokens),
         Len(buf) <= CliCap, buf # <<>>, Analyse(Recorded(e, buf))
  PROVE  TrackerTypeOK'
<1>1. PICK v \in Verdicts :
         /\ permit' = permit \cup Bits[v]
         /\ IF v = "error" \/ Blocked(permit \cup Bits[v]) THEN Close("policy")
            ELSE Recorded(e, buf) /\ UNCHANGED <<open, why>>
  BY DEF Analyse
<1>2. permit' \in SUBSET {"alert", "deny"}
  BY <1>1, BitsType DEF TrackerTypeOK
<1>3. CASE Close("policy")
  BY <1>2, <1>3, CloseType, FailReasons
<1>4. CASE Recorded(e, buf) /\ UNCHANGED <<open, why>>
  <2>1. Tail(buf) \in Seq(ClientTokens) /\ Len(Tail(buf)) = Len(buf) - 1 /\ Len(buf) \in Nat
    BY HeadTailProperties, LenProperties
  <2>2. Len(Tail(buf)) <= CliCap
    BY <2>1, BoundsAssumption
  <2> QED BY <1>2, <1>4, <2>1, <2>2 DEF Recorded, TrackerTypeOK
<1> QED BY <1>1, <1>3, <1>4

LEMMA EmptiedType ==
  ASSUME TrackerTypeOK, open' = open, why' = why, parse' \in ParseStates, last' \in Events,
         mail' = mail, permit' \in SUBSET {"alert", "deny"}, cliBuf' = <<>>,
         svrBuf' = svrBuf, svrOff' = svrOff
  PROVE  TrackerTypeOK'
<1>1. cliBuf' \in Seq(ClientTokens) /\ Len(cliBuf') = 0
  BY EmptySeq
<1> QED BY <1>1, BoundsAssumption DEF TrackerTypeOK

LEMMA ForgottenType ==
  ASSUME TrackerTypeOK, NEW e \in Events, Forgotten(e)
  PROVE  TrackerTypeOK'
BY EmptiedType DEF Forgotten, TrackerTypeOK

LEMMA ParseCommandType ==
  ASSUME TrackerTypeOK, NEW e \in Events, NEW l \in Events, NEW buf \in Seq(ClientTokens),
         Len(buf) <= CliCap, buf # <<>>, ParseCommand(e, l, buf)
  PROVE  TrackerTypeOK'
<1>1. Analyse(Recorded(e, buf)) \/ Fail("parse") \/ Forgotten(l)
  BY DEF ParseCommand
<1> QED BY <1>1, RecordedType, FailType, ForgottenType, FailReasons

LEMMA VerbEvents ==
  /\ last \in Events => last \in Events \cup {last}
  /\ {"RSET", "HELO", "EHLO", "AUTH", "MAIL", "RCPT", "DATA", "QUIT", "SEND", "SOML",
      "VRFY", "EXPN", "USER", "PASSWD", "EOT", "EOB", "EOM", "UNCERTAIN"} \subseteq Events
  /\ Skipped \subseteq Events
BY DEF Events, Verbs, Skipped

LEMMA ParseSmtpCommandType ==
  ASSUME TrackerTypeOK, NEW buf \in Seq(ClientTokens),
         Len(buf) <= CliCap, buf # <<>>, ParseSmtpCommand(buf)
  PROVE  TrackerTypeOK'
<1>0. last \in Events
  BY DEF TrackerTypeOK
<1>1. CASE UserCmd(buf) \/ PasswdCmd(buf)
  <2>1. \/ Analyse(Recorded("USER", buf)) \/ Analyse(Recorded("PASSWD", buf))
        \/ Fail("parse")
    BY <1>1 DEF UserCmd, PasswdCmd, AuthLine
  <2> QED BY <2>1, RecordedType, FailType, FailReasons, VerbEvents
<1>2. CASE \/ HeloCmd(buf) \/ EhloCmd(buf) \/ AuthCmd(buf) \/ MailCmd(buf)
           \/ RcptCmd(buf) \/ DataCmd(buf) \/ RsetCmd(buf) \/ QuitCmd(buf)
           \/ SendCmd(buf) \/ SomlCmd(buf) \/ VrfyCmd(buf) \/ ExpnCmd(buf)
  <2>1. \/ Forgotten(last) \/ Fail("policy")
        \/ \E e \in {"RSET", "HELO", "EHLO", "AUTH", "MAIL", "RCPT", "DATA", "QUIT", "SEND",
                     "SOML", "VRFY", "EXPN"} :
              ParseCommand(e, last, buf) \/ ParseCommand(e, "AUTH", buf)
    BY <1>2 DEF HeloCmd, EhloCmd, AuthCmd, MailCmd, RcptCmd, DataCmd, RsetCmd, QuitCmd,
                SendCmd, SomlCmd, VrfyCmd, ExpnCmd
  <2>2. ASSUME NEW e \in {"RSET", "HELO", "EHLO", "AUTH", "MAIL", "RCPT", "DATA", "QUIT",
                          "SEND", "SOML", "VRFY", "EXPN"},
               ParseCommand(e, last, buf) \/ ParseCommand(e, "AUTH", buf)
        PROVE  TrackerTypeOK'
    <3>1. e \in Events /\ "AUTH" \in Events
      BY VerbEvents
    <3> QED BY <1>0, <2>2, <3>1, ParseCommandType
  <2> QED BY <1>0, <2>1, <2>2, ForgottenType, FailType, FailReasons
<1>3. CASE SkippedCmd(buf)
  <2>1. CASE Fail("undefined")
    BY <2>1, FailType, FailReasons
  <2>2. CASE /\ last' = IF Head(buf).line = "NOOP" THEN last ELSE Head(buf).line
             /\ cliBuf' = <<>>
             /\ UNCHANGED <<open, why, parse, mail, permit, svrBuf, svrOff>>
    <3>1. last' \in Events
      BY <1>0, <1>3, <2>2, VerbEvents DEF SkippedCmd
    <3> QED BY <2>2, <3>1, EmptiedType DEF TrackerTypeOK
  <2> QED BY <1>3, <2>1, <2>2 DEF SkippedCmd
<1>4. CASE Fail("parse")
  BY <1>4, FailType, FailReasons
<1> QED BY <1>1, <1>2, <1>3, <1>4 DEF ParseSmtpCommand

\* The message parser.
LEMMA ParseSmtpMessageType ==
  ASSUME TrackerTypeOK, parse = "MESSAGE", NEW buf \in Seq(ClientTokens),
         Len(buf) <= CliCap, buf # <<>>, ParseSmtpMessage(buf)
  PROVE  TrackerTypeOK'
<1>0. Len(buf) \in Nat
  BY LenProperties
<1>1. CASE Fail("corrupt")
  BY <1>1, FailType, FailReasons
<1>2. ASSUME NEW n \in 0..Len(buf), NEW v \in Verdicts, permit' = permit \cup Bits[v],
             last' \in {last, "EOT", "EOB"}, cliBuf' = SubSeq(buf, n + 1, Len(buf)),
             UNCHANGED <<open, why, parse, mail, svrBuf, svrOff>>
      PROVE  TrackerTypeOK'
  <2>1. permit' \in SUBSET {"alert", "deny"}
    BY <1>2, BitsType DEF TrackerTypeOK
  <2>2. last' \in Events
    BY <1>2, VerbEvents DEF TrackerTypeOK
  <2>3. cliBuf' \in Seq(ClientTokens) /\ Len(cliBuf') = Len(buf) - n
    BY <1>2, SuffixOfSeq
  <2>4. Len(cliBuf') <= CliCap
    BY <1>0, <2>3, BoundsAssumption
  <2> QED BY <1>2, <2>1, <2>2, <2>3, <2>4 DEF TrackerTypeOK
<1>3. ASSUME NEW e \in Verdicts, NEW t \in Verdicts,
             permit' = permit \cup Bits[t] \cup Bits[e] \/ permit' = permit \cup Bits[e],
             Close("policy") \/ (\E next \in ParseStates : MessageEnded(next))
      PROVE  TrackerTypeOK'
  <2>1. permit' \in SUBSET {"alert", "deny"}
    BY <1>3, BitsType DEF TrackerTypeOK
  <2>2. CASE Close("policy")
    BY <2>1, <2>2, CloseType, FailReasons
  <2>3. ASSUME NEW next \in ParseStates, MessageEnded(next)
        PROVE  TrackerTypeOK'
    BY <2>1, <2>3, EmptiedType, VerbEvents DEF MessageEnded
  <2> QED BY <1>3, <2>2, <2>3
<1>4. parse \in ParseStates /\ "COMMAND" \in ParseStates
  BY DEF ParseStates, TrackerTypeOK
<1>5. CASE MessageGoesOn(buf)
  <2>1. CASE \E v \in Verdicts : permit' = permit \cup Bits[v] /\ Close("policy")
    BY <1>3, <2>1
  <2> QED BY <1>1, <1>2, <1>5, <2>1 DEF MessageGoesOn
<1>6. CASE MessageEnds(buf)
  <2>1. ASSUME NEW t \in Verdicts, NEW e \in Verdicts,
               permit' = permit \cup Bits[t] \cup Bits[e],
               Close("policy") \/ MessageEnded(parse)
        PROVE  TrackerTypeOK'
    BY <1>3, <1>4, <2>1
  <2>2. ASSUME NEW e \in Verdicts, permit' = permit \cup Bits[e],
               Close("policy") \/ MessageEnded("COMMAND")
        PROVE  TrackerTypeOK'
    BY <1>3, <1>4, <2>2
  <2> QED BY <1>1, <1>6, <2>1, <2>2 DEF MessageEnds
<1> QED BY <1>5, <1>6 DEF ParseSmtpMessage

\* The reply parsers.
LEMMA ParseSmtpAckType ==
  ASSUME TrackerTypeOK, NEW buf \in Seq(ServerTokens), svrOff + Len(buf) <= SvrCap,
         buf # <<>>, ParseSmtpAck(buf)
  PROVE  TrackerTypeOK'
<1>0. Len(buf) \in Nat /\ Len(buf) <= SvrCap /\ svrOff \in Nat
  BY LenProperties, BoundsAssumption DEF TrackerTypeOK
<1>1. /\ mail \in MailStates /\ parse \in ParseStates /\ last \in Events
      /\ permit \in SUBSET {"alert", "deny"}
  BY DEF TrackerTypeOK
<1>2. /\ {"ORIGN", "HELO", "MAIL", "RCPT", "DATA"} \subseteq MailStates
      /\ {"COMMAND", "MESSAGE"} \subseteq ParseStates
  BY DEF MailStates, ParseStates
<1>3. ASSUME NEW m \in MailStates, NEW p \in ParseStates, NEW l \in Events,
             Reply(m, p, l, buf)
      PROVE  TrackerTypeOK'
  BY <1>0, <1>3, ReplyType
<1>4. CASE Unchanged(buf)
  BY <1>1, <1>3, <1>4 DEF Unchanged
<1>5. CASE Fail("parse") \/ Fail("mailbox")
  BY <1>5, FailType, FailReasons
<1>6. CASE ReplyLost
  BY <1>0, <1>6, EmptySeq, BoundsAssumption DEF ReplyLost, TrackerTypeOK
<1>7. ASSUME NEW m \in MailStates, NEW n \in FinalLine(buf),
             Analyse(Answered(m, parse, last, buf, n))
      PROVE  TrackerTypeOK'
  <2>1. n \in 1..Len(buf)
    BY DEF FinalLine
  <2> QED BY <1>0, <1>1, <1>7, <2>1, AnsweredType
<1>8. CASE HeloAck(buf) \/ MailAck(buf) \/ RcptAck(buf) \/ DataAck(buf) \/ RsetAck(buf)
           \/ QuitAck(buf) \/ MsgAck(buf) \/ SendAck(buf) \/ SomlAck(buf) \/ SamlAck(buf)
  <2>1. \/ Unchanged(buf)
        \/ \E m \in MailStates, p \in ParseStates : Reply(m, p, last, buf)
    BY <1>1, <1>2, <1>8 DEF HeloAck, MailAck, RcptAck, DataAck, RsetAck, QuitAck, MsgAck,
                            SendAck, SomlAck, SamlAck
  <2> QED BY <1>1, <1>3, <1>4, <2>1
<1>9. CASE AuthAck(buf) \/ UserAck(buf) \/ PasswdAck(buf)
  <2>1. \/ Unchanged(buf) \/ Fail("parse")
        \/ \E l \in {"UNCERTAIN", last} : Reply(mail, parse, l, buf)
    BY <1>9 DEF AuthAck, UserAck, PasswdAck
  <2>2. {"UNCERTAIN", last} \subseteq Events
    BY <1>1, VerbEvents
  <2> QED BY <1>1, <1>3, <1>4, <1>5, <2>1, <2>2
<1>10. CASE EhloAck(buf) \/ ExpnAck(buf) \/ VrfyAck(buf)
  <2>1. \/ Unchanged(buf) \/ Fail("parse") \/ Fail("mailbox") \/ ReplyLost
        \/ \E n \in FinalLine(buf) : Analyse(Answered("HELO", parse, last, buf, n))
        \/ \E n \in FinalLine(buf) : Analyse(Answered(mail, parse, last, buf, n))
    BY <1>10 DEF EhloAck, ExpnAck, VrfyAck
  <2> QED BY <1>1, <1>2, <1>4, <1>5, <1>6, <1>7, <2>1
<1>11. CASE OtherAck(buf)
  <2>1. CASE Fail("parse")
    BY <1>5, <2>1
  <2>2. ASSUME NEW v \in Verdicts, permit' = permit \cup Bits[v],
               Close("policy") \/ /\ svrBuf' = <<>>
                                  /\ svrOff' = svrOff + Len(buf)
                                  /\ UNCHANGED <<parse, last, mail, cliBuf, open, why>>
        PROVE  TrackerTypeOK'
    <3>1. permit' \in SUBSET {"alert", "deny"}
      BY <1>1, <2>2, BitsType
    <3>2. CASE Close("policy")
      BY <3>1, <3>2, CloseType, FailReasons
    <3>3. CASE /\ svrBuf' = <<>>
               /\ svrOff' = svrOff + Len(buf)
               /\ UNCHANGED <<parse, last, mail, cliBuf, open, why>>
      <4>1. svrBuf' \in Seq(ServerTokens) /\ Len(svrBuf') = 0
        BY <3>3, EmptySeq
      <4>2. svrOff' \in Nat /\ svrOff' + Len(svrBuf') <= SvrCap
        BY <1>0, <3>3, <4>1, BoundsAssumption
      <4> QED BY <3>1, <3>3, <4>1, <4>2 DEF TrackerTypeOK
    <3> QED BY <2>2, <3>2, <3>3
  <2> QED BY <1>11, <2>1, <2>2 DEF OtherAck, Analyse
<1> QED BY <1>8, <1>9, <1>10, <1>11 DEF ParseSmtpAck

-----------------------------------------------------------------------------
(* The dialogue and the theorem *)

LEMMA TokensType ==
  ASSUME DialogueTypeOK, NEW q
  PROVE  NextTokens(q) \subseteq ClientTokens
<1>1. NextLines(q) \subseteq ClientLines
  BY CommandsAssumption DEF NextLines, DialogueTypeOK, ClientLines, AuthLines, MessageLines
<1>2. \A l \in NextLines(q) : Forms(l) \subseteq {"whole", "refused", "head", "tail"}
  BY DEF Forms
<1>3. ASSUME NEW t \in NextTokens(q)
      PROVE  t \in ClientTokens
  <2>1. PICK l \in NextLines(q) : t \in [line : {l}, form : Forms(l)]
    BY DEF NextTokens
  <2> QED BY <1>1, <1>2, <2>1 DEF ClientTokens
<1> QED BY <1>3

LEMMA SegmentType ==
  ASSUME DialogueTypeOK, NEW seg \in ClientSegments
  PROVE  /\ seg \in Seq(ClientTokens) /\ seg # <<>> /\ Len(seg) \in {1, 2}
         /\ seg[Len(seg)] \in ClientTokens /\ seg[1] \in ClientTokens
<1>1. CASE cliOwed # <<>>
  <2>1. seg = cliOwed
    BY <1>1 DEF ClientSegments
  <2>2. cliOwed \in Seq(ClientTokens) /\ Len(cliOwed) \in Nat /\ Len(cliOwed) <= 1
    BY LenProperties DEF DialogueTypeOK
  <2>3. Len(cliOwed) = 1
    <3>1. Len(cliOwed) \in Nat \ {0}
      BY <1>1, <2>2, NonEmpty
    <3> QED BY <2>2, <3>1, AtMostOne
  <2> QED BY <1>1, <2>1, <2>2, <2>3, ElementOfSeq
<1>2. CASE cliOwed = <<>>
  <2>1. \/ \E t \in NextTokens(asked) : seg = <<t>>
        \/ \E t \in NextTokens(asked) : \E u \in NextTokens(Awaiting(asked, t)) : seg = <<t, u>>
    BY <1>2 DEF ClientSegments
  <2>2. ASSUME NEW t \in NextTokens(asked), seg = <<t>>
        PROVE  seg \in Seq(ClientTokens) /\ seg # <<>> /\ Len(seg) = 1 /\ seg[1] = t
    BY <2>2, TokensType
  <2>3. ASSUME NEW t \in NextTokens(asked), NEW u \in NextTokens(Awaiting(asked, t)),
               seg = <<t, u>>
        PROVE  /\ seg \in Seq(ClientTokens) /\ seg # <<>> /\ Len(seg) = 2
               /\ seg[1] = t /\ seg[2] = u
    <3>1. t \in ClientTokens /\ u \in ClientTokens
      BY TokensType
    <3> QED BY <2>3, <3>1
  <2> QED BY <2>1, <2>2, <2>3, TokensType
<1> QED BY <1>1, <1>2

LEMMA AwaitingType ==
  ASSUME NEW q \in Seq(ClientLines \cup {"connect"}), NEW t \in ClientTokens
  PROVE  Awaiting(q, t) \in Seq(ClientLines \cup {"connect"})
BY DEF Awaiting, ClientTokens

LEMMA MendedTokens ==
  /\ \A t \in ClientTokens : /\ [t EXCEPT !.form = "whole"] \in ClientTokens
                             /\ [t EXCEPT !.form = "tail"] \in ClientTokens
  /\ \A t \in ServerTokens : [t EXCEPT !.form = "whole"] \in ServerTokens
BY DEF ClientTokens, ServerTokens

LEMMA ClientDataType ==
  ASSUME TypeOK, ClientData
  PROVE  TypeOK'
<1>1. PICK seg \in ClientSegments :
         LET t == seg[Len(seg)] IN
         /\ asked' = IF Len(seg) = 1 THEN Awaiting(asked, t)
                     ELSE Awaiting(Awaiting(asked, seg[1]), t)
         /\ cliOwed' = IF t.form = "head" THEN <<[t EXCEPT !.form = "tail"]>> ELSE <<>>
         /\ orderly' = (orderly /\ OrderlySegment(seg) /\ ClientFits(seg))
         /\ UNCHANGED <<srv, auth, svrOwed>>
         /\ IF ClientFits(seg) THEN ParseSmtpClient(Joined(cliBuf, seg))
            ELSE UNCHANGED tracker
  BY DEF ClientData
<1>2. /\ seg \in Seq(ClientTokens) /\ seg # <<>> /\ Len(seg) \in {1, 2}
      /\ seg[Len(seg)] \in ClientTokens /\ seg[1] \in ClientTokens
  BY SegmentType DEF TypeOK
<1>3. DialogueTypeOK'
  <2>1. asked' \in Seq(ClientLines \cup {"connect"})
    <3>1. asked \in Seq(ClientLines \cup {"connect"})
      BY DEF TypeOK, DialogueTypeOK
    <3>2. Awaiting(asked, seg[1]) \in Seq(ClientLines \cup {"connect"})
      BY <1>2, <3>1, AwaitingType
    <3> QED BY <1>1, <1>2, <3>1, <3>2, AwaitingType
  <2>2. cliOwed' \in Seq(ClientTokens) /\ Len(cliOwed') <= 1
    <3>1. [seg[Len(seg)] EXCEPT !.form = "tail"] \in ClientTokens
      BY <1>2, MendedTokens
    <3> HIDE DEF ClientTokens
    <3> QED BY <1>1, <3>1
  <2>3. orderly' \in BOOLEAN
    <3>1. (orderly /\ OrderlySegment(seg) /\ ClientFits(seg)) \in BOOLEAN
      OBVIOUS
    <3> QED BY <1>1, <3>1
  <2> QED BY <1>1, <2>1, <2>2, <2>3 DEF TypeOK, DialogueTypeOK
<1>4. TrackerTypeOK'
  <2>1. CASE ClientFits(seg)
    <3>1. /\ Joined(cliBuf, seg) \in Seq(ClientTokens)
          /\ Joined(cliBuf, seg) # <<>>
          /\ Len(Joined(cliBuf, seg)) <= Len(cliBuf) + Len(seg)
      BY <1>2, MendedTokens, JoinedType DEF TypeOK, TrackerTypeOK
    <3>2. /\ Len(cliBuf) \in Nat /\ Len(seg) \in Nat /\ Len(Joined(cliBuf, seg)) \in Nat
      BY <1>2, <3>1, LenProperties DEF TypeOK, TrackerTypeOK
    <3>3. Len(Joined(cliBuf, seg)) <= CliCap
      BY <2>1, <3>1, <3>2, BoundsAssumption DEF ClientFits
    <3>4. CASE parse = "MESSAGE" /\ ParseSmtpMessage(Joined(cliBuf, seg))
      BY <3>1, <3>3, <3>4, ParseSmtpMessageType DEF TypeOK
    <3>5. CASE ParseSmtpCommand(Joined(cliBuf, seg))
      BY <3>1, <3>3, <3>5, ParseSmtpCommandType DEF TypeOK
    <3> QED BY <1>1, <2>1, <3>4, <3>5 DEF ParseSmtpClient
  <2>2. CASE UNCHANGED tracker
    BY <2>2 DEF tracker, TypeOK, TrackerTypeOK
  <2> QED BY <1>1, <2>1, <2>2
<1> QED BY <1>3, <1>4 DEF TypeOK

LEMMA ServerSegmentType ==
  ASSUME TrackerTypeOK, NEW seg \in Seq(ServerTokens), seg # <<>>, ServerSegment(seg)
  PROVE  TrackerTypeOK'
<1>1. CASE ServerFits(seg) /\ ParseSmtpAck(Joined(svrBuf, seg))
  <2>1. /\ Joined(svrBuf, seg) \in Seq(ServerTokens)
        /\ Joined(svrBuf, seg) # <<>>
        /\ Len(Joined(svrBuf, seg)) <= Len(svrBuf) + Len(seg)
    BY MendedTokens, JoinedType DEF TrackerTypeOK
  <2>2. /\ Len(svrBuf) \in Nat /\ Len(seg) \in Nat /\ Len(Joined(svrBuf, seg)) \in Nat
        /\ svrOff \in Nat
    BY <2>1, LenProperties DEF TrackerTypeOK
  <2>3. svrOff + Len(Joined(svrBuf, seg)) <= SvrCap
    BY <1>1, <2>1, <2>2, BoundsAssumption DEF ServerFits
  <2> QED BY <1>1, <2>1, <2>3, ParseSmtpAckType
<1>2. CASE UNCHANGED tracker
  BY <1>2 DEF tracker, TrackerTypeOK
<1> QED BY <1>1, <1>2 DEF ServerSegment

LEMMA ReplyLineType ==
  ASSUME NEW k \in Codes, NEW more \in BOOLEAN, NEW form \in {"whole", "head", "tail"}
  PROVE  ReplyLine(k, more, form) \in ServerTokens
BY CodesAssumption DEF ReplyLine, ServerTokens

LEMMA DeliveryType ==
  ASSUME NEW k \in Codes, NEW d \in Deliveries(k)
  PROVE  /\ d[1] \in Seq(ServerTokens) /\ d[1] # <<>>
         /\ d[2] \in Seq(ServerTokens) /\ Len(d[2]) <= 1
<1> DEFINE L(more, form) == ReplyLine(k, more, form)
<1>1. /\ L(FALSE, "whole") \in ServerTokens /\ L(TRUE, "whole") \in ServerTokens
      /\ L(FALSE, "head") \in ServerTokens /\ L(FALSE, "tail") \in ServerTokens
  BY ReplyLineType
<1>2. \/ d = << <<L(FALSE, "whole")>>, <<>> >>
      \/ d = << <<L(TRUE, "whole"), L(FALSE, "whole")>>, <<>> >>
      \/ d = << <<L(FALSE, "head")>>, <<L(FALSE, "tail")>> >>
      \/ d = << <<L(TRUE, "whole")>>, <<L(FALSE, "whole")>> >>
  BY DEF Deliveries
<1> HIDE DEF L
<1> DEFINE l == L(FALSE, "whole") m == L(TRUE, "whole") h == L(FALSE, "head")
           t == L(FALSE, "tail")
<1>0. l \in ServerTokens /\ m \in ServerTokens /\ h \in ServerTokens /\ t \in ServerTokens
  BY <1>1
<1>4. \/ d = << <<l>>, <<>> >> \/ d = << <<m, l>>, <<>> >>
      \/ d = << <<h>>, <<t>> >> \/ d = << <<m>>, <<l>> >>
  BY <1>2
<1> HIDE DEF l, m, h, t
<1>3. /\ <<l>> \in Seq(ServerTokens) /\ <<l>> # <<>> /\ Len(<<l>>) <= 1
      /\ <<m, l>> \in Seq(ServerTokens) /\ <<m, l>> # <<>>
      /\ <<h>> \in Seq(ServerTokens) /\ <<h>> # <<>>
      /\ <<m>> \in Seq(ServerTokens) /\ <<m>> # <<>>
      /\ <<t>> \in Seq(ServerTokens) /\ Len(<<t>>) <= 1
      /\ <<>> \in Seq(ServerTokens) /\ Len(<<>>) <= 1
  BY <1>0, Literals
<1>5. \/ (d[1] = <<l>> /\ d[2] = <<>>) \/ (d[1] = <<m, l>> /\ d[2] = <<>>)
      \/ (d[1] = <<h>> /\ d[2] = <<t>>) \/ (d[1] = <<m>> /\ d[2] = <<l>>)
  BY <1>4
<1> QED BY <1>3, <1>5

LEMMA AfterType ==
  ASSUME DialogueTypeOK, NEW c, NEW granted \in BOOLEAN
  PROVE  /\ SrvAfter(c, granted) \in {"start", "ready", "mail", "rcpt", "data", "bye"}
         /\ AuthAfter(c, granted) \in {"none", "user", "pass"}
BY DEF SrvAfter, AuthAfter, DialogueTypeOK

LEMMA ServerRepliesType ==
  ASSUME TypeOK, ServerReplies
  PROVE  TypeOK'
<1> DEFINE Step(k, d) == /\ asked' = Tail(asked)
                         /\ srv' = SrvAfter(Head(asked), k \in Granting(Head(asked)))
                         /\ auth' = AuthAfter(Head(asked), k \in Granting(Head(asked)))
                         /\ svrOwed' = d[2]
                         /\ orderly' = (orderly /\ OrderlyReply(Head(asked), k, d[1])
                                                /\ ServerFits(d[1]))
                         /\ UNCHANGED cliOwed
                         /\ ServerSegment(d[1])
<1>0. PICK k \in Answers(Head(asked)) : \E d \in Deliveries(k) : Step(k, d)
  BY DEF ServerReplies
<1>1. PICK d \in Deliveries(k) : Step(k, d)
  BY <1>0
<1>2. k \in Codes /\ asked # <<>>
  BY DEF Answers, ServerReplies
<1>3. /\ d[1] \in Seq(ServerTokens) /\ d[1] # <<>>
      /\ d[2] \in Seq(ServerTokens) /\ Len(d[2]) <= 1
  BY <1>2, DeliveryType
<1>4. TrackerTypeOK'
  BY <1>1, <1>3, ServerSegmentType DEF TypeOK
<1>5. asked' \in Seq(ClientLines \cup {"connect"})
  BY <1>1, <1>2, HeadTailProperties DEF TypeOK, DialogueTypeOK
<1>6. /\ srv' \in {"start", "ready", "mail", "rcpt", "data", "bye"}
      /\ auth' \in {"none", "user", "pass"}
  <2>1. (k \in Granting(Head(asked))) \in BOOLEAN /\ DialogueTypeOK
    BY DEF TypeOK
  <2> QED BY <1>1, <2>1, AfterType
<1>7. orderly' \in BOOLEAN
  <2>1. (orderly /\ OrderlyReply(Head(asked), k, d[1]) /\ ServerFits(d[1])) \in BOOLEAN
    OBVIOUS
  <2> QED BY <1>1, <2>1
<1> QED BY <1>1, <1>3, <1>4, <1>5, <1>6, <1>7 DEF TypeOK, DialogueTypeOK

LEMMA ServerCoalescesType ==
  ASSUME TypeOK, ServerCoalesces
  PROVE  TypeOK'
<1>1. PICK k \in Answers(Head(asked)), k2 \in {x \in Codes : x \in Negative} :
          /\ asked' = SubSeq(asked, 3, Len(asked))
          /\ srv' = IF asked[2] = "eom" THEN "ready"
                    ELSE SrvAfter(Head(asked), k \in Granting(Head(asked)))
          /\ auth' = "none"
          /\ orderly' = FALSE
          /\ UNCHANGED <<svrOwed, cliOwed>>
          /\ ServerSegment(<<ReplyLine(k, FALSE, "whole"), ReplyLine(k2, FALSE, "whole")>>)
  BY DEF ServerCoalesces
<1>2. k \in Codes /\ k2 \in Codes /\ Len(asked) >= 2
  BY DEF Answers, ServerCoalesces
<1>3. TrackerTypeOK'
  <2>1. /\ ReplyLine(k, FALSE, "whole") \in ServerTokens
        /\ ReplyLine(k2, FALSE, "whole") \in ServerTokens
    BY <1>2, ReplyLineType
  <2> DEFINE seg == <<ReplyLine(k, FALSE, "whole"), ReplyLine(k2, FALSE, "whole")>>
  <2>2. seg \in Seq(ServerTokens) /\ seg # <<>>
    BY <2>1, Literals
  <2> QED BY <1>1, <2>2, ServerSegmentType DEF TypeOK
<1>4. asked' \in Seq(ClientLines \cup {"connect"})
  <2>1. asked \in Seq(ClientLines \cup {"connect"}) /\ 2 \in 0..Len(asked)
    BY <1>2, LenProperties DEF TypeOK, DialogueTypeOK
  <2>2. SubSeq(asked, 2 + 1, Len(asked)) \in Seq(ClientLines \cup {"connect"})
    BY <2>1, SuffixOfSeq
  <2> QED BY <1>1, <2>2
<1>5. srv' \in {"start", "ready", "mail", "rcpt", "data", "bye"}
  <2>1. (k \in Granting(Head(asked))) \in BOOLEAN /\ DialogueTypeOK
    BY DEF TypeOK
  <2>2. SrvAfter(Head(asked), k \in Granting(Head(asked)))
          \in {"start", "ready", "mail", "rcpt", "data", "bye"}
    BY <2>1, AfterType
  <2> QED BY <1>1, <2>2
<1> QED BY <1>1, <1>3, <1>4, <1>5 DEF TypeOK, DialogueTypeOK

LEMMA InitTypes ==
  ASSUME Init
  PROVE  TypeOK
<1>1. TrackerTypeOK
  <2>1. /\ cliBuf \in Seq(ClientTokens) /\ Len(cliBuf) = 0
        /\ svrBuf \in Seq(ServerTokens) /\ Len(svrBuf) = 0
    BY EmptySeq DEF Init
  <2> QED BY <2>1, BoundsAssumption
          DEF Init, TrackerTypeOK, ParseStates, Events, MailStates, Reasons
<1>2. DialogueTypeOK
  <2>1. /\ cliOwed \in Seq(ClientTokens) /\ Len(cliOwed) = 0
        /\ svrOwed \in Seq(ServerTokens) /\ Len(svrOwed) = 0
    BY EmptySeq DEF Init
  <2>2. asked \in Seq(ClientLines \cup {"connect"})
    BY DEF Init
  <2> QED BY <2>1, <2>2 DEF Init, DialogueTypeOK
<1> QED BY <1>1, <1>2 DEF TypeOK

LEMMA TypeStep ==
  ASSUME TypeOK, [Next]_vars
  PROVE  TypeOK'
<1>1. CASE ClientData
  BY <1>1, ClientDataType
<1>2. CASE ServerReplies
  BY <1>2, ServerRepliesType
<1>3. CASE ServerCoalesces
  BY <1>3, ServerCoalescesType
<1>4. CASE ServerResumes
  <2>1. svrOwed \in Seq(ServerTokens) /\ svrOwed # <<>> /\ ServerSegment(svrOwed)
    BY <1>4 DEF ServerResumes, TypeOK, DialogueTypeOK
  <2>2. TrackerTypeOK'
    BY <2>1, ServerSegmentType DEF TypeOK
  <2>3. svrOwed' \in Seq(ServerTokens) /\ Len(svrOwed') <= 1
    BY <1>4, EmptySeq DEF ServerResumes
  <2>4. orderly' = FALSE /\ UNCHANGED <<srv, auth, asked, cliOwed>>
    BY <1>4 DEF ServerResumes
  <2>5. DialogueTypeOK'
    BY <2>3, <2>4 DEF TypeOK, DialogueTypeOK
  <2> QED BY <2>2, <2>5 DEF TypeOK
<1>5. CASE Teardown
  <2>1. TrackerTypeOK'
    BY <1>5, FailType, FailReasons DEF Teardown, TypeOK
  <2> QED BY <1>5, <2>1 DEF Teardown, dialogue, TypeOK, DialogueTypeOK
<1>6. CASE UNCHANGED vars
  BY <1>6 DEF vars, tracker, dialogue, TypeOK, TrackerTypeOK, DialogueTypeOK
<1> QED BY <1>1, <1>2, <1>3, <1>4, <1>5, <1>6 DEF Next

\* The types, and that neither buffer ever holds more than its capacity,
\* whatever svr_data has moved over: left_len in process_smtp (src/smtp.c),
\* which is compared with an unsigned size, is never negative.
THEOREM TypeCorrect == Spec => []TypeOK
<1>1. Init => TypeOK
  BY InitTypes
<1>2. TypeOK /\ [Next]_vars => TypeOK'
  BY TypeStep
<1> QED BY <1>1, <1>2, PTL DEF Spec

-----------------------------------------------------------------------------
(***************************************************************************)
(* In an orderly dialogue the tracker stays in step with the server: the   *)
(* inductive invariant InStep of SmtpSession, and what follows from it.    *)
(***************************************************************************)
\* What an orderly client line does: the session ends, and not for its syntax,
\* or the line is recorded under its event and nothing else changes.
Took(e) ==
  /\ why' # "parse"
  /\ open' => last' = e /\ cliBuf' = <<>> /\ parse' = parse /\ mail' = mail /\ svrBuf' = svrBuf

\* What an orderly reply does: the session ends, and not for its syntax, or the
\* reply is consumed and leaves these values.
Heard(m, p, l) ==
  /\ why' # "parse"
  /\ open' => mail' = m /\ parse' = p /\ last' = l /\ svrBuf' = <<>> /\ cliBuf' = cliBuf

\* The tracker agrees with a server that answered c with k.
Follows(c, k) ==
  LET s == SrvAfter(c, k \in Granting(c)) a == AuthAfter(c, k \in Granting(c)) IN
  /\ why' # "parse"
  /\ open' => /\ svrBuf' = <<>> /\ cliBuf' = cliBuf
              /\ parse' # "MESSAGE" => cliBuf = <<>>
              /\ a # "none" => s = "ready"
              /\ s # "bye" => /\ mail' = MailOf[s]
                              /\ (parse' = "MESSAGE") <=> (s = "data")
                              /\ (last' = "AUTH") <=> (a = "user")
                              /\ (last' = "USER") <=> (a = "pass")

-----------------------------------------------------------------------------
(* Client lines *)

LEMMA Singleton ==
  ASSUME NEW t
  PROVE  Head(<<t>>) = t /\ Tail(<<t>>) = <<>> /\ Len(<<t>>) = 1 /\ <<t>>[1] = t
OBVIOUS

LEMMA AnalyseRecorded ==
  ASSUME NEW t, NEW e, why # "parse", Analyse(Recorded(e, <<t>>))
  PROVE  Took(e)
<1>1. CASE Close("policy")
  BY <1>1 DEF Close, Took
<1>2. CASE Recorded(e, <<t>>) /\ UNCHANGED <<open, why>>
  BY <1>2, Singleton DEF Recorded, Took
<1> QED BY <1>1, <1>2 DEF Analyse

LEMMA ParseCommandTook ==
  ASSUME NEW t, NEW e, NEW l, t.form = "whole", why # "parse", ParseCommand(e, l, <<t>>)
  PROVE  Took(e)
<1>1. Analyse(Recorded(e, <<t>>))
  BY Singleton DEF ParseCommand
<1> QED BY <1>1, AnalyseRecorded

LEMMA EventOfVerb ==
  ASSUME NEW v \in Verbs
  PROVE  EventOf(v) = IF v = "SAML" THEN "SOML" ELSE v
BY DEF EventOf, Verbs

LEMMA CommandTook ==
  ASSUME NEW t, t.form = "whole", t.line \in Verbs \ {"NOOP"},
         t.line = "HELO" => "HELO" \notin Disabled,
         last \notin {"AUTH", "USER"}, why # "parse", ParseSmtpCommand(<<t>>)
  PROVE  Took(EventOf(t.line)) /\ (open' => t.line \notin Disabled)
<1> DEFINE v == t.line
<1>1. EventOf(v) = IF v = "SAML" THEN "SOML" ELSE v
  BY EventOfVerb
<1>2. \/ HeloCmd(<<t>>) \/ EhloCmd(<<t>>) \/ AuthCmd(<<t>>) \/ MailCmd(<<t>>)
      \/ RcptCmd(<<t>>) \/ DataCmd(<<t>>) \/ RsetCmd(<<t>>) \/ QuitCmd(<<t>>)
      \/ SendCmd(<<t>>) \/ SomlCmd(<<t>>) \/ VrfyCmd(<<t>>) \/ ExpnCmd(<<t>>)
      \/ SkippedCmd(<<t>>)
  BY Singleton DEF ParseSmtpCommand, UserCmd, PasswdCmd
<1>3. CASE v \in {"HELO", "EHLO", "AUTH", "MAIL", "RCPT", "DATA", "RSET", "QUIT", "SEND"}
  <2>1. \E l : ParseCommand(v, l, <<t>>)
    BY <1>2, <1>3, Singleton DEF HeloCmd, EhloCmd, AuthCmd, MailCmd, RcptCmd, DataCmd, RsetCmd,
       QuitCmd, SendCmd, SomlCmd, VrfyCmd, ExpnCmd, SkippedCmd, Skipped
  <2>2. Took(v)
    BY <2>1, ParseCommandTook
  <2>3. v \notin Disabled
    BY <1>3, DisabledAssumption
  <2> QED BY <1>1, <1>3, <2>2, <2>3
<1>4. CASE v \in {"SOML", "SAML"}
  <2>1. ParseCommand("SOML", last, <<t>>)
    BY <1>2, <1>4, Singleton DEF HeloCmd, EhloCmd, AuthCmd, MailCmd, RcptCmd, DataCmd, RsetCmd,
       QuitCmd, SendCmd, SomlCmd, VrfyCmd, ExpnCmd, SkippedCmd, Skipped
  <2>2. Took("SOML")
    BY <2>1, ParseCommandTook
  <2> QED BY <1>1, <1>4, <2>2, DisabledAssumption
<1>5. CASE v \in {"VRFY", "EXPN"}
  <2>1. IF v \in Disabled THEN Fail("policy") ELSE ParseCommand(v, last, <<t>>)
    BY <1>2, <1>5, Singleton DEF HeloCmd, EhloCmd, AuthCmd, MailCmd, RcptCmd, DataCmd, RsetCmd,
       QuitCmd, SendCmd, SomlCmd, VrfyCmd, ExpnCmd, SkippedCmd, Skipped
  <2>2. CASE v \in Disabled
    BY <2>1, <2>2 DEF Fail, Close, Took
  <2>3. CASE v \notin Disabled
    <3>1. Took(v)
      BY <2>1, <2>3, ParseCommandTook
    <3> QED BY <1>1, <1>5, <2>3, <3>1
  <2> QED BY <2>2, <2>3
<1>6. CASE v \in Skipped
  <2>1. SkippedCmd(<<t>>) /\ v # "SAML" /\ v # "NOOP"
    BY <1>2, <1>6, Singleton DEF HeloCmd, EhloCmd, AuthCmd, MailCmd, RcptCmd, DataCmd, RsetCmd,
       QuitCmd, SendCmd, SomlCmd, VrfyCmd, ExpnCmd, Skipped
  <2>2. Took(v)
    BY <2>1, Singleton DEF SkippedCmd, Fail, Close, Took
  <2>3. v \notin Disabled
    BY <1>6, DisabledAssumption DEF Skipped
  <2> QED BY <1>1, <2>1, <2>2, <2>3
<1> QED BY <1>3, <1>4, <1>5, <1>6 DEF Verbs, Skipped

\* The only segment an orderly client sends.
LEMMA OrderlyToken ==
  ASSUME NEW seg \in ClientSegments, OrderlySegment(seg)
  PROVE  /\ asked = <<>> /\ cliOwed = <<>> /\ svrOwed = <<>>
         /\ \E t \in NextTokens(<<>>) :
                   /\ seg = <<t>> /\ t.form = "whole" /\ t.line \in NextLines(<<>>)
                   /\ t.line \notin {"junk", "NOOP"}
                   /\ t.line = "HELO" => "HELO" \notin Disabled
<1>1. /\ asked = <<>> /\ cliOwed = <<>> /\ svrOwed = <<>> /\ Len(seg) = 1
      /\ seg[1].form = "whole" /\ seg[1].line \notin {"junk", "NOOP"}
      /\ seg[1].line = "HELO" => "HELO" \notin Disabled
  BY DEF OrderlySegment
<1>2. \/ \E t \in NextTokens(asked) : seg = <<t>>
      \/ \E t \in NextTokens(asked) : \E u \in NextTokens(Awaiting(asked, t)) : seg = <<t, u>>
  BY <1>1 DEF ClientSegments
<1>3. PICK t \in NextTokens(asked) : seg = <<t>>
  BY <1>1, <1>2
<1>4. t.line \in NextLines(<<>>)
  BY <1>1, <1>3 DEF NextTokens
<1> QED BY <1>1, <1>3, <1>4

\* A token after a buffer that ends in a whole line.
LEMMA JoinedWhole ==
  ASSUME NEW buf \in Seq(ClientTokens), NEW t \in ClientTokens, t.form = "whole"
  PROVE  /\ Joined(buf, <<t>>) = buf \o <<t>>
         /\ Joined(<<>>, <<t>>) = <<t>>
         /\ EndsMessage(buf \o <<t>>) <=> t.line = "eom"
<1>1. Joined(buf, <<t>>) = buf \o <<t>> /\ Joined(<<>>, <<t>>) = <<t>>
  BY Singleton DEF Joined
<1>2. (buf \o <<t>>)[Len(buf \o <<t>>)] = t
  BY LenProperties
<1>3. t.line = "eom" => t = [line |-> "eom", form |-> "whole"]
  BY DEF ClientTokens
<1> QED BY <1>1, <1>2, <1>3 DEF EndsMessage

\* An orderly client step keeps the tracker in step.
LEMMA ClientInStep ==
  ASSUME TypeOK, InStep, open, ClientData
  PROVE  InStep'
<1> SUFFICES ASSUME orderly' PROVE InStep'
  BY DEF InStep
<1>1. PICK seg \in ClientSegments :
         LET t == seg[Len(seg)] IN
         /\ asked' = IF Len(seg) = 1 THEN Awaiting(asked, t)
                     ELSE Awaiting(Awaiting(asked, seg[1]), t)
         /\ cliOwed' = IF t.form = "head" THEN <<[t EXCEPT !.form = "tail"]>> ELSE <<>>
         /\ orderly' = (orderly /\ OrderlySegment(seg) /\ ClientFits(seg))
         /\ UNCHANGED <<srv, auth, svrOwed>>
         /\ IF ClientFits(seg) THEN ParseSmtpClient(Joined(cliBuf, seg))
            ELSE UNCHANGED tracker
  BY DEF ClientData
<1>2. orderly /\ OrderlySegment(seg) /\ ClientFits(seg)
  BY <1>1
<1>3. PICK t \in NextTokens(<<>>) :
                   /\ seg = <<t>> /\ t.form = "whole" /\ t.line \in NextLines(<<>>)
                   /\ t.line \notin {"junk", "NOOP"}
                   /\ t.line = "HELO" => "HELO" \notin Disabled
  BY <1>2, OrderlyToken
<1>4. /\ asked = <<>> /\ cliOwed = <<>> /\ svrOwed = <<>> /\ svrBuf = <<>>
      /\ why # "parse" /\ srv # "bye"
      /\ mail = MailOf[srv] /\ Between
      /\ parse # "MESSAGE" => cliBuf = <<>>
      /\ auth # "none" => srv = "ready"
  <2>1. asked = <<>> /\ srv # "bye"
    <3>1. srv = "bye" => NextLines(<<>>) = {}
      BY DEF NextLines
    <3>2. asked = <<>>
      BY <1>2 DEF OrderlySegment
    <3> QED BY <1>3, <3>1, <3>2
  <2> QED BY <1>2, <2>1 DEF InStep
<1>5. t \in ClientTokens /\ cliBuf \in Seq(ClientTokens) /\ open \in BOOLEAN
  BY <1>3, TokensType DEF TypeOK, TrackerTypeOK
<1>6. /\ asked' = Awaiting(<<>>, t) /\ cliOwed' = <<>>
      /\ srv' = srv /\ auth' = auth /\ svrOwed' = <<>>
      /\ ParseSmtpClient(Joined(cliBuf, <<t>>))
  BY <1>1, <1>2, <1>3, <1>4, Singleton
<1>7. ASSUME Took(EventOf(t.line)), open' => t.line \notin Disabled, srv # "data", asked' = <<t.line>>,
             t.line \in (Verbs \ {"NOOP"}) \cup {"user", "pass"},
             (t.line = "user") <=> (auth = "user"), (t.line = "pass") <=> (auth = "pass")
      PROVE  InStep'
  <2>1. parse # "MESSAGE"
    BY <1>4, <1>7 DEF Between
  <2>2. Head(asked') = t.line /\ Len(asked') = 1 /\ asked' # <<>>
    BY <1>7
  <2>3. t.line # "eom" /\ t.line # "connect"
    BY <1>7 DEF Verbs
  <2>4. why' # "parse"
    BY <1>7 DEF Took
  <2>5. open' => Within'
    BY <1>4, <1>6, <1>7, <2>1, <2>2, <2>3 DEF Took, Within, EventOf
  <2> QED BY <1>4, <1>6, <1>7, <2>1, <2>2, <2>4, <2>5 DEF InStep, Took
<1>8. CASE srv = "data"
  <2>1. parse = "MESSAGE" /\ auth = "none" /\ last # "AUTH" /\ last # "USER"
    BY <1>4, <1>5, <1>8 DEF Between, TypeOK, DialogueTypeOK
  <2>2. t.line \in MessageLines
    BY <1>3, <1>4, <1>8 DEF NextLines
  <2> DEFINE buf == cliBuf \o <<t>>
  <2>3. ParseSmtpMessage(buf) /\ (EndsMessage(buf) <=> t.line = "eom")
    BY <1>3, <1>5, <1>6, <2>1, JoinedWhole DEF ParseSmtpClient
  <2>4. CASE t.line = "body"
    <3>1. MessageGoesOn(buf)
      BY <2>3, <2>4 DEF ParseSmtpMessage, MessageEnds
    <3>2. asked' = <<>>
      BY <1>6, <2>4 DEF Awaiting
    <3>3. /\ why' # "parse"
          /\ open' => /\ last' \in {last, "EOT", "EOB"} /\ parse' = parse /\ mail' = mail
                      /\ svrBuf' = svrBuf
      BY <1>4, <3>1 DEF MessageGoesOn, Fail, Close
    <3> QED BY <1>4, <1>6, <1>8, <2>1, <3>2, <3>3 DEF InStep, Between
  <2>5. CASE t.line = "eom"
    <3>1. MessageEnds(buf)
      BY <2>3, <2>5 DEF ParseSmtpMessage, MessageGoesOn
    <3>2. asked' = <<"eom">> /\ Head(asked') = "eom" /\ Len(asked') = 1 /\ asked' # <<>>
      BY <1>3, <1>6, <2>5 DEF Awaiting
    <3>3. /\ why' # "parse"
          /\ open' => /\ last' = "EOM" /\ mail' = mail /\ svrBuf' = svrBuf /\ cliBuf' = <<>>
      BY <1>4, <3>1 DEF MessageEnds, MessageEnded, Fail, Close
    <3>4. "eom" \notin Disabled /\ EventOf("eom") = "EOM"
      BY DisabledAssumption DEF EventOf
    <3>5. open' => Within'
      BY <1>4, <1>6, <1>8, <2>1, <3>2, <3>3, <3>4 DEF Within
    <3> QED BY <1>4, <1>6, <1>8, <2>1, <3>2, <3>3, <3>5 DEF InStep
  <2> QED BY <2>2, <2>4, <2>5 DEF MessageLines
<1>9. CASE srv # "data"
  <2>1. parse # "MESSAGE" /\ cliBuf = <<>> /\ ParseSmtpCommand(<<t>>)
    BY <1>3, <1>4, <1>5, <1>6, <1>9, JoinedWhole DEF Between, ParseSmtpClient
  <2>2. CASE auth # "none"
    <3>1. t.line = auth /\ t.line \in {"user", "pass"}
      BY <1>3, <1>4, <1>9, <2>2 DEF NextLines, TypeOK, DialogueTypeOK
    <3>2. Took(EventOf(t.line))
      <4>1. CASE auth = "user"
        <5>1. AuthLine("USER", <<t>>)
          BY <1>4, <2>1, <4>1 DEF Between, ParseSmtpCommand, UserCmd, PasswdCmd
        <5>2. Analyse(Recorded("USER", <<t>>))
          BY <1>3, <5>1, Singleton DEF AuthLine
        <5> QED BY <1>4, <3>1, <4>1, <5>2, AnalyseRecorded DEF EventOf
      <4>2. CASE auth = "pass"
        <5>1. AuthLine("PASSWD", <<t>>)
          BY <1>4, <2>1, <4>2 DEF Between, ParseSmtpCommand, UserCmd, PasswdCmd
        <5>2. Analyse(Recorded("PASSWD", <<t>>))
          BY <1>3, <5>1, Singleton DEF AuthLine
        <5> QED BY <1>4, <3>1, <4>2, <5>2, AnalyseRecorded DEF EventOf
      <4> QED BY <3>1, <4>1, <4>2
    <3>3. t.line \notin Disabled
      BY <3>1, DisabledAssumption
    <3>4. asked' = <<t.line>>
      BY <1>3, <1>6, <3>1 DEF Awaiting
    <3> QED BY <1>7, <1>9, <3>1, <3>2, <3>3, <3>4
  <2>3. CASE auth = "none"
    <3>1. t.line \in Verbs \ {"NOOP"}
      BY <1>3, <1>4, <1>9, <2>3, CommandsAssumption DEF NextLines
    <3>2. last \notin {"AUTH", "USER"}
      BY <1>4, <2>3 DEF Between
    <3>3. Took(EventOf(t.line)) /\ (open' => t.line \notin Disabled)
      BY <1>3, <1>4, <2>1, <3>1, <3>2, CommandTook
    <3>4. asked' = <<t.line>>
      BY <1>3, <1>6, <3>1 DEF Awaiting, Verbs
    <3>5. t.line # "user" /\ t.line # "pass"
      BY <3>1 DEF Verbs
    <3> QED BY <1>7, <1>9, <2>3, <3>1, <3>3, <3>4, <3>5
  <2> QED BY <2>2, <2>3
<1> QED BY <1>8, <1>9

-----------------------------------------------------------------------------
(* Server replies *)

\* The replies of an orderly dialogue: one whole line, or two where a parser
\* reads or swallows them.
OneReply(c, k, buf) ==
  \/ buf = <<ReplyLine(k, FALSE, "whole")>>
  \/ /\ buf = <<ReplyLine(k, TRUE, "whole"), ReplyLine(k, FALSE, "whole")>>
     /\ c \in {"connect", "EHLO", "HELP", "ETRN"} /\ (c = "EHLO" => k = 250)

LEMMA AnalyseAnswered ==
  ASSUME NEW m, NEW p, NEW l, NEW buf, NEW n, SubSeq(buf, n + 1, Len(buf)) = <<>>,
         why # "parse", Analyse(Answered(m, p, l, buf, n))
  PROVE  Heard(m, p, l)
<1>1. CASE Close("policy")
  BY <1>1 DEF Close, Heard
<1>2. CASE Answered(m, p, l, buf, n) /\ UNCHANGED <<open, why>>
  BY <1>2 DEF Answered, Heard
<1> QED BY <1>1, <1>2 DEF Analyse

LEMMA ReplyHeard ==
  ASSUME NEW k, NEW m, NEW p, NEW l, why # "parse",
         Reply(m, p, l, <<ReplyLine(k, FALSE, "whole")>>)
  PROVE  Heard(m, p, l)
<1> DEFINE x == ReplyLine(k, FALSE, "whole")
<1>1. Head(<<x>>) = x /\ Whole(x) /\ SubSeq(<<x>>, 1 + 1, Len(<<x>>)) = <<>>
  BY DEF ReplyLine, Whole
<1>2. Analyse(Answered(m, p, l, <<x>>, 1))
  BY <1>1 DEF Reply
<1> QED BY <1>1, <1>2, AnalyseAnswered

LEMMA OtherHeard ==
  ASSUME NEW k, NEW c, NEW buf, why # "parse", OneReply(c, k, buf), OtherAck(buf)
  PROVE  Heard(mail, parse, last)
<1>1. Head(buf).form # "tail"
  BY DEF OneReply, ReplyLine
<1>2. Analyse(/\ svrBuf' = <<>> /\ svrOff' = svrOff + Len(buf)
              /\ UNCHANGED <<parse, last, mail, cliBuf>>)
  BY <1>1 DEF OtherAck
<1>3. CASE Close("policy")
  BY <1>3 DEF Close, Heard
<1>4. CASE svrBuf' = <<>> /\ UNCHANGED <<parse, last, mail, cliBuf>> /\ UNCHANGED <<open, why>>
  BY <1>4 DEF Heard
<1> QED BY <1>2, <1>3, <1>4 DEF Analyse

\* A reply with several lines, read to its end.
LEMMA LinesHeard ==
  ASSUME NEW k, NEW c, NEW buf, NEW m, why # "parse", k = 250, OneReply(c, k, buf),
         NEW n \in FinalLine(buf), Analyse(Answered(m, parse, last, buf, n))
  PROVE  Heard(m, parse, last)
<1> DEFINE x == ReplyLine(k, FALSE, "whole") y == ReplyLine(k, TRUE, "whole")
<1>1. x.more = FALSE /\ y.more = TRUE
  BY DEF ReplyLine
<1> HIDE DEF x, y
<1>2. CASE buf = <<x>>
  <2>1. n = 1
    BY <1>2 DEF FinalLine
  <2>2. SubSeq(buf, n + 1, Len(buf)) = <<>>
    BY <1>2, <2>1
  <2> QED BY <2>2, AnalyseAnswered
<1>3. CASE buf = <<y, x>>
  <2>1. n = 2
    BY <1>1, <1>3 DEF FinalLine
  <2>2. SubSeq(buf, n + 1, Len(buf)) = <<>>
    BY <1>3, <2>1
  <2> QED BY <2>2, AnalyseAnswered
<1> QED BY <1>2, <1>3 DEF OneReply, x, y

LEMMA FinalLineOfReply ==
  ASSUME NEW k, NEW c, NEW buf, k = 250, OneReply(c, k, buf)
  PROVE  FinalLine(buf) # {}
<1> DEFINE x == ReplyLine(k, FALSE, "whole") y == ReplyLine(k, TRUE, "whole")
<1>1. /\ x.more = FALSE /\ y.more = TRUE /\ x.code = 250 /\ y.code = 250
      /\ Whole(x) /\ Whole(y)
  BY DEF ReplyLine, Whole
<1> HIDE DEF x, y
<1>2. CASE buf = <<x>>
  <2>1. 1 \in FinalLine(buf)
    BY <1>1, <1>2 DEF FinalLine
  <2> QED BY <2>1
<1>3. CASE buf = <<y, x>>
  <2>1. 2 \in FinalLine(buf)
    BY <1>1, <1>3 DEF FinalLine
  <2> QED BY <2>1
<1> QED BY <1>2, <1>3 DEF OneReply, x, y

LEMMA AckFollows ==
  ASSUME TypeOK, InStep, orderly, open, asked # <<>>,
         NEW k \in Answers(Head(asked)), NEW buf, ~Unfollowed(Head(asked), k),
         OneReply(Head(asked), k, buf), ParseSmtpAck(buf)
  PROVE  Follows(Head(asked), k)
<1> DEFINE c == Head(asked)
           one == <<ReplyLine(k, FALSE, "whole")>>
           granted == k \in Granting(c)
<1>1. /\ why # "parse" /\ srv # "bye" /\ mail = MailOf[srv]
      /\ parse # "MESSAGE" => cliBuf = <<>>
      /\ auth # "none" => srv = "ready"
      /\ Within
  BY DEF InStep, Within
<1>2. /\ c \in (Verbs \ {"NOOP"}) \cup {"connect", "user", "pass", "eom"}
      /\ last = EventOf(c)
      /\ (c = "eom") <=> (srv = "data")
      /\ c = "eom" => cliBuf = <<>>
      /\ c # "eom" => parse # "MESSAGE"
      /\ c = "user" => auth = "user"
  BY <1>1 DEF Within
<1>3. k \in Negative \/ (k \in Granting(c) /\ MayGrant(c))
  BY DEF Answers
<1>4. c \notin {"connect", "EHLO", "HELP", "ETRN"} => buf = one
  BY DEF OneReply
<1>5. \A S : Has(Head(buf), S) <=> k \in S
  BY DEF OneReply, ReplyLine, Has
<1>6. srv \in {"start", "ready", "mail", "rcpt", "data"}
  BY <1>1 DEF TypeOK, DialogueTypeOK
<1>7. ASSUME NEW m, NEW l, Heard(m, parse, l), l \notin {"AUTH", "USER"}, c # "eom",
             AuthAfter(c, granted) = "none", NEW s, SrvAfter(c, granted) = s,
             s # "data", s # "bye" => m = MailOf[s]
      PROVE  Follows(c, k)
  <2>1. parse # "MESSAGE" /\ cliBuf = <<>>
    BY <1>1, <1>2, <1>7
  <2> QED BY <1>7, <2>1 DEF Follows, Heard
<1>8. c # "AUTH" /\ c # "user" => AuthAfter(c, granted) = "none"
  BY DEF AuthAfter
\* A reply that grants nothing leaves everything in place.
<1>9. ASSUME Heard(mail, parse, last), SrvAfter(c, granted) = srv, c # "AUTH", c # "user", c # "eom",
             last \notin {"AUTH", "USER"}
      PROVE  Follows(c, k)
  BY <1>1, <1>2, <1>7, <1>8, <1>9
<1> HIDE DEF one, granted
<1>10. CASE c = "HELO"
  <2>1. last = "HELO" /\ HeloAck(one) /\ buf = one
    BY <1>2, <1>4, <1>10 DEF EventOf, ParseSmtpAck
  <2>2. CASE k = 250
    <3>1. Heard("HELO", parse, last)
      BY <1>1, <1>5, <2>1, <2>2, ReplyHeard DEF HeloAck, one
    <3>2. SrvAfter(c, granted) = "ready"
      BY <1>10, <2>2 DEF SrvAfter, Granting, granted
    <3> QED BY <1>7, <1>8, <1>10, <2>1, <3>1, <3>2 DEF MailOf
  <2>3. CASE k # 250
    <3>1. Heard(mail, parse, last)
      BY <1>1, <1>5, <2>1, <2>3, ReplyHeard DEF HeloAck, Unchanged, one
    <3>2. SrvAfter(c, granted) = srv
      BY <1>10, <2>3 DEF SrvAfter, Granting, granted
    <3> QED BY <1>9, <1>10, <2>1, <3>1, <3>2
  <2> QED BY <2>2, <2>3
<1>11. CASE c = "EHLO"
  <2>1. last = "EHLO" /\ EhloAck(buf)
    BY <1>2, <1>11 DEF EventOf, ParseSmtpAck
  <2>2. CASE k = 250
    <3>1. PICK n \in FinalLine(buf) : Analyse(Answered("HELO", parse, last, buf, n))
      BY <1>5, <2>1, <2>2, FinalLineOfReply DEF EhloAck
    <3>2. Heard("HELO", parse, last)
      BY <1>1, <2>2, <3>1, LinesHeard
    <3>3. SrvAfter(c, granted) = "ready"
      BY <1>11, <2>2 DEF SrvAfter, Granting, granted
    <3> QED BY <1>7, <1>8, <1>11, <2>1, <3>2, <3>3 DEF MailOf
  <2>3. CASE k # 250
    <3>1. buf = one
      BY <1>11, <2>3 DEF OneReply, one
    <3>2. Heard(mail, parse, last)
      BY <1>1, <1>5, <2>1, <2>3, <3>1, ReplyHeard DEF EhloAck, Unchanged, one
    <3>3. SrvAfter(c, granted) = srv
      BY <1>11, <2>3 DEF SrvAfter, Granting, granted
    <3> QED BY <1>9, <1>11, <2>1, <3>2, <3>3
  <2> QED BY <2>2, <2>3
<1>12. CASE c = "AUTH"
  <2>1. last = "AUTH" /\ AuthAck(one)
    BY <1>2, <1>4, <1>12 DEF EventOf, ParseSmtpAck
  <2>2. srv # "data" /\ parse # "MESSAGE" /\ SrvAfter(c, granted) = srv
    BY <1>2, <1>12 DEF SrvAfter
  <2>3. CASE k = 334
    <3>1. Heard(mail, parse, last)
      <4>1. Has(Head(one), {235, 334})
        BY <1>4, <1>5, <1>12, <2>3
      <4>2. ~Has(Head(one), Negative)
        <5>1. k \notin Negative
          BY <2>3 DEF Negative
        <5> QED BY <1>4, <1>5, <1>12, <5>1
      <4>3. Reply(mail, parse, last, one)
        BY <2>1, <4>1, <4>2 DEF AuthAck, Unchanged
      <4> QED BY <1>1, <4>3, ReplyHeard DEF one
    <3>2. AuthAfter(c, granted) = "user" /\ srv = "ready"
      BY <1>3, <1>12, <2>3 DEF AuthAfter, Granting, MayGrant, Negative, granted
    <3> QED BY <1>1, <2>1, <2>2, <3>1, <3>2 DEF Follows, Heard, granted
  <2>4. CASE k # 334
    <3>1. k \in Negative
      BY <1>3, <1>12, <2>4 DEF Granting
    <3>2. Heard(mail, parse, "UNCERTAIN")
      <4>1. ~Has(Head(one), {235, 334})
        BY <1>4, <1>5, <1>12, <3>1 DEF Negative
      <4>2. Has(Head(one), Negative)
        BY <1>4, <1>5, <1>12, <3>1
      <4>3. Reply(mail, parse, "UNCERTAIN", one)
        BY <2>1, <4>1, <4>2 DEF AuthAck
      <4> QED BY <1>1, <4>3, ReplyHeard DEF one
    <3>3. AuthAfter(c, granted) = "none"
      BY <1>12, <2>4 DEF AuthAfter, Granting, granted
    <3> QED BY <1>1, <1>7, <1>12, <2>2, <3>2, <3>3
  <2> QED BY <2>3, <2>4
<1>13. CASE c = "user"
  <2>1. last = "USER" /\ UserAck(one)
    BY <1>2, <1>4, <1>13 DEF EventOf, ParseSmtpAck
  <2>2. /\ srv = "ready" /\ parse # "MESSAGE" /\ SrvAfter(c, granted) = srv
    BY <1>1, <1>2, <1>13 DEF SrvAfter
  <2>3. CASE k = 334
    <3>1. Heard(mail, parse, last)
      <4>1. ~Has(Head(one), Negative)
        <5>1. k \notin Negative
          BY <2>3 DEF Negative
        <5> QED BY <1>4, <1>5, <1>13, <5>1
      <4>2. Reply(mail, parse, last, one)
        BY <2>1, <4>1 DEF UserAck
      <4> QED BY <1>1, <4>2, ReplyHeard DEF one
    <3>2. AuthAfter(c, granted) = "pass"
      BY <1>13, <2>3 DEF AuthAfter, Granting, granted
    <3> QED BY <1>1, <2>1, <2>2, <3>1, <3>2 DEF Follows, Heard, granted
  <2>4. CASE k # 334
    <3>1. k \in Negative
      BY <1>3, <1>13, <2>4 DEF Granting
    <3>2. Heard(mail, parse, "UNCERTAIN")
      BY <1>1, <1>4, <1>5, <1>13, <2>1, <3>1, ReplyHeard DEF UserAck, one
    <3>3. AuthAfter(c, granted) = "none"
      BY <1>13, <2>4 DEF AuthAfter, Granting, granted
    <3> QED BY <1>1, <1>7, <1>13, <2>2, <3>2, <3>3
  <2> QED BY <2>3, <2>4
<1>14. CASE c = "pass"
  <2>1. last = "PASSWD" /\ PasswdAck(one) /\ SrvAfter(c, granted) = srv
    BY <1>2, <1>4, <1>14 DEF EventOf, ParseSmtpAck, SrvAfter
  <2>2. PICK l \in {"UNCERTAIN", "PASSWD"} : Heard(mail, parse, l)
    BY <1>1, <1>4, <1>14, <2>1, ReplyHeard DEF PasswdAck, one
  <2> QED BY <1>1, <1>2, <1>7, <1>8, <1>14, <2>1, <2>2
<1>15. CASE c = "MAIL"
  <2>1. last = "MAIL" /\ MailAck(one)
    BY <1>2, <1>4, <1>15 DEF EventOf, ParseSmtpAck
  <2>2. CASE k = 250
    <3>1. Heard("MAIL", parse, last)
      BY <1>1, <1>4, <1>5, <1>15, <2>1, <2>2, ReplyHeard DEF MailAck, one
    <3>2. SrvAfter(c, granted) = "mail"
      BY <1>15, <2>2 DEF SrvAfter, Granting, granted
    <3> QED BY <1>7, <1>8, <1>15, <2>1, <3>1, <3>2 DEF MailOf
  <2>3. CASE k # 250
    <3>1. Heard(mail, parse, last)
      BY <1>1, <1>4, <1>5, <1>15, <2>1, <2>3, ReplyHeard DEF MailAck, Unchanged, one
    <3>2. SrvAfter(c, granted) = srv
      BY <1>15, <2>3 DEF SrvAfter, Granting, granted
    <3> QED BY <1>9, <1>15, <2>1, <3>1, <3>2
  <2> QED BY <2>2, <2>3
<1>16. CASE c \in {"SEND", "SOML", "SAML"}
  <2>1. last \in {"SEND", "SOML"} /\ Unchanged(one)
    BY <1>2, <1>4, <1>16 DEF EventOf, ParseSmtpAck, SendAck, SomlAck
  <2>2. Heard(mail, parse, last)
    BY <1>1, <2>1, ReplyHeard DEF Unchanged, one
  <2>3. SrvAfter(c, granted) = srv
    BY <1>16 DEF SrvAfter, Unfollowed, granted
  <2> QED BY <1>9, <1>16, <2>1, <2>2, <2>3
<1>17. CASE c = "RCPT"
  <2>1. last = "RCPT" /\ RcptAck(one)
    BY <1>2, <1>4, <1>17 DEF EventOf, ParseSmtpAck
  <2>2. CASE k \in {250, 251}
    <3>1. Heard("RCPT", parse, last)
      BY <1>1, <1>4, <1>5, <1>17, <2>1, <2>2, ReplyHeard DEF RcptAck, one
    <3>2. SrvAfter(c, granted) = "rcpt"
      BY <1>17, <2>2 DEF SrvAfter, Granting, granted
    <3> QED BY <1>7, <1>8, <1>17, <2>1, <3>1, <3>2 DEF MailOf
  <2>3. CASE k \notin {250, 251}
    <3>1. Heard(mail, parse, last)
      BY <1>1, <1>4, <1>5, <1>17, <2>1, <2>3, ReplyHeard DEF RcptAck, Unchanged, one
    <3>2. SrvAfter(c, granted) = srv
      BY <1>17, <2>3 DEF SrvAfter, Granting, granted
    <3> QED BY <1>9, <1>17, <2>1, <3>1, <3>2
  <2> QED BY <2>2, <2>3
<1>18. CASE c \in {"VRFY", "EXPN"}
  <2>1. /\ last = c /\ buf = one
        /\ last = "VRFY" => VrfyAck(one)
        /\ last = "EXPN" => ExpnAck(buf)
        /\ SrvAfter(c, granted) = srv
    BY <1>2, <1>4, <1>18 DEF EventOf, ParseSmtpAck, SrvAfter
  <2>2. Head(one).more = FALSE /\ one # <<>>
    BY DEF one, ReplyLine
  <2>3. CASE Unchanged(one)
    BY <1>1, <1>9, <1>18, <2>1, <2>3, ReplyHeard DEF Unchanged, one
  <2>4. CASE Fail("mailbox")
    BY <2>4 DEF Fail, Close, Follows
  <2>5. CASE ReplyLost
    <3>1. Heard(mail, parse, last)
      BY <1>1, <2>5 DEF ReplyLost, Heard
    <3> QED BY <1>9, <1>18, <2>1, <3>1
  <2>6. CASE k = 250 /\ \E n \in FinalLine(buf) : Analyse(Answered(mail, parse, last, buf, n))
    <3>1. Heard(mail, parse, last)
      BY <1>1, <2>6, LinesHeard
    <3> QED BY <1>9, <1>18, <2>1, <3>1
  <2>7. k = 250 => FinalLine(buf) # {}
    BY FinalLineOfReply
  <2>8. \/ Unchanged(one) \/ Fail("mailbox") \/ ReplyLost
        \/ k = 250 /\ \E n \in FinalLine(buf) : Analyse(Answered(mail, parse, last, buf, n))
    BY <1>5, <1>18, <2>1, <2>2, <2>7 DEF VrfyAck, ExpnAck
  <2> QED BY <2>3, <2>4, <2>5, <2>6, <2>8
<1>19. CASE c = "DATA"
  <2>1. last = "DATA" /\ DataAck(one)
    BY <1>2, <1>4, <1>19 DEF EventOf, ParseSmtpAck
  <2>2. CASE k = 354
    <3>1. Heard("DATA", "MESSAGE", last)
      BY <1>1, <1>4, <1>5, <1>19, <2>1, <2>2, ReplyHeard DEF DataAck, one
    <3>2. SrvAfter(c, granted) = "data" /\ AuthAfter(c, granted) = "none"
      BY <1>19, <2>2 DEF SrvAfter, AuthAfter, Granting, granted
    <3> QED BY <2>1, <3>1, <3>2 DEF Follows, Heard, MailOf, granted
  <2>3. CASE k # 354
    <3>1. Heard(mail, parse, last)
      BY <1>1, <1>4, <1>5, <1>19, <2>1, <2>3, ReplyHeard DEF DataAck, Unchanged, one
    <3>2. SrvAfter(c, granted) = srv
      BY <1>19, <2>3 DEF SrvAfter, Granting, granted
    <3> QED BY <1>9, <1>19, <2>1, <3>1, <3>2
  <2> QED BY <2>2, <2>3
<1>20. CASE c = "RSET"
  <2>1. last = "RSET" /\ RsetAck(one) /\ srv # "data"
    BY <1>2, <1>4, <1>20 DEF EventOf, ParseSmtpAck
  <2>2. CASE k = 250
    <3> DEFINE s == IF srv = "start" THEN "start" ELSE "ready"
    <3>1. MailOf[s] = IF mail = "ORIGN" THEN "ORIGN" ELSE "HELO"
      BY <1>1, <1>6 DEF MailOf
    <3>2. Heard(MailOf[s], parse, last)
      <4>1. Reply(IF mail = "ORIGN" THEN "ORIGN" ELSE "HELO", parse, last, one)
        BY <1>4, <1>5, <1>20, <2>1, <2>2 DEF RsetAck
      <4>2. Heard(IF mail = "ORIGN" THEN "ORIGN" ELSE "HELO", parse, last)
        BY <1>1, <4>1, ReplyHeard DEF one
      <4> QED BY <3>1, <4>2
    <3>3. SrvAfter(c, granted) = s
      BY <1>20, <2>2 DEF SrvAfter, Granting, granted
    <3> QED BY <1>7, <1>8, <1>20, <2>1, <3>2, <3>3
  <2>3. CASE k # 250
    <3>1. Heard(mail, parse, last)
      BY <1>1, <1>4, <1>5, <1>20, <2>1, <2>3, ReplyHeard DEF RsetAck, Unchanged, one
    <3>2. SrvAfter(c, granted) = srv
      BY <1>20, <2>3 DEF SrvAfter, Granting, granted
    <3> QED BY <1>9, <1>20, <2>1, <3>1, <3>2
  <2> QED BY <2>2, <2>3
<1>21. CASE c = "QUIT"
  <2>1. last = "QUIT" /\ Unchanged(one)
    BY <1>2, <1>4, <1>21 DEF EventOf, ParseSmtpAck, QuitAck
  <2>2. Heard(mail, parse, last)
    BY <1>1, <2>1, ReplyHeard DEF Unchanged, one
  <2>3. SrvAfter(c, granted) \in {srv, "bye"}
    BY <1>21 DEF SrvAfter
  <2> QED BY <1>1, <1>2, <1>7, <1>8, <1>21, <2>1, <2>2, <2>3
<1>22. CASE c = "eom"
  <2>1. last = "EOM" /\ MsgAck(one) /\ k = 250 /\ cliBuf = <<>>
    BY <1>2, <1>4, <1>22 DEF EventOf, ParseSmtpAck, Unfollowed
  <2>2. Heard("HELO", "COMMAND", last)
    BY <1>1, <1>4, <1>5, <1>22, <2>1, ReplyHeard DEF MsgAck, one
  <2>3. SrvAfter(c, granted) = "ready" /\ AuthAfter(c, granted) = "none"
    BY <1>22 DEF SrvAfter, AuthAfter
  <2> QED BY <2>1, <2>2, <2>3 DEF Follows, Heard, MailOf, granted
<1>23. CASE c \in Skipped \cup {"connect"}
  <2>1. last \in Skipped \cup {"UNCERTAIN"} /\ OtherAck(buf)
    BY <1>2, <1>23 DEF EventOf, ParseSmtpAck, Skipped
  <2>2. Heard(mail, parse, last)
    BY <1>1, <2>1, OtherHeard
  <2>3. SrvAfter(c, granted) = srv
    BY <1>23 DEF SrvAfter, Unfollowed, Skipped, granted
  <2> QED BY <1>9, <1>23, <2>1, <2>2, <2>3 DEF Skipped
<1> QED BY <1>2, <1>10, <1>11, <1>12, <1>13, <1>14, <1>15, <1>16, <1>17, <1>18, <1>19,
           <1>20, <1>21, <1>22, <1>23 DEF Verbs, Skipped

\* What an orderly reply delivers.
LEMMA OrderlyDelivery ==
  ASSUME NEW c, NEW k, NEW d \in Deliveries(k), OrderlyReply(c, k, d[1])
  PROVE  OneReply(c, k, d[1]) /\ d[2] = <<>> /\ d[1] # <<>>
<1> DEFINE l == ReplyLine(k, FALSE, "whole") m == ReplyLine(k, TRUE, "whole")
           h == ReplyLine(k, FALSE, "head") t == ReplyLine(k, FALSE, "tail")
<1>1. l # m /\ l # h
  BY DEF ReplyLine
<1>2. \/ d = << <<l>>, <<>> >> \/ d = << <<m, l>>, <<>> >>
      \/ d = << <<h>>, <<t>> >> \/ d = << <<m>>, <<l>> >>
  BY DEF Deliveries
<1>3. \/ Len(d[1]) = 1 /\ d[1][1] = l
      \/ Len(d[1]) = 2 /\ c \in {"connect", "EHLO", "HELP", "ETRN"} /\ (c = "EHLO" => k = 250)
  BY DEF OrderlyReply
<1> HIDE DEF l, m, h, t
<1>4. \/ (d[1] = <<l>> /\ d[2] = <<>>) \/ (d[1] = <<m, l>> /\ d[2] = <<>>)
      \/ (d[1] = <<h>> /\ d[2] = <<t>>) \/ (d[1] = <<m>> /\ d[2] = <<l>>)
  BY <1>2
<1>5. d[1] # <<h>> /\ d[1] # <<m>>
  BY <1>1, <1>3, Singleton
<1>6. <<m, l>> # <<>> /\ <<l>> # <<>> /\ Len(<<m, l>>) = 2 /\ Len(<<l>>) = 1
  OBVIOUS
<1>7. OneReply(c, k, d[1]) <=>
        \/ d[1] = <<l>>
        \/ d[1] = <<m, l>> /\ c \in {"connect", "EHLO", "HELP", "ETRN"} /\ (c = "EHLO" => k = 250)
  BY DEF OneReply, l, m
<1>8. CASE d[1] = <<l>> /\ d[2] = <<>>
  BY <1>6, <1>7, <1>8
<1>9. CASE d[1] = <<m, l>> /\ d[2] = <<>>
  <2>1. ~(Len(d[1]) = 1)
    BY <1>6, <1>9
  <2> QED BY <1>3, <1>6, <1>7, <1>9, <2>1
<1> QED BY <1>4, <1>5, <1>8, <1>9

\* An orderly reply keeps the tracker in step.
LEMMA ReplyInStep ==
  ASSUME TypeOK, InStep, open, ServerReplies
  PROVE  InStep'
<1> SUFFICES ASSUME orderly' PROVE InStep'
  BY DEF InStep
<1> DEFINE c == Head(asked)
           Step(k, d) == /\ asked' = Tail(asked)
                         /\ srv' = SrvAfter(c, k \in Granting(c))
                         /\ auth' = AuthAfter(c, k \in Granting(c))
                         /\ svrOwed' = d[2]
                         /\ orderly' = (orderly /\ OrderlyReply(c, k, d[1]) /\ ServerFits(d[1]))
                         /\ UNCHANGED cliOwed
                         /\ ServerSegment(d[1])
<1>0. PICK k \in Answers(c) : \E d \in Deliveries(k) : Step(k, d)
  BY DEF ServerReplies
<1>1. PICK d \in Deliveries(k) : Step(k, d)
  BY <1>0
<1>2. orderly /\ OrderlyReply(c, k, d[1]) /\ ServerFits(d[1]) /\ asked # <<>>
  BY <1>1 DEF ServerReplies
<1>3. OneReply(c, k, d[1]) /\ d[2] = <<>> /\ ~Unfollowed(c, k)
  <2>1. ~Unfollowed(c, k)
    BY <1>2 DEF OrderlyReply
  <2> HIDE DEF Step
  <2> QED BY <1>2, <2>1, OrderlyDelivery
<1>4. svrBuf = <<>> /\ cliOwed = <<>> /\ Len(asked) = 1
  BY <1>2 DEF InStep, Within
<1>5. ParseSmtpAck(d[1])
  <2>1. Joined(svrBuf, d[1]) = d[1]
    <3>1. d[1] = <<ReplyLine(k, FALSE, "whole")>>
            \/ d[1] = <<ReplyLine(k, TRUE, "whole"), ReplyLine(k, FALSE, "whole")>>
      BY <1>3 DEF OneReply
    <3> HIDE DEF Step
    <3> QED BY <1>4, <3>1 DEF Joined
  <2> QED BY <1>1, <1>2, <2>1 DEF ServerSegment
<1>6. Follows(c, k)
  BY <1>2, <1>3, <1>5, AckFollows
<1>7. asked' = <<>>
  <2>1. asked \in Seq(ClientLines \cup {"connect"})
    BY DEF TypeOK, DialogueTypeOK
  <2>2. Tail(asked) \in Seq(ClientLines \cup {"connect"}) /\ Len(Tail(asked)) = 0
    BY <1>2, <1>4, <2>1, HeadTailProperties
  <2> QED BY <1>1, <2>2, EmptySeq
<1> QED BY <1>1, <1>3, <1>4, <1>6, <1>7 DEF InStep, Follows, Between

\* As long as the dialogue is orderly, the two halves are in step.
THEOREM StaysInStep == Spec => []InStep
<1>1. Init => InStep
  BY DisabledAssumption DEF Init, InStep, Within, EventOf, MailOf
<1>2. TypeOK /\ InStep /\ [Next]_vars => InStep'
  <2> SUFFICES ASSUME TypeOK, InStep, [Next]_vars PROVE InStep'
    OBVIOUS
  <2>1. CASE open /\ ClientData
    BY <2>1, ClientInStep
  <2>2. CASE open /\ ServerReplies
    BY <2>2, ReplyInStep
  <2>3. CASE ServerCoalesces \/ ServerResumes
    BY <2>3 DEF ServerCoalesces, ServerResumes, InStep
  <2>4. CASE Teardown
    BY <2>4 DEF Teardown, Fail, Close, dialogue, InStep
  <2>5. CASE UNCHANGED vars
    BY <2>5 DEF vars, tracker, dialogue, InStep, Between, Within
  <2> QED BY <2>1, <2>2, <2>3, <2>4, <2>5 DEF Next
<1> QED BY <1>1, <1>2, TypeCorrect, PTL DEF Spec

\* mail_state, curr_parse_state and the AUTH LOGIN state say where the server
\* is: what the rules on mail_state and the choice of parser rest on.
THEOREM TrackerAgrees == Spec => []Agreement
<1>1. TypeOK /\ InStep => Agreement
  <2> SUFFICES ASSUME TypeOK, InStep PROVE Agreement
    OBVIOUS
  <2> QED BY DEF Agreement, InStep, Between
<1> QED BY <1>1, TypeCorrect, StaysInStep, PTL

\* Each reply is given to the parser of the command it answers.
THEOREM RepliesAttributed == Spec => []Attribution
<1>1. InStep => Attribution
  BY DEF Attribution, InStep, Within
<1> QED BY <1>1, StaysInStep, PTL

-----------------------------------------------------------------------------
(***************************************************************************)
(* What can end an orderly session (NoSpuriousClose): the causes a handler *)
(* closes for, and which of them the orderly dialogues leave.              *)
(***************************************************************************)
\* The rules denied the event, or failed on it.
Denied == why' = "policy" /\ ("error" \in Verdicts \/ Blocked(permit'))

LEMMA RecordedCloses ==
  ASSUME open, ~open', NEW e, NEW buf, Analyse(Recorded(e, buf))
  PROVE  Denied
BY DEF Analyse, Close, Denied

LEMMA AnsweredCloses ==
  ASSUME open, ~open', NEW m, NEW p, NEW l, NEW buf, NEW n, Analyse(Answered(m, p, l, buf, n))
  PROVE  Denied
BY DEF Analyse, Close, Denied

LEMMA ReplyCloses ==
  ASSUME open, ~open', NEW m, NEW p, NEW l, NEW buf, Reply(m, p, l, buf)
  PROVE  why' = "parse" \/ Denied
BY AnsweredCloses DEF Reply, Fail, Close

LEMMA CommandCloses ==
  ASSUME open, ~open', NEW buf, ParseSmtpCommand(buf)
  PROVE  \/ why' = "parse"
         \/ Denied
         \/ why' = "policy" /\ Head(buf).line \in Disabled
         \/ why' = "undefined" /\ Head(buf).line \in Skipped \cup {"NOOP"}
<1>1. ASSUME NEW r, Fail(r) PROVE why' = r
  BY <1>1 DEF Fail, Close
<1>2. ASSUME NEW l, Forgotten(l) PROVE FALSE
  BY <1>2 DEF Forgotten
<1>3. ASSUME NEW e, AuthLine(e, buf) PROVE why' = "parse" \/ Denied
  BY <1>1, <1>3, RecordedCloses DEF AuthLine
<1>4. ASSUME NEW e, NEW l, ParseCommand(e, l, buf) PROVE why' = "parse" \/ Denied
  BY <1>1, <1>2, <1>4, RecordedCloses DEF ParseCommand
<1>5. ASSUME SkippedCmd(buf)
      PROVE  why' = "undefined" /\ Head(buf).line \in Skipped \cup {"NOOP"}
  BY <1>1, <1>5 DEF SkippedCmd
<1>6. ASSUME VrfyCmd(buf) \/ ExpnCmd(buf)
      PROVE  why' = "parse" \/ Denied \/ (why' = "policy" /\ Head(buf).line \in Disabled)
  BY <1>1, <1>4, <1>6 DEF VrfyCmd, ExpnCmd
<1>7. ASSUME HeloCmd(buf) PROVE why' = "parse" \/ Denied
  BY <1>2, <1>4, <1>7 DEF HeloCmd
<1> QED BY <1>1, <1>3, <1>4, <1>5, <1>6, <1>7 DEF ParseSmtpCommand, UserCmd, PasswdCmd, EhloCmd,
       AuthCmd, MailCmd, RcptCmd, DataCmd, RsetCmd, QuitCmd, SendCmd, SomlCmd

LEMMA MessageCloses ==
  ASSUME open, ~open', NEW buf, ParseSmtpMessage(buf)
  PROVE  Denied \/ why' = "corrupt"
<1>1. ASSUME NEW p, MessageEnded(p) PROVE FALSE
  BY <1>1 DEF MessageEnded
<1>2. ASSUME NEW t, NEW e, Blocked(permit \cup Bits[t]) PROVE Blocked(permit \cup Bits[t] \cup Bits[e])
  BY <1>2 DEF Blocked
<1>3. CASE MessageGoesOn(buf)
  BY <1>3 DEF MessageGoesOn, Fail, Close, Denied
<1>4. CASE MessageEnds(buf)
  BY <1>1, <1>2, <1>4 DEF MessageEnds, Fail, Close, Denied
<1> QED BY <1>3, <1>4 DEF ParseSmtpMessage

LEMMA AckCloses ==
  ASSUME open, ~open', NEW buf, ParseSmtpAck(buf)
  PROVE  \/ why' = "parse"
         \/ Denied
         \/ why' = "mailbox" /\ last \in {"VRFY", "EXPN"}
<1>1. ASSUME NEW r, Fail(r) PROVE why' = r
  BY <1>1 DEF Fail, Close
<1>2. ASSUME NEW m, NEW p, NEW l, Reply(m, p, l, buf) PROVE why' = "parse" \/ Denied
  BY <1>2, ReplyCloses
<1>3. ASSUME NEW m, NEW n, Analyse(Answered(m, parse, last, buf, n)) PROVE Denied
  BY <1>3, AnsweredCloses
<1>4. Unchanged(buf) => why' = "parse" \/ Denied
  BY <1>2 DEF Unchanged
<1>5. CASE last \in {"VRFY", "EXPN"}
  <2>1. VrfyAck(buf) \/ ExpnAck(buf)
    BY <1>5 DEF ParseSmtpAck
  <2>2. ReplyLost => FALSE
    BY DEF ReplyLost
  <2> QED BY <1>1, <1>3, <1>4, <1>5, <2>1, <2>2 DEF VrfyAck, ExpnAck
<1>6. CASE OtherAck(buf)
  BY <1>1, <1>6 DEF OtherAck, Analyse, Close, Denied
<1>7. CASE last \notin {"VRFY", "EXPN"} /\ ~OtherAck(buf)
  <2>1. \/ HeloAck(buf) \/ EhloAck(buf) \/ MailAck(buf) \/ Unchanged(buf) \/ RcptAck(buf)
        \/ RsetAck(buf) \/ AuthAck(buf) \/ UserAck(buf) \/ PasswdAck(buf) \/ DataAck(buf)
        \/ MsgAck(buf)
    BY <1>7 DEF ParseSmtpAck, SendAck, SomlAck, SamlAck, QuitAck
  <2>2. AuthAck(buf) \/ UserAck(buf) \/ PasswdAck(buf) => why' = "parse" \/ Denied
    BY <1>1, <1>2, <1>4 DEF AuthAck, UserAck, PasswdAck
  <2>3. HeloAck(buf) \/ MailAck(buf) \/ RcptAck(buf) \/ RsetAck(buf) => why' = "parse" \/ Denied
    BY <1>2, <1>4 DEF HeloAck, MailAck, RcptAck, RsetAck
  <2>4. EhloAck(buf) \/ DataAck(buf) \/ MsgAck(buf) => why' = "parse" \/ Denied
    BY <1>1, <1>2, <1>3, <1>4 DEF EhloAck, DataAck, MsgAck
  <2> QED BY <1>4, <2>1, <2>2, <2>3, <2>4
<1> QED BY <1>5, <1>6, <1>7

\* A client step that ends an orderly session does so for one of its causes.
LEMMA ClientEnds ==
  ASSUME TypeOK, InStep, InStep', open, ClientData, orderly', ~open'
  PROVE  Ends(why')
<1>1. PICK seg \in ClientSegments :
         LET t == seg[Len(seg)] IN
         /\ asked' = IF Len(seg) = 1 THEN Awaiting(asked, t)
                     ELSE Awaiting(Awaiting(asked, seg[1]), t)
         /\ orderly' = (orderly /\ OrderlySegment(seg) /\ ClientFits(seg))
         /\ IF ClientFits(seg) THEN ParseSmtpClient(Joined(cliBuf, seg))
            ELSE UNCHANGED tracker
  BY DEF ClientData
<1>2. orderly /\ OrderlySegment(seg) /\ ClientFits(seg)
  BY <1>1
<1>3. PICK t \in NextTokens(<<>>) :
                   /\ seg = <<t>> /\ t.form = "whole" /\ t.line \in NextLines(<<>>)
                   /\ t.line \notin {"junk", "NOOP"}
                   /\ t.line = "HELO" => "HELO" \notin Disabled
  BY <1>2, OrderlyToken
<1>4. asked = <<>> /\ srv # "bye"
  <2>1. srv = "bye" => NextLines(<<>>) = {}
    BY DEF NextLines
  <2>2. asked = <<>>
    BY <1>2 DEF OrderlySegment
  <2> QED BY <1>3, <2>1, <2>2
<1>5. Between /\ (parse # "MESSAGE" => cliBuf = <<>>) /\ why' # "parse"
  BY <1>2, <1>4 DEF InStep
<1>6. t \in ClientTokens /\ cliBuf \in Seq(ClientTokens)
  BY <1>3, TokensType DEF TypeOK, TrackerTypeOK
<1>7. asked' = Awaiting(<<>>, t) /\ ParseSmtpClient(Joined(cliBuf, <<t>>))
  BY <1>1, <1>2, <1>3, <1>4, Singleton
<1>8. CASE parse = "MESSAGE"
  <2>1. srv = "data"
    BY <1>5, <1>8 DEF Between
  <2>2. Denied \/ why' = "corrupt"
    BY <1>7, <1>8, MessageCloses DEF ParseSmtpClient
  <2> QED BY <1>4, <2>1, <2>2 DEF Ends, Denied
<1>9. CASE parse # "MESSAGE"
  <2>1. ParseSmtpCommand(<<t>>)
    BY <1>3, <1>5, <1>6, <1>7, <1>9, JoinedWhole DEF ParseSmtpClient
  <2>2. Head(<<t>>) = t
    OBVIOUS
  <2>3. \/ Denied
        \/ why' = "policy" /\ t.line \in Disabled
        \/ why' = "undefined" /\ t.line \in Skipped
    BY <1>3, <1>5, <2>1, <2>2, CommandCloses
  <2>4. t.line \in Disabled \cup Skipped => asked' = <<t.line>>
    BY <1>3, <1>7, DisabledAssumption DEF Awaiting, Skipped
  <2> QED BY <1>4, <2>3, <2>4 DEF Ends, Denied
<1> QED BY <1>8, <1>9

\* A reply that ends an orderly session does so for one of its causes.
LEMMA ReplyEnds ==
  ASSUME TypeOK, InStep, InStep', open, ServerReplies, orderly', ~open'
  PROVE  Ends(why')
<1>1. PICK seg : ServerSegment(seg) /\ orderly /\ asked # <<>>
  BY DEF ServerReplies
<1>2. \E buf : ParseSmtpAck(buf)
  BY <1>1 DEF ServerSegment, tracker
<1>3. why' # "parse" /\ last = EventOf(Head(asked))
      /\ Head(asked) \in (Verbs \ {"NOOP"}) \cup {"connect", "user", "pass", "eom"}
  BY <1>1 DEF InStep, Within
<1>4. Denied \/ (why' = "mailbox" /\ last \in {"VRFY", "EXPN"})
  BY <1>2, <1>3, AckCloses
<1>5. last \in {"VRFY", "EXPN"} => Head(asked) \in {"VRFY", "EXPN"}
  BY <1>3 DEF EventOf, Verbs
<1> QED BY <1>1, <1>4, <1>5 DEF Ends, Denied

\* No orderly dialogue loses its session but to the peers, to the rules, to a
\* refused mailbox in the reply to VRFY or EXPN, to a command whose result is
\* never set, or to message content sent while the server reads a message.
THEOREM NeverSpuriouslyClosed == Spec => NoSpuriousClose
<1>1. ASSUME TypeOK, InStep, InStep', [Next]_vars
      PROVE  [orderly' /\ open /\ ~open' => Ends(why')]_vars
  <2> SUFFICES ASSUME Next, orderly', open, ~open' PROVE Ends(why')
    BY <1>1
  <2>1. CASE ClientData
    BY <1>1, <2>1, ClientEnds
  <2>2. CASE ServerReplies
    BY <1>1, <2>2, ReplyEnds
  <2>3. CASE ServerCoalesces \/ ServerResumes
    BY <2>3 DEF ServerCoalesces, ServerResumes
  <2>4. CASE Teardown
    BY <2>4 DEF Teardown, Fail, Close, Ends
  <2> QED BY <2>1, <2>2, <2>3, <2>4 DEF Next
<1> QED BY <1>1, TypeCorrect, StaysInStep, PTL DEF Spec, NoSpuriousClose

-----------------------------------------------------------------------------
\* A command that is switched off is never one the server is asked.
THEOREM DisabledNeverPasses == Spec => []DisabledRefused
<1>1. InStep => DisabledRefused
  BY DEF DisabledRefused, InStep, Within
<1> QED BY <1>1, StaysInStep, PTL

-----------------------------------------------------------------------------
(***************************************************************************)
(* What a denied session can still do, in every dialogue, orderly or not:  *)
(* where it survives (DeniedOnlyInGaps), and that no reply counts any more *)
(* (DeniedNeverAdvances).                                                  *)
(***************************************************************************)
\* While the tracker reads a message, the last event is one of the message's
\* own or DATA: replies go to DataAck, OtherAck or MsgAck.
InMessage == open /\ parse = "MESSAGE" => last \in MessageEvents

DeniedInv == TypeOK /\ InMessage /\ DeniedOnlyInGaps

\* What every handler does to a session in DeniedInv.
Contained ==
  /\ InMessage' /\ DeniedOnlyInGaps'
  /\ permit # {} /\ open' => mail' = mail /\ svrBuf' = svrBuf

\* A verdict after which permit does not block leaves permit empty.
LEMMA NotBlocked ==
  ASSUME permit \in SUBSET {"alert", "deny"}, NEW v \in Verdicts, ~Blocked(permit \cup Bits[v])
  PROVE  permit = {} /\ permit \cup Bits[v] = {}
<1>1. permit \cup Bits[v] \in SUBSET {"alert", "deny"}
  BY BitsType
<1>2. Bits["drop"] = {"alert", "deny"}
  BY DEF Bits
<1> QED BY <1>1, <1>2 DEF Blocked

LEMMA ClosedContained ==
  ASSUME NEW r, Close(r)
  PROVE  Contained
BY DEF Close, Contained, InMessage, DeniedOnlyInGaps

LEMMA RecordedContained ==
  ASSUME DeniedInv, open, parse # "MESSAGE", NEW e, NEW buf, Analyse(Recorded(e, buf))
  PROVE  Contained
<1>1. PICK v \in Verdicts :
       /\ permit' = permit \cup Bits[v]
       /\ IF v = "error" \/ Blocked(permit \cup Bits[v]) THEN Close("policy")
          ELSE Recorded(e, buf) /\ UNCHANGED <<open, why>>
  BY DEF Analyse
<1>2. CASE Close("policy")
  BY <1>2, ClosedContained
<1>3. CASE ~Blocked(permit \cup Bits[v]) /\ Recorded(e, buf)
  <2>1. permit' = {} /\ permit = {}
    BY <1>1, <1>3, NotBlocked DEF DeniedInv, TypeOK, TrackerTypeOK
  <2> QED BY <1>3, <2>1 DEF Recorded, Contained, InMessage, DeniedOnlyInGaps
<1> QED BY <1>1, <1>2, <1>3

LEMMA AnsweredContained ==
  ASSUME DeniedInv, open, NEW m, NEW p, NEW l, NEW buf, NEW n,
         p = "MESSAGE" => l \in MessageEvents, Analyse(Answered(m, p, l, buf, n))
  PROVE  Contained
<1>1. PICK v \in Verdicts :
       /\ permit' = permit \cup Bits[v]
       /\ IF v = "error" \/ Blocked(permit \cup Bits[v]) THEN Close("policy")
          ELSE Answered(m, p, l, buf, n) /\ UNCHANGED <<open, why>>
  BY DEF Analyse
<1>2. CASE Close("policy")
  BY <1>2, ClosedContained
<1>3. CASE ~Blocked(permit \cup Bits[v]) /\ Answered(m, p, l, buf, n)
  <2>1. permit' = {} /\ permit = {}
    BY <1>1, <1>3, NotBlocked DEF DeniedInv, TypeOK, TrackerTypeOK
  <2> QED BY <1>3, <2>1 DEF Answered, Contained, InMessage, DeniedOnlyInGaps
<1> QED BY <1>1, <1>2, <1>3

LEMMA ReplyContained ==
  ASSUME DeniedInv, open, NEW m, NEW p, NEW l, NEW buf,
         p = "MESSAGE" => l \in MessageEvents, Reply(m, p, l, buf)
  PROVE  Contained
<1>1. CASE Analyse(Answered(m, p, l, buf, 1))
  BY <1>1, AnsweredContained
<1>2. CASE Fail("parse")
  BY <1>2, ClosedContained DEF Fail
<1> QED BY <1>1, <1>2 DEF Reply

LEMMA UnchangedContained ==
  ASSUME DeniedInv, open, NEW buf, Unchanged(buf)
  PROVE  Contained
<1>1. parse = "MESSAGE" => last \in MessageEvents
  BY DEF DeniedInv, InMessage
<1> QED BY <1>1, ReplyContained DEF Unchanged

\* A command line that is dropped, or skipped, changes only its event.
LEMMA ForgottenContained ==
  ASSUME DeniedInv, open, parse # "MESSAGE", NEW e, e \in {last, "AUTH"}, Forgotten(e)
  PROVE  Contained
BY DEF Forgotten, Contained, DeniedInv, InMessage, DeniedOnlyInGaps

LEMMA ParseCommandContained ==
  ASSUME DeniedInv, open, parse # "MESSAGE", NEW e, NEW l, l \in {last, "AUTH"}, NEW buf,
         ParseCommand(e, l, buf)
  PROVE  Contained
<1>1. CASE Analyse(Recorded(e, buf))
  BY <1>1, RecordedContained
<1>2. CASE Fail("parse")
  BY <1>2, ClosedContained DEF Fail
<1>3. CASE Forgotten(l)
  BY <1>3, ForgottenContained
<1> QED BY <1>1, <1>2, <1>3 DEF ParseCommand

LEMMA CommandContained ==
  ASSUME DeniedInv, open, parse # "MESSAGE", NEW buf, ParseSmtpCommand(buf)
  PROVE  Contained
<1>1. ASSUME NEW e, AuthLine(e, buf) PROVE Contained
  <2>1. CASE Analyse(Recorded(e, buf))
    BY <2>1, RecordedContained
  <2>2. CASE Fail("parse")
    BY <2>2, ClosedContained DEF Fail
  <2> QED BY <1>1, <2>1, <2>2 DEF AuthLine
<1>2. ASSUME NEW r, Fail(r) PROVE Contained
  BY <1>2, ClosedContained DEF Fail
<1>3. ASSUME NEW e, NEW l \in {last, "AUTH"}, ParseCommand(e, l, buf) PROVE Contained
  BY <1>3, ParseCommandContained
<1>4. ASSUME SkippedCmd(buf) PROVE Contained
  <2>1. CASE Fail("undefined")
    BY <1>2, <2>1
  <2>2. CASE /\ last' \in {last} \cup Skipped
             /\ UNCHANGED <<open, parse, mail, permit, svrBuf>>
    BY <2>2 DEF Contained, DeniedInv, InMessage, DeniedOnlyInGaps
  <2> QED BY <1>4, <2>1, <2>2 DEF SkippedCmd
<1>5. Forgotten(last) => Contained
  BY ForgottenContained
<1> QED BY <1>1, <1>2, <1>3, <1>4, <1>5 DEF ParseSmtpCommand, UserCmd, PasswdCmd, HeloCmd, EhloCmd,
       AuthCmd, MailCmd, RcptCmd, DataCmd, RsetCmd, QuitCmd, SendCmd, SomlCmd, VrfyCmd, ExpnCmd

LEMMA MessageContained ==
  ASSUME DeniedInv, open, parse = "MESSAGE", NEW buf, ParseSmtpMessage(buf)
  PROVE  Contained
<1>1. last \in MessageEvents
  BY DEF DeniedInv, InMessage
<1>2. ASSUME NEW r, Fail(r) PROVE Contained
  BY <1>2, ClosedContained DEF Fail
<1>3. Close("policy") => Contained
  BY ClosedContained
<1>4. ASSUME NEW p \in {"MESSAGE", "COMMAND"}, MessageEnded(p) PROVE Contained
  BY <1>4 DEF MessageEnded, Contained, InMessage, DeniedOnlyInGaps, MessageEvents
<1>5. ASSUME last' \in {last, "EOT", "EOB"}, UNCHANGED <<open, why, parse, mail, svrBuf, svrOff>>
      PROVE  Contained
  BY <1>1, <1>5 DEF Contained, InMessage, DeniedOnlyInGaps, MessageEvents
<1> QED BY <1>2, <1>3, <1>4, <1>5 DEF ParseSmtpMessage, MessageGoesOn, MessageEnds

LEMMA AckContained ==
  ASSUME DeniedInv, open, NEW buf, ParseSmtpAck(buf)
  PROVE  Contained
<1>1. ASSUME NEW r, Fail(r) PROVE Contained
  BY <1>1, ClosedContained DEF Fail
<1>2. parse = "MESSAGE" => last \in MessageEvents
  BY DEF DeniedInv, InMessage
<1>3. ASSUME NEW m, Reply(m, parse, last, buf) PROVE Contained
  BY <1>2, <1>3, ReplyContained
<1>4. Unchanged(buf) => Contained
  BY UnchangedContained
<1>5. ASSUME NEW m, NEW n, Analyse(Answered(m, parse, last, buf, n)) PROVE Contained
  BY <1>2, <1>5, AnsweredContained
<1>6. CASE last \in {"HELO", "EHLO", "MAIL", "SEND", "SOML", "SAML", "RCPT", "RSET", "QUIT"}
  <2>1. \/ HeloAck(buf) \/ EhloAck(buf) \/ MailAck(buf) \/ Unchanged(buf) \/ RcptAck(buf)
        \/ RsetAck(buf)
    BY <1>6 DEF ParseSmtpAck, SendAck, SomlAck, SamlAck, QuitAck
  <2> QED BY <1>1, <1>3, <1>4, <1>5, <2>1 DEF HeloAck, EhloAck, MailAck, RcptAck, RsetAck
<1>7. CASE last \in {"AUTH", "USER", "PASSWD"}
  <2>1. parse # "MESSAGE"
    BY <1>2, <1>7 DEF MessageEvents
  <2>2. ASSUME NEW l, Reply(mail, parse, l, buf) PROVE Contained
    BY <2>1, <2>2, ReplyContained
  <2>3. AuthAck(buf) \/ UserAck(buf) \/ PasswdAck(buf)
    BY <1>7 DEF ParseSmtpAck
  <2> QED BY <1>1, <1>4, <2>2, <2>3 DEF AuthAck, UserAck, PasswdAck
<1>8. CASE last \in {"VRFY", "EXPN"}
  <2>1. permit = {}
    BY <1>2, <1>8 DEF DeniedInv, DeniedOnlyInGaps, Skipped, MessageEvents
  <2>2. ReplyLost => Contained
    BY <1>2, <2>1 DEF ReplyLost, Contained, InMessage, DeniedOnlyInGaps
  <2>3. VrfyAck(buf) \/ ExpnAck(buf)
    BY <1>8 DEF ParseSmtpAck
  <2> QED BY <1>1, <1>4, <1>5, <2>2, <2>3 DEF VrfyAck, ExpnAck
<1>9. CASE last = "DATA"
  <2>1. Reply("DATA", "MESSAGE", last, buf) => Contained
    BY <1>9, ReplyContained DEF MessageEvents
  <2>2. DataAck(buf)
    BY <1>9 DEF ParseSmtpAck
  <2> QED BY <1>4, <2>1, <2>2 DEF DataAck
<1>10. CASE last = "EOM"
  <2>1. Reply("HELO", "COMMAND", last, buf) => Contained
    BY ReplyContained
  <2>2. MsgAck(buf)
    BY <1>10 DEF ParseSmtpAck
  <2> QED BY <1>4, <2>1, <2>2 DEF MsgAck
<1>11. CASE OtherAck(buf)
  <2>1. CASE Fail("parse")
    BY <1>1, <2>1
  <2>2. CASE \E v \in Verdicts :
                /\ permit' = permit \cup Bits[v]
                /\ IF v = "error" \/ Blocked(permit \cup Bits[v]) THEN Close("policy")
                   ELSE UNCHANGED <<parse, last, open>>
    <3>1. PICK v \in Verdicts :
             /\ permit' = permit \cup Bits[v]
             /\ IF v = "error" \/ Blocked(permit \cup Bits[v]) THEN Close("policy")
                ELSE UNCHANGED <<parse, last, open>>
      BY <2>2
    <3>2. CASE Close("policy")
      BY <3>2, ClosedContained
    <3>3. CASE ~Blocked(permit \cup Bits[v]) /\ UNCHANGED <<parse, last, open>>
      <4>1. permit' = {} /\ permit = {}
        BY <3>1, <3>3, NotBlocked DEF DeniedInv, TypeOK, TrackerTypeOK
      <4> QED BY <1>2, <3>3, <4>1 DEF Contained, InMessage, DeniedOnlyInGaps
    <3> QED BY <3>1, <3>2, <3>3
  <2> QED BY <1>11, <2>1, <2>2 DEF OtherAck, Analyse
<1> QED BY <1>6, <1>7, <1>8, <1>9, <1>10, <1>11 DEF ParseSmtpAck

\* Every step of an open session contains a denial.
LEMMA StepContained ==
  ASSUME DeniedInv, [Next]_vars
  PROVE  DeniedInv' /\ (open /\ permit # {} /\ open' => mail' = mail /\ svrBuf' = svrBuf)
<1>1. TypeOK'
  BY TypeStep DEF DeniedInv
<1>2. UNCHANGED tracker => Contained
  BY DEF tracker, Contained, DeniedInv, InMessage, DeniedOnlyInGaps
<1>3. ASSUME NEW seg, ServerSegment(seg), open PROVE Contained
  BY <1>2, <1>3, AckContained DEF ServerSegment
<1>4. CASE UNCHANGED vars
  <2>1. Contained
    BY <1>2, <1>4 DEF vars
  <2> QED BY <1>1, <2>1 DEF Contained, DeniedInv
<1>5. CASE open /\ ClientData
  <2>1. PICK seg : IF ClientFits(seg) THEN ParseSmtpClient(Joined(cliBuf, seg))
                   ELSE UNCHANGED tracker
    BY <1>5 DEF ClientData
  <2> QED BY <1>1, <1>2, <1>5, <2>1, CommandContained, MessageContained
          DEF ParseSmtpClient, Contained, DeniedInv
<1>6. CASE open /\ (ServerReplies \/ ServerCoalesces \/ ServerResumes)
  <2>1. \E seg : ServerSegment(seg)
    BY <1>6 DEF ServerReplies, ServerCoalesces, ServerResumes
  <2> QED BY <1>1, <1>3, <1>6, <2>1 DEF Contained, DeniedInv
<1>7. CASE Teardown
  BY <1>1, <1>7, ClosedContained DEF Teardown, Fail, Contained, DeniedInv
<1> QED BY <1>1, <1>2, <1>4, <1>5, <1>6, <1>7 DEF Next, Contained, DeniedInv

\* Where a denied session survives: only past the analyses that no test of
\* permit follows.
THEOREM DenialsContained == Spec => []DeniedOnlyInGaps
<1>1. Init => DeniedInv
  BY InitTypes DEF Init, DeniedInv, InMessage, DeniedOnlyInGaps
<1>2. DeniedInv /\ [Next]_vars => DeniedInv'
  BY StepContained
<1>3. DeniedInv => DeniedOnlyInGaps
  BY DEF DeniedInv
<1> QED BY <1>1, <1>2, <1>3, PTL DEF Spec

\* Whatever the rules denied, no later reply of the server counts.
THEOREM DenialsFinal == Spec => DeniedNeverAdvances
<1>1. Init => DeniedInv
  BY InitTypes DEF Init, DeniedInv, InMessage, DeniedOnlyInGaps
<1>2. DeniedInv /\ [Next]_vars => DeniedInv'
  BY StepContained
<1>3. DeniedInv /\ [Next]_vars => [open /\ permit # {} /\ open' => mail' = mail /\ svrBuf' = svrBuf]_vars
  BY StepContained
<1> QED BY <1>1, <1>2, <1>3, PTL DEF Spec, DeniedNeverAdvances
=============================================================================

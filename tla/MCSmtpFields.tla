----------------------------- MODULE MCSmtpFields -----------------------------
(***************************************************************************)
(* Lines and alphabets for the model of header fields.                     *)
(***************************************************************************)
EXTENDS SmtpFields

L(f, t, v) == [field |-> f, text |-> t, val |-> v]
After == "Subject: lunch\r\n\r\n"
EndOfMail == "\r\n.\r\n"
NoTexts == {}
NoAlphabet == [f \in {} |-> {}]

Characters == {" ", "\t", "\r", "\n", "a", "b", "@", "<", ">", ":", ",", ";", "."}
Letters == {"T", "S", "M", "J", "A", "a", "u"}
Marks == {"(", ")", "a", "\\", " "}
\* Where the code gives a wrong answer when a segment ends there: behind the
\* parenthesis of a comment; inside a path; behind a blank in front of the end
\* of a line (texts of type and encoding have a tab for it), and behind a line
\* that may be folded there; inside a name; behind the "<" of an identifier.
Careful == [f \in AllFields |-> {")"} \cup
    CASE f = "path" -> Characters \ {"\n"}
      [] f \in {"type", "encoding"} -> {"\t", "\r\n"}
      [] f \in {"date", "resent-date"} -> Letters
      [] f \in {"message-id", "resent-msg-id", "references", "in-reply-to"} -> {"<", "\n"}
      [] f = "subject" -> {"\n"}
      [] f = "comment" -> Marks
      [] f = "wsp line" -> {" "}
      [] OTHER -> {}]
InsidePath == [f \in AllFields |-> Characters \ {"b"}]
Anywhere == [f \in AllFields |-> {}]

\* The fields the filter parses, and the envelope.
CalledTexts == {
    L("from", " a@b\r\n", <<<<"a@b">>>>),
    L("from", " \"A, B\" <a@b>\r\n", <<<<"a@b">>>>),
    L("from", " Jo Do <a@b>, c@d (me)\r\n", <<<<"a@b">>, <<"c@d">>>>),
    L("to", " x:;\r\n", <<<<>>>>),
    L("to", " us: a@b,\r\n c@d; , <e@f>\r\n", <<<<"a@b", "c@d">>, <<"e@f">>>>),
    L("type", " text/plain\r\n", <<"single", "">>),
    L("type", " multipart/mixed;\r\n boundary=\"=_a b\"\r\n", <<"multiple", "=_a b">>),
    L("type", " message/rfc822; x=y\r\n", <<"message", "">>),
    L("type", " font/otf; a=b; boundary=c\r\n", <<"single", "">>),
    L("encoding", " 7bit\r\n", <<"7bit">>),
    L("encoding", " base64\r\n", <<"base64">>),
    L("encoding", " quoted-printable\r\n", <<"quoted-printable">>),
    L("disposition", " inline\r\n", <<"inline">>),
    L("disposition", " attachment;\r\n filename=\"a b\"; size=12\r\n",
      <<"attachment", "filename", "size">>),
    L("disposition", " form; r=1; read-date=\"x\"\r\n", <<"extension", "parameter", "read-date">>),
    L("path", " <a@b>\r\n", <<"a@b">>),
    L("path", "< a@b >  \r\n", <<"a@b">>),
    L("path", " <@b,@a:a@b>\r\n", <<"a@b">>)}

\* The other fields of the library.  
LibraryTexts == {
    L("sender", " \"A, B\" <a@b>\r\n", <<"a@b">>),
    L("reply-to", " a@b, us: c@d;\r\n", <<<<"a@b">>, <<"c@d">>>>),
    L("cc", " a@b ,(c) c@d\r\n", <<<<"a@b">>, <<"c@d">>>>),
    L("resent-from", " a@b, c@d\r\n", <<<<"a@b">>, <<"c@d">>>>),
    L("resent-to", " us:a@b;\r\n", <<<<"a@b">>>>),
    L("resent-msg-id", " <a@b>\r\n", <<"a@b">>),
    L("resent-cc", " Undisclosed <a@b>\r\n", <<<<"a@b">>>>),
    L("bcc", " a@b\r\n", <<<<"a@b">>>>),
    L("message-id", " <a@b>\r\n", <<"a@b">>),
    L("references", " <a@b>\r\n <c@d>\r\n", <<<<"a@b">>, <<"c@d">>>>),
    L("in-reply-to", " <a@b> (me) <c@d>\r\n", <<<<"a@b">>, <<"c@d">>>>),
    L("keywords", " a b, \"c;d\"\r\n", <<<<>>, <<>>>>),
    L("return", " <a@b>\r\n", <<"a@b">>),
    L("return", " < >\r\n", <<>>),
    L("subject", " a\r\n b\r\n", <<"a\r\n b">>),
    L("comments", " (\r\n", <<"(">>),
    L("received", " by a; 1\r\n", <<"by a; 1">>),
    L("version", " 1.0\r\n", <<1, 0>>),
    L("x-token", "X-A: b\r\n", <<"X-A">>),
    L("date", " Mon, 12 Jun 2006 10:05:09 +0800\r\n", <<12, 6, 2006, 10, 5, 9, 800>>),
    L("date", " 1 Feb 06 1:02 EDT\r\n", <<1, 2, 6, 1, 2, 0, -400>>),
    L("date", " 9 Mar 2006\r\n 11:12 GMT\r\n", <<9, 3, 2006, 11, 12, 0, 0>>),
    L("resent-date", " Thu, 1 Jan 2006 10:05 -0100\r\n", <<1, 1, 2006, 10, 5, 0, -100>>)}
AllTexts == CalledTexts \cup LibraryTexts

\* Legal lines the filter refuses, misreads or does not return from, cut where
\* segments end.
CommentTexts == {L("from", " <a@b> (me)\r\n", <<<<"a@b">>>>)}
FoldTexts == {L("type", " multipart/mixed\r\n ;boundary=b\r\n", <<"multiple", "b">>)}
BlankTexts == {L("encoding", " 7bit \r\n", <<"7bit">>)}
CfwsTexts == {L("type", " multipart/mixed; (c) boundary=b\r\n", <<"multiple", "b">>)}
RouteTexts == {L("path", " <@b:a@b>\r\n", <<"a@b">>)}
ShortTexts == {L("encoding", " base64\r\n", <<"base64">>)}
SenderTexts == {L("resent-sender", " a@b\r\n", <<"a@b">>)}

\* Arbitrary texts.
Pieces == [f \in {"fws", "comment", "quoted", "literal", "line", "wsp line"} |->
    CASE f = "fws" -> {" ", "\t", "\r", "\n", "\r\n", "a"}
      [] f = "comment" -> Marks
      [] f = "quoted" -> {"\"", "a", "\\", " ", "\r\n"}
      [] f \in {"line", "wsp line"} -> {"\r", "\n", " ", "a"}
      [] f = "literal" -> {"[", "]", "a", "\\", " ", "\r\n"}]
FieldPieces == [f \in {"from", "to", "type", "encoding", "disposition"} |->
    CASE f = "from" -> {" ", "a", "<", ">", ",", "\"", "\r\n"}
      [] f = "to" -> {" ", "a", "<", ">", ",", ":a", ";", "\r\n"}
      [] f = "type" -> {"\t", "text", "/", "a", ";", "=", "\r\n"}
      [] f = "encoding" -> {"\t", "7bi", "t", "a", "\r\n"}
      [] f = "disposition" -> {" ", "inline", "a", ";", "size", "=", "1", "\r\n"}]
AllPieces == Pieces @@ FieldPieces
=============================================================================

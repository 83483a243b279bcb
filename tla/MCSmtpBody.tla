----------------------------- MODULE MCSmtpBody -----------------------------
(* Instances of SmtpBody for TLC. *)
EXTENDS SmtpBody

\* base64: the values 26 and 63, padding; two quanta hold eight characters, one
\* and what a piece may add to it seven.  quoted-printable: "=", the two halves
\* of a line break, a digit, a letter that is none; the longest code has three
\* characters.  binary: the two halves of a line break, a letter.
SomeCharacters ==
    "base64" :> {97, 47, EQ} @@ "quoted-printable" :> {EQ, LF, CR, 65, 120}
    @@ "binary" :> {LF, CR, 120}
SomeLength == "base64" :> 7 @@ "quoted-printable" :> 5 @@ "binary" :> 5
=============================================================================

--------------------------- MODULE MCSmtpSession ---------------------------
(* Instances of SmtpSession for TLC. *)
EXTENDS SmtpSession

\* A reply for every branch of every reply parser, and one no parser lists.
AllCodes == {214, 220, 221, 235, 250, 251, 252, 334, 354, 421, 550, 554}
AllVerdicts == DOMAIN Bits

\* The properties of orderly dialogues say nothing once the dialogue has left
\* them, and a dialogue never becomes orderly again: TLC need not go further.
OrderlySoFar == orderly
=============================================================================

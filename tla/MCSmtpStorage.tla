--------------------------- MODULE MCSmtpStorage ---------------------------
(* Instances of SmtpStorage for TLC. *)
EXTENDS SmtpStorage

\* Three strings: a greeting's, one that was lost, a user name.  Three events:
\* two held, one in the making.  A path of two mailboxes has six blocks.
SomeBlocks ==
    "string" :> 1..3 @@ "address" :> 11..12 @@ "event" :> 21..23
    @@ "atom" :> 31..32 @@ "list" :> 41..46
=============================================================================

----------------------------- MODULE SmtpBuffers -----------------------------
(***************************************************************************)
(* The two buffers of a smtp_info, in bytes: the client's, which is        *)
(* enlarged for a long message header, and the server's, whose start       *)
(* svr_data is moved over the replies parse_smtp_ack consumes itself.  What *)
(* the parsers make of the bytes is a choice; SmtpSession models it.       *)
(*                                                                         *)
(* cli_data has no variable: every assignment sets it to cli_buf.          *)
(***************************************************************************)
EXTENDS Integers

CONSTANTS
    BufLen,     \* SMTP_BUF_LEN
    MaxGrowth,  \* the buffer holds at most MaxGrowth * BufLen bytes; 10 in the code
    MaxSegment  \* bound: bytes in a segment

ASSUME BufLenAssumption == BufLen \in Nat /\ BufLen >= 5
ASSUME MaxGrowthAssumption == MaxGrowth \in Nat \ {0}
ASSUME MaxSegmentAssumption == MaxSegment \in Nat \ {0}

VARIABLES
    open,       \* the session has a smtp_info
    why,        \* what ended it: "peer", "parse", "long" (a header), "memory", "buffer"
    message,    \* curr_parse_state is SMTP_STATE_PARSE_MESSAGE
    fields,     \* the top part's state is SMTP_MSG_FIELDS_PARSING, as in a cleared part
    cliLen,     \* cli_data_len
    cliBufLen,  \* cli_buf_len
    svrOff,     \* svr_data - svr_buf
    svrLen      \* svr_data_len

client == <<message, fields, cliLen, cliBufLen>>
server == <<svrOff, svrLen>>
vars == <<open, why, client, server>>

\* smtp_close_connection; what the buffers held no longer matters.
Close(reason) ==
    /\ open' = FALSE /\ why' = reason
    /\ message' = FALSE /\ fields' = TRUE
    /\ cliLen' = 0 /\ cliBufLen' = BufLen + 1
    /\ svrOff' = 0 /\ svrLen' = 0

\* The sanity tests of sync_client_data.
ClientSane(n, len, bufLen) == 0 <= len /\ len <= bufLen - 1 /\ n <= len

-----------------------------------------------------------------------------
\* left_len of process_smtp, an int compared with a size_t.
ClientLeft == (cliBufLen - 1) - cliLen
ServerLeft == BufLen - (svrOff + svrLen)

ClientFits(size) == size <= ClientLeft
\* Mutant: only the bytes not parsed yet are counted.
ServerFitsNoOffset(size) == size <= BufLen - svrLen
ServerFits(size) == size <= ServerLeft

\* parse_smtp_command: its parsers consume their line (what sync_client_data
\* returns is not looked at), or reset_client_buf loses all there is.
CommandParsed(len) ==
    /\ \/ \E n \in 1..len : cliLen' = IF ClientSane(n, len, cliBufLen) THEN len - n ELSE len
       \/ cliLen' = 0
    /\ UNCHANGED <<open, why, message, fields, cliBufLen, server>>

\* Mutants: the full buffer is missed by one; one enlargement too many.
FullMissed(len) == len = cliBufLen
Full(len) == len = cliBufLen - 1
TooLongByOne == cliBufLen > MaxGrowth * BufLen + 1
TooLong == cliBufLen >= MaxGrowth * BufLen + 1

\* The end of parse_smtp_message after n bytes: sync_client_data, whose error
\* is the result.
Synced(n, len, bufLen, inMessage, header) ==
    IF ClientSane(n, len, bufLen)
    THEN /\ cliLen' = len - n /\ cliBufLen' = bufLen
         /\ message' = inMessage /\ fields' = header
         /\ UNCHANGED <<open, why, server>>
    ELSE Close("buffer")

\* SMTP_ERROR_CONTINUE: a header that fills the buffer gets a larger one,
\* unless it is as large as it may be or realloc fails.  A closing delimiter cut
\* by the end of the segment is consumed with one byte that is not there.
MessageContinues(len) ==
    \E n \in 0..(len + 1), header \in BOOLEAN :
       IF n > len THEN Synced(n, len, cliBufLen, TRUE, FALSE)
       ELSE IF ~(header /\ Full(len)) THEN Synced(n, len, cliBufLen, TRUE, header)
       ELSE IF TooLong THEN Close("long")
       ELSE \/ Synced(n, len, cliBufLen + BufLen, TRUE, header)
            \/ Close("memory")

\* CRLF.CRLF: after the body of a single part, which is popped, or in an epilogue.
MessageEnds(len) ==
    \/ Synced(len, len, cliBufLen, TRUE, TRUE)
    \/ Synced(len, len, cliBufLen, FALSE, FALSE)

\* process_smtp, client data: a segment that does not fit is dropped.
ClientData ==
    \E size \in 1..MaxSegment :
       IF ~ClientFits(size) THEN UNCHANGED vars
       ELSE LET len == cliLen + size IN
            \/ ~message /\ CommandParsed(len)
            \/ message /\ (MessageContinues(len) \/ MessageEnds(len))
            \/ Close("parse")

\* A reply parser consumes a part of the segment (sync_server_data) or loses all
\* of it (reset_server_buf), and may begin a message or end one.
ReplyParsed(len) ==
    /\ \E n \in 1..len : svrLen' = len - n
    /\ svrOff' = 0
    /\ message' \in BOOLEAN
    /\ UNCHANGED <<open, why, fields, cliLen, cliBufLen>>

\* The two default cases of parse_smtp_ack: svr_data moves over all there is,
\* or over "ddd\r\n".
ReplySkipped(len) ==
    /\ svrOff' \in {svrOff + len, svrOff + 5}
    /\ svrLen' = 0
    /\ UNCHANGED <<open, why, client>>

\* process_smtp, server data.
ServerData ==
    \E size \in 1..MaxSegment :
       IF ~ServerFits(size) THEN UNCHANGED vars
       ELSE LET len == svrLen + size IN
            \/ len >= 5 /\ (ReplyParsed(len) \/ ReplySkipped(len))
            \/ Close("parse")

Teardown == Close("peer")

\* new_smtp_info.
Init ==
    /\ open = TRUE /\ why = "none"
    /\ message = FALSE /\ fields = TRUE
    /\ cliLen = 0 /\ cliBufLen = BufLen + 1
    /\ svrOff = 0 /\ svrLen = 0

Next == open /\ (ClientData \/ ServerData \/ Teardown)

Spec == Init /\ [][Next]_vars

-----------------------------------------------------------------------------
\* The sizes the client buffer may have.
Sizes == {k * BufLen + 1 : k \in 1..MaxGrowth}

TypeOK ==
    /\ open \in BOOLEAN /\ message \in BOOLEAN /\ fields \in BOOLEAN
    /\ why \in {"none", "peer", "parse", "long", "memory", "buffer"}
    /\ cliLen \in Nat /\ svrOff \in Nat /\ svrLen \in Nat
    /\ cliBufLen \in Sizes

\* Neither buffer is overrun, whatever segments arrive and whatever the parsers
\* consume: the bytes and the NUL behind them are inside, and left_len, which
\* process_smtp compares with an unsigned size, is never negative.
InBounds == ClientLeft >= 0 /\ ServerLeft >= 0

\* A command or a header never leaves the client buffer exactly full, so that a
\* segment of one byte is still taken and the parser runs again: only a message
\* part past its header can shut the buffer to every segment.  A larger segment
\* than the room a header leaves is dropped all the same (HeaderLeavesRoom).
FullOnlyPastHeader == open /\ ClientLeft = 0 => ~fields

(***************************************************************************)
(* What the code does not do.                                              *)
(***************************************************************************)
\* A command or a header leaves room for the next segment.  The test in
\* parse_smtp_message enlarges a buffer only when it is exactly full, and
\* process_smtp drops the segment whole when there is less room than that.
HeaderLeavesRoom == open /\ fields => ClientFits(MaxSegment)

=============================================================================

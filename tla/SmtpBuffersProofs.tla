-------------------------- MODULE SmtpBuffersProofs --------------------------
(***************************************************************************)
(* The buffers of SmtpBuffers are never overrun, for every SMTP_BUF_LEN,   *)
(* every limit of growth and every segment size.                           *)
(***************************************************************************)
EXTENDS SmtpBuffers, TLAPS

\* The inductive invariant: the bounds hold of an enlarged buffer only if its
\* size is one of Sizes.
BuffersInv == TypeOK /\ InBounds /\ FullOnlyPastHeader

USE BufLenAssumption, MaxGrowthAssumption, MaxSegmentAssumption

LEMMA Multiples ==
    ASSUME NEW a \in Nat, NEW b \in Nat, NEW l \in Nat, a >= b
    PROVE  a * l >= b * l
<1> DEFINE d == a - b
<1>1. d \in Nat /\ a = b + d
  OBVIOUS
<1>2. a * l = b * l + d * l
  BY <1>1
<1>3. d * l >= 0
  BY <1>1
<1> QED
  BY <1>2, <1>3

\* The sizes a client buffer may have, and the next one.
LEMMA SizesType == \A s \in Sizes : s \in Nat /\ s >= BufLen + 1
<1> SUFFICES ASSUME NEW k \in 1..MaxGrowth
             PROVE  k * BufLen + 1 \in Nat /\ k * BufLen + 1 >= BufLen + 1
  BY DEF Sizes
<1>1. k * BufLen >= 1 * BufLen
  BY Multiples
<1> QED
  BY <1>1

LEMMA SmallestSize == BufLen + 1 \in Sizes
<1>1. 1 \in 1..MaxGrowth /\ 1 * BufLen + 1 = BufLen + 1
  OBVIOUS
<1> QED
  BY <1>1 DEF Sizes

LEMMA NextSize == BuffersInv /\ ~TooLong => cliBufLen + BufLen \in Sizes
<1> SUFFICES ASSUME BuffersInv, ~TooLong
             PROVE  cliBufLen + BufLen \in Sizes
  OBVIOUS
<1>1. PICK k \in 1..MaxGrowth : cliBufLen = k * BufLen + 1
  BY DEF BuffersInv, TypeOK, Sizes
<1>2. k < MaxGrowth
  <2> SUFFICES ASSUME k >= MaxGrowth PROVE FALSE
    BY <1>1
  <2>1. k * BufLen >= MaxGrowth * BufLen
    BY Multiples
  <2> QED
    BY <1>1, <2>1 DEF TooLong
<1>3. k + 1 \in 1..MaxGrowth /\ cliBufLen + BufLen = (k + 1) * BufLen + 1
  BY <1>1, <1>2
<1> QED
  BY <1>3 DEF Sizes

\* A session that is closed keeps no bytes.
LEMMA Closed ==
    ASSUME NEW r \in {"peer", "parse", "long", "memory", "buffer"}, Close(r)
    PROVE  BuffersInv'
<1>1. TypeOK'
  BY SmallestSize DEF Close, TypeOK
<1>2. InBounds'
  BY DEF Close, InBounds, ClientLeft, ServerLeft
<1>3. FullOnlyPastHeader'
  BY DEF Close, FullOnlyPastHeader
<1> QED
  BY <1>1, <1>2, <1>3 DEF BuffersInv

\* The end of a message parser, when the buffer it leaves is not full but past
\* a header.
LEMMA SyncedInBounds ==
    ASSUME BuffersInv, NEW len \in Nat, NEW n \in 0..(len + 1), NEW size \in Sizes,
           NEW m \in BOOLEAN, NEW h \in BOOLEAN,
           len <= size - 1, len - n = size - 1 => ~h,
           Synced(n, len, size, m, h)
    PROVE  BuffersInv'
<1>1. CASE n <= len
  <2>1. size \in Nat /\ ClientSane(n, len, size)
    BY <1>1, SizesType DEF ClientSane
  <2>2. /\ cliLen' = len - n /\ cliBufLen' = size /\ message' = m /\ fields' = h
        /\ UNCHANGED <<open, why, svrOff, svrLen>>
    BY <2>1 DEF Synced, server
  <2> QED
    BY <1>1, <2>1, <2>2 DEF BuffersInv, TypeOK, InBounds, FullOnlyPastHeader,
       ClientLeft, ServerLeft
<1>2. CASE n > len
  <2>1. Close("buffer")
    BY <1>2 DEF Synced, ClientSane
  <2> QED
    BY <2>1, Closed
<1> QED
  BY <1>1, <1>2

LEMMA ClientInBounds == BuffersInv /\ open /\ ClientData => BuffersInv'
<1> SUFFICES ASSUME BuffersInv, open, ClientData
             PROVE  BuffersInv'
  OBVIOUS
<1>1. PICK size \in 1..MaxSegment :
         IF ~ClientFits(size) THEN UNCHANGED vars
         ELSE \/ ~message /\ CommandParsed(cliLen + size)
              \/ message /\ (MessageContinues(cliLen + size) \/ MessageEnds(cliLen + size))
              \/ Close("parse")
  BY DEF ClientData
<1> DEFINE len == cliLen + size
<1>2. CASE ~ClientFits(size)
  BY <1>1, <1>2 DEF vars, client, server, BuffersInv, TypeOK, InBounds,
     FullOnlyPastHeader, ClientLeft, ServerLeft
<1>3. CASE ClientFits(size)
  <2>1. cliBufLen \in Sizes /\ cliBufLen \in Nat
    BY SizesType DEF BuffersInv, TypeOK
  <2>2. len \in Nat /\ len >= 1 /\ len <= cliBufLen - 1
    BY <1>3, <2>1 DEF ClientFits, ClientLeft, BuffersInv, TypeOK
  <2>3. CASE CommandParsed(len)
    <3>1. PICK rest \in 0..(len - 1) : cliLen' = rest
      BY <2>1, <2>2, <2>3 DEF CommandParsed, ClientSane
    <3>2. TypeOK'
      BY <2>3, <3>1 DEF CommandParsed, server, BuffersInv, TypeOK
    <3>3. /\ why' = why /\ cliBufLen' = cliBufLen
          /\ svrOff' = svrOff /\ svrLen' = svrLen
      BY <2>3 DEF CommandParsed, server
    <3>4. ClientLeft' = (cliBufLen - 1) - rest /\ ServerLeft' = ServerLeft
      BY <3>1, <3>3 DEF ClientLeft, ServerLeft
    <3>5. InBounds' /\ FullOnlyPastHeader'
      BY <2>1, <2>2, <3>3, <3>4 DEF BuffersInv, InBounds, FullOnlyPastHeader
    <3> QED
      BY <3>2, <3>5 DEF BuffersInv
  <2>4. CASE MessageContinues(len)
    <3>1. PICK n \in 0..(len + 1), header \in BOOLEAN :
             IF n > len THEN Synced(n, len, cliBufLen, TRUE, FALSE)
             ELSE IF ~(header /\ Full(len)) THEN Synced(n, len, cliBufLen, TRUE, header)
             ELSE IF TooLong THEN Close("long")
             ELSE \/ Synced(n, len, cliBufLen + BufLen, TRUE, header)
                  \/ Close("memory")
      BY <2>4 DEF MessageContinues
    <3>2. CASE Synced(n, len, cliBufLen, TRUE, header) /\ ~(header /\ Full(len))
      <4>1. len - n = cliBufLen - 1 => ~header
        BY <2>1, <2>2, <3>2 DEF Full
      <4> QED
        BY <2>1, <2>2, <3>2, <4>1, SyncedInBounds
    <3>3. CASE Synced(n, len, cliBufLen + BufLen, TRUE, header) /\ ~TooLong
      <4>1. cliBufLen + BufLen \in Sizes
        BY <3>3, NextSize
      <4>2. len <= cliBufLen + BufLen - 1 /\ len - n # cliBufLen + BufLen - 1
        BY <2>1, <2>2
      <4> QED
        <5> DEFINE larger == cliBufLen + BufLen
        <5>1. larger \in Sizes /\ len <= larger - 1 /\ len - n # larger - 1
          BY <2>1, <4>1, <4>2
        <5>2. Synced(n, len, larger, TRUE, header)
          BY <3>3
        <5> HIDE DEF larger
        <5> QED
          BY <2>2, <5>1, <5>2, SyncedInBounds
    <3>4. CASE Close("long") \/ Close("memory")
      BY <3>4, Closed
    <3>5. CASE Synced(n, len, cliBufLen, TRUE, FALSE)
      BY <2>1, <2>2, <3>5, SyncedInBounds
    <3> QED
      BY <3>1, <3>2, <3>3, <3>4, <3>5
  <2>5. CASE MessageEnds(len)
    <3>1. len \in 0..(len + 1) /\ len - len # cliBufLen - 1
      BY <2>1, <2>2
    <3>2. CASE Synced(len, len, cliBufLen, TRUE, TRUE)
      BY <2>1, <2>2, <3>1, <3>2, SyncedInBounds
    <3>3. CASE Synced(len, len, cliBufLen, FALSE, FALSE)
      BY <2>1, <2>2, <3>1, <3>3, SyncedInBounds
    <3> QED
      BY <2>5, <3>2, <3>3 DEF MessageEnds
  <2>6. CASE Close("parse")
    BY <2>6, Closed
  <2> QED
    BY <1>1, <1>3, <2>3, <2>4, <2>5, <2>6
<1> QED
  BY <1>2, <1>3

LEMMA ServerInBounds == BuffersInv /\ open /\ ServerData => BuffersInv'
<1> SUFFICES ASSUME BuffersInv, open, ServerData
             PROVE  BuffersInv'
  OBVIOUS
<1>1. PICK size \in 1..MaxSegment :
         IF ~ServerFits(size) THEN UNCHANGED vars
         ELSE \/ /\ svrLen + size >= 5
                 /\ ReplyParsed(svrLen + size) \/ ReplySkipped(svrLen + size)
              \/ Close("parse")
  BY DEF ServerData
<1> DEFINE len == svrLen + size
<1>2. cliBufLen \in Nat
  BY SizesType DEF BuffersInv, TypeOK
<1>3. CASE ~ServerFits(size)
  BY <1>1, <1>3 DEF vars, client, server, BuffersInv, TypeOK, InBounds,
     FullOnlyPastHeader, ClientLeft, ServerLeft
<1>4. CASE ServerFits(size) /\ len >= 5 /\ ReplyParsed(len)
  <2>1. svrOff' = 0 /\ svrLen' \in Nat /\ svrLen' <= BufLen
    BY <1>4 DEF ReplyParsed, ServerFits, ServerLeft, BuffersInv, TypeOK
  <2> QED
    BY <1>2, <1>4, <2>1 DEF ReplyParsed, BuffersInv, TypeOK, InBounds,
       FullOnlyPastHeader, ClientLeft, ServerLeft
<1>5. CASE ServerFits(size) /\ len >= 5 /\ ReplySkipped(len)
  <2>1. PICK o \in {svrOff + len, svrOff + 5} : svrOff' = o
    BY <1>5 DEF ReplySkipped
  <2>2. o \in Nat /\ o <= BufLen
    BY <1>5 DEF ServerFits, ServerLeft, BuffersInv, TypeOK
  <2>3. svrLen' = 0 /\ UNCHANGED <<open, why, message, fields, cliLen, cliBufLen>>
    BY <1>5 DEF ReplySkipped, client
  <2>4. TypeOK'
    BY <2>1, <2>2, <2>3 DEF BuffersInv, TypeOK
  <2>5. InBounds'
    <3>1. ClientLeft' = ClientLeft
      BY <2>3 DEF ClientLeft
    <3>2. ServerLeft' = BufLen - (o + 0)
      BY <2>1, <2>3 DEF ServerLeft
    <3> QED
      BY <2>2, <3>1, <3>2 DEF BuffersInv, InBounds
  <2> QED
    BY <2>3, <2>4, <2>5 DEF BuffersInv, FullOnlyPastHeader, ClientLeft
<1>6. CASE Close("parse")
  BY <1>6, Closed
<1> QED
  BY <1>1, <1>3, <1>4, <1>5, <1>6

LEMMA BuffersInvariant == Spec => []BuffersInv
<1>1. Init => BuffersInv
  <2> SUFFICES ASSUME Init PROVE BuffersInv
    OBVIOUS
  <2>1. TypeOK
    BY SmallestSize DEF Init, TypeOK
  <2>2. InBounds
    BY DEF Init, InBounds, ClientLeft, ServerLeft
  <2>3. FullOnlyPastHeader
    BY DEF Init, FullOnlyPastHeader, ClientLeft
  <2> QED
    BY <2>1, <2>2, <2>3 DEF BuffersInv
<1>2. BuffersInv /\ [Next]_vars => BuffersInv'
  <2> SUFFICES ASSUME BuffersInv, [Next]_vars
               PROVE  BuffersInv'
    OBVIOUS
  <2>1. CASE open /\ Teardown
    BY <2>1, Closed DEF Teardown
  <2>2. CASE UNCHANGED vars
    BY <2>2 DEF vars, client, server, BuffersInv, TypeOK, InBounds,
       FullOnlyPastHeader, ClientLeft, ServerLeft
  <2> QED
    BY <2>1, <2>2, ClientInBounds, ServerInBounds DEF Next
<1> QED
  BY <1>1, <1>2, PTL DEF Spec

\* No length becomes negative and cli_buf_len is always SMTP_BUF_LEN and some
\* enlargements, at most as many as the limit allows.
THEOREM BuffersTyped == Spec => []TypeOK
<1>1. BuffersInv => TypeOK
  BY DEF BuffersInv
<1> QED
  BY <1>1, BuffersInvariant, PTL

\* Neither buffer is overrun: process_smtp's memcpy and the NUL behind it stay
\* inside, and left_len is never negative.
THEOREM BuffersNeverOverrun == Spec => []InBounds
<1>1. BuffersInv => InBounds
  BY DEF BuffersInv
<1> QED
  BY <1>1, BuffersInvariant, PTL

\* No command and no header leaves the client buffer exactly full: one more byte
\* always fits, though not every segment does.
THEOREM HeadersNeverFull == Spec => []FullOnlyPastHeader
<1>1. BuffersInv => FullOnlyPastHeader
  BY DEF BuffersInv
<1> QED
  BY <1>1, BuffersInvariant, PTL

=============================================================================

------------------------- MODULE SessionTableProofs -------------------------
(***************************************************************************)
(* Theorems about SessionTable, for every set of connections, hash and     *)
(* table size.                                                             *)
(***************************************************************************)
EXTENDS SessionTable, FiniteSetTheorems, TLAPS

\* No session is newer than the latest stream of its connection.
NoneNewer == \A s \in sessions : s.born <= serial[s.conn]

TableInv == TypeOK /\ WithinCapacity /\ NoneNewer /\ StaleOnlyAbandoned

LEMMA CapacityType == MaxSmtps \in Nat /\ Capacity \in Nat
<1>1. (3 * TblSize) \div 4 \in Nat
  BY TblSizeAssumption
<1> QED BY <1>1 DEF MaxSmtps, Capacity

LEMMA SessionRecord ==
  ASSUME TypeOK, NEW s \in sessions
  PROVE  s \in [conn : Conns, born : 1..streams] /\ s = [conn |-> s.conn, born |-> s.born]
         /\ s.conn \in Conns /\ s.born \in Nat
BY DEF TypeOK, StreamsTypeOK

\* An ordinary stream's own session is the one its search finds.
LEMMA FindsOwn ==
  ASSUME TypeOK, NoneNewer, NEW c \in Conns \cap Ordinary,
         [conn |-> c, born |-> serial[c]] \in sessions
  PROVE  Found(c) = {[conn |-> c, born |-> serial[c]]}
<1> DEFINE own == [conn |-> c, born |-> serial[c]]
<1>1. own \in sessions /\ own.conn = c /\ own.born = serial[c]
  OBVIOUS
<1>2. ASSUME NEW s \in Sought(c) PROVE s \in sessions /\ s.conn = c /\ s.born <= serial[c]
  <2>1. s \in sessions /\ Matches(c, s.conn)
    BY DEF Sought
  <2>2. s.conn.dport = SmtpPort
    BY <2>1, SessionRecord, ConnsAssumption
  <2>3. c.sport # SmtpPort
    BY DEF Ordinary
  <2> QED BY <2>1, <2>2, <2>3 DEF Matches, Forward, Backward, NoneNewer
<1>3. own \in Sought(c)
  BY <1>1 DEF Sought, Matches, Forward
<1> HIDE DEF own
<1>4. own \in Found(c)
  BY <1>1, <1>2, <1>3 DEF Found
<1>5. ASSUME NEW s \in Found(c) PROVE s = own
  <2>1. s \in Sought(c) /\ own.born <= s.born
    BY <1>3 DEF Found
  <2>2. s.born <= own.born /\ s.conn = own.conn
    BY <1>1, <1>2, <2>1
  <2>3. s \in sessions
    BY <1>2, <2>1
  <2>4. s.born = own.born
    BY <1>1, <2>1, <2>2, <2>3, SessionRecord
  <2> QED BY <1>1, <2>2, <2>3, <2>4, SessionRecord
<1> QED BY <1>4, <1>5 DEF own

LEMMA FewerSessions ==
  ASSUME TypeOK, WithinCapacity, NEW S, S \subseteq sessions
  PROVE  IsFiniteSet(S) /\ Cardinality(S) + lost <= Capacity
<1>1. /\ IsFiniteSet(sessions) /\ IsFiniteSet(S) /\ Cardinality(S) <= Cardinality(sessions)
  BY FS_Subset DEF TypeOK
<1>2. Cardinality(S) \in Nat /\ Cardinality(sessions) \in Nat /\ lost \in Nat
  BY <1>1, FS_CardinalityType DEF TypeOK
<1> QED BY <1>1, <1>2, CapacityType DEF WithinCapacity

\* Sessions leave the table and the streams' numbers stay: of the invariant
\* only the fate of stale sessions is left to show.
LEMMA Shrinks ==
  ASSUME TableInv, NEW c \in Conns, StreamsTypeOK',
         streams' = streams, serial' = serial, lost' = lost, sessions' \subseteq sessions
  PROVE  TypeOK' /\ WithinCapacity' /\ NoneNewer'
<1>1. IsFiniteSet(sessions') /\ Cardinality(sessions') + lost' <= Capacity
  BY FewerSessions DEF TableInv
<1> QED BY <1>1 DEF TableInv, TypeOK, WithinCapacity, NoneNewer, Capacity, MaxSmtps

LEMMA OpenStep ==
  ASSUME TableInv, NEW c \in Conns, Open(c)
  PROVE  TableInv'
<1> DEFINE fresh == [conn |-> c, born |-> streams + 1]
<1>1. /\ c \notin up /\ streams < MaxStreams
      /\ up' = up \cup {c} /\ streams' = streams + 1
      /\ serial' = [serial EXCEPT ![c] = streams + 1] /\ abandoned' = abandoned
  BY DEF Open, Established
<1>2. /\ streams \in Nat /\ streams' \in 0..MaxStreams
      /\ up \subseteq Conns /\ serial \in [Conns -> 0..streams] /\ abandoned \subseteq 1..streams
  BY <1>1, MaxStreamsAssumption DEF TableInv, TypeOK, StreamsTypeOK
<1>3. StreamsTypeOK'
  <2>1. \A d \in up' : serial'[d] > 0
    BY <1>1, <1>2 DEF TableInv, TypeOK, StreamsTypeOK
  <2> QED BY <1>1, <1>2, <2>1 DEF StreamsTypeOK
<1>4. \A s \in sessions : /\ s.conn \in Conns /\ s.born \in 1..streams
                          /\ s.born <= serial'[s.conn]
                          /\ s \in [conn : Conns, born : 1..streams']
  <2> SUFFICES ASSUME NEW s \in sessions
               PROVE  /\ s.conn \in Conns /\ s.born \in 1..streams
                      /\ s.born <= serial'[s.conn]
                      /\ s \in [conn : Conns, born : 1..streams']
    OBVIOUS
  <2>1. /\ s \in [conn : Conns, born : 1..streams] /\ s.conn \in Conns /\ s.born \in 1..streams
        /\ s = [conn |-> s.conn, born |-> s.born]
    BY DEF TableInv, TypeOK
  <2>2. s.born <= serial[s.conn]
    BY DEF TableInv, NoneNewer
  <2>3. s.born <= serial'[s.conn]
    BY <1>1, <1>2, <2>1, <2>2
  <2>4. s.born \in 1..streams'
    BY <1>1, <1>2, <2>1
  <2> QED BY <2>1, <2>3, <2>4
<1>5. \A s \in sessions : s.conn \in Ordinary =>
        (s.conn \in up' /\ s.born = serial'[s.conn]) \/ s.born \in abandoned'
  BY <1>1, <1>2, <1>4 DEF TableInv, StaleOnlyAbandoned
<1>6. IsFiniteSet(sessions) /\ Cardinality(sessions) \in Nat /\ lost \in Nat
  BY FS_CardinalityType DEF TableInv, TypeOK
<1>7. CASE ~Full /\ sessions' = sessions \cup {fresh} /\ lost' = lost
  <2>1. IsFiniteSet(sessions') /\ Cardinality(sessions') <= Cardinality(sessions) + 1
        /\ Cardinality(sessions') \in Nat
    <3> HIDE DEF fresh
    <3>1. /\ IsFiniteSet(sessions \cup {fresh})
          /\ \/ Cardinality(sessions \cup {fresh}) = Cardinality(sessions)
             \/ Cardinality(sessions \cup {fresh}) = Cardinality(sessions) + 1
      BY <1>6, FS_AddElement
    <3> QED BY <1>6, <1>7, <3>1
  <2>2. WithinCapacity'
    BY <1>6, <1>7, <2>1, CapacityType DEF Full, WithinCapacity, Capacity, MaxSmtps
  <2>3. fresh \in [conn : Conns, born : 1..streams'] /\ fresh.conn = c /\ fresh.born = serial'[c]
    BY <1>1, <1>2
  <2> HIDE DEF fresh
  <2>4. TypeOK'
    BY <1>3, <1>4, <1>6, <1>7, <2>1, <2>3 DEF TypeOK
  <2>5. NoneNewer'
    BY <1>2, <1>4, <1>7, <2>3 DEF NoneNewer
  <2>6. StaleOnlyAbandoned'
    BY <1>1, <1>5, <1>7, <2>3 DEF StaleOnlyAbandoned, Ordinary
  <2> QED BY <2>2, <2>4, <2>5, <2>6 DEF TableInv
<1>8. CASE sessions' = sessions /\ (lost' = lost \/ (~Full /\ lost' = lost + 1))
  <2>1. WithinCapacity'
    BY <1>6, <1>8, CapacityType DEF Full, TableInv, WithinCapacity, Capacity, MaxSmtps
  <2>2. TypeOK'
    BY <1>3, <1>4, <1>6, <1>8 DEF TypeOK
  <2>3. NoneNewer' /\ StaleOnlyAbandoned'
    BY <1>4, <1>5, <1>8 DEF NoneNewer, StaleOnlyAbandoned, Ordinary
  <2> QED BY <2>1, <2>2, <2>3 DEF TableInv
<1> QED BY <1>1, <1>7, <1>8 DEF Open, tableVars

LEMMA CloseStep ==
  ASSUME TableInv, NEW c \in Conns, Close(c)
  PROVE  TableInv'
<1>1. /\ c \in up /\ up' = up \ {c}
      /\ streams' = streams /\ serial' = serial /\ abandoned' = abandoned
      /\ sessions' = sessions \ Found(c) /\ lost' = lost
  BY DEF Close, Ended
<1>2. StreamsTypeOK'
  BY <1>1 DEF TableInv, TypeOK, StreamsTypeOK
<1>3. TypeOK' /\ WithinCapacity' /\ NoneNewer'
  BY <1>1, <1>2, Shrinks
<1>4. StaleOnlyAbandoned'
  <2> SUFFICES ASSUME NEW s \in sessions', s.conn \in Ordinary
               PROVE  (s.conn \in up' /\ s.born = serial'[s.conn]) \/ s.born \in abandoned'
    BY DEF StaleOnlyAbandoned, Ordinary
  <2>1. s \in sessions /\ s \notin Found(c)
    BY <1>1
  <2>2. (s.conn \in up /\ s.born = serial[s.conn]) \/ s.born \in abandoned
    BY <2>1 DEF TableInv, StaleOnlyAbandoned
  <2>3. CASE s.conn = c /\ s.born = serial[c]
    <3>1. s = [conn |-> c, born |-> serial[c]]
      BY <2>1, <2>3, SessionRecord DEF TableInv
    <3>2. Found(c) = {s}
      BY <2>1, <2>3, <3>1, FindsOwn DEF TableInv
    <3> QED BY <2>1, <3>2
  <2> QED BY <1>1, <2>2, <2>3
<1> QED BY <1>3, <1>4 DEF TableInv

LEMMA TableStep ==
  ASSUME TableInv, [Next]_vars
  PROVE  TableInv'
<1>1. ASSUME NEW c \in Conns, Data(c) PROVE TableInv'
  <2>1. /\ UNCHANGED streamVars /\ sessions' \subseteq sessions /\ lost' = lost
    BY <1>1 DEF Data, Delivering
  <2>2. up' = up /\ streams' = streams /\ serial' = serial /\ abandoned' = abandoned
    BY <2>1 DEF streamVars
  <2>3. StreamsTypeOK'
    BY <2>2 DEF TableInv, TypeOK, StreamsTypeOK
  <2>4. TypeOK' /\ WithinCapacity' /\ NoneNewer'
    BY <2>1, <2>2, <2>3, Shrinks
  <2> QED BY <2>1, <2>2, <2>4 DEF TableInv, StaleOnlyAbandoned, Ordinary
<1>2. ASSUME NEW c \in Conns, TimeOut(c) PROVE TableInv'
  <2>1. /\ c \in up /\ up' = up \ {c} /\ abandoned' = abandoned \cup {serial[c]}
        /\ serial' = serial /\ streams' = streams /\ sessions' = sessions /\ lost' = lost
    BY <1>2 DEF TimeOut, GivenUp, tableVars
  <2>2. serial[c] \in 1..streams
    BY <2>1 DEF TableInv, TypeOK, StreamsTypeOK
  <2>3. StreamsTypeOK'
    BY <2>1, <2>2 DEF TableInv, TypeOK, StreamsTypeOK
  <2>4. TypeOK' /\ WithinCapacity' /\ NoneNewer'
    BY <2>1, <2>3, Shrinks
  <2> QED BY <2>1, <2>4 DEF TableInv, StaleOnlyAbandoned, Ordinary
<1>3. CASE UNCHANGED vars
  BY <1>3 DEF vars, streamVars, tableVars, TableInv, TypeOK, StreamsTypeOK, WithinCapacity,
     Capacity, MaxSmtps, NoneNewer, StaleOnlyAbandoned, Ordinary
<1> QED BY <1>1, <1>2, <1>3, OpenStep, CloseStep DEF Next

LEMMA TableInit ==
  ASSUME Init
  PROVE  TableInv
<1>1. IsFiniteSet(sessions) /\ Cardinality(sessions) = 0
  BY FS_EmptySet DEF Init
<1> QED BY <1>1, CapacityType, MaxStreamsAssumption DEF Init, StreamsInit, TableInv, TypeOK,
    StreamsTypeOK, WithinCapacity, NoneNewer, StaleOnlyAbandoned

\* The invariant, with the strengthening that no session is newer than the
\* latest stream of its connection.
LEMMA TableInvariant == Spec => []TableInv
BY TableInit, TableStep, PTL DEF Spec

\* smtp_num and the lost entries never exceed the pool of smtp_init.
THEOREM PoolNeverOverdrawn == Spec => []WithinCapacity
<1>1. TableInv => WithinCapacity
  BY DEF TableInv
<1> QED BY <1>1, TableInvariant, PTL

\* Only a stream libnids gives up leaves its session behind.
THEOREM LeaksOnlyAbandoned == Spec => []StaleOnlyAbandoned
<1>1. TableInv => StaleOnlyAbandoned
  BY DEF TableInv
<1> QED BY <1>1, TableInvariant, PTL

\* Data reaches the session of its own stream, past any stale session.
THEOREM DataFindsItsSession == Spec => []OwnSessionFound
<1>1. TableInv => OwnSessionFound
  BY FindsOwn DEF TableInv, OwnSessionFound, Ordinary
<1> QED BY <1>1, TableInvariant, PTL

=============================================================================

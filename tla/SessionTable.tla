---------------------------- MODULE SessionTable ----------------------------
(***************************************************************************)
(* What the session table of src/smtp.c promises, without its pointers: a  *)
(* set of sessions of bounded size, one per established stream as long as  *)
(* there is room and memory, and a search that finds the newest session    *)
(* with a stream's addresses.  SmtpTable implements it.                    *)
(***************************************************************************)
EXTENDS TcpStreams, FiniteSets

CONSTANTS
    HashIndex,  \* a_tcp->hash_index of each connection
    TblSize     \* smtp_tbl_size

ASSUME TblSizeAssumption == TblSize \in Nat \ {0}
ASSUME HashIndexAssumption == HashIndex \in [Conns -> Nat]

VARIABLES
    sessions,  \* the sessions, each [conn, born]: born is its stream's number
    lost       \* entries that will never be used again

tableVars == <<sessions, lost>>
vars == <<streamVars, tableVars>>

\* max_smtps, and the entries of smtp_info_pool.
MaxSmtps == (3 * TblSize) \div 4
Capacity == MaxSmtps + 1

Bucket(c) == HashIndex[c] % TblSize

\* The two tests of search_smtp_info.  The second is meant for the other
\* direction of a connection, but compares both ports with the server's.
Forward(c, e) == c = e
Backward(c, e) ==
    /\ c.sport = e.dport /\ c.dport = e.dport
    /\ c.saddr = e.daddr /\ c.daddr = e.saddr
Matches(c, e) == Bucket(c) = Bucket(e) /\ (Forward(c, e) \/ Backward(c, e))

Sought(c) == {s \in sessions : Matches(c, s.conn)}
\* Mutant: the oldest session is found.
FoundOldest(c) == {s \in Sought(c) : \A t \in Sought(c) : s.born <= t.born}
Found(c) == {s \in Sought(c) : \A t \in Sought(c) : t.born <= s.born}

-----------------------------------------------------------------------------
\* Mutant: one entry more than the pool has.
FullLate == Cardinality(sessions) + lost > Capacity
\* smtp_num > max_smtps, or the free list is empty.
Full == Cardinality(sessions) + lost >= Capacity

Open(c) ==
    /\ Established(c)
    /\ IF Full THEN UNCHANGED tableVars
       ELSE \/ /\ sessions' = sessions \cup {[conn |-> c, born |-> streams']}
               /\ UNCHANGED lost
            \/ /\ lost' = lost + 1    \* no memory for its buffer
               /\ UNCHANGED sessions

\* The parsers may end the session the data is given to.
Data(c) ==
    /\ Delivering(c)
    /\ sessions' \in {sessions, sessions \ Found(c)}
    /\ UNCHANGED lost

\* Mutant: a close leaves the session in the table.
CloseNothing(c) == Ended(c) /\ UNCHANGED tableVars
Close(c) ==
    /\ Ended(c)
    /\ sessions' = sessions \ Found(c)
    /\ UNCHANGED lost

TimeOut(c) == GivenUp(c) /\ UNCHANGED tableVars

Init == StreamsInit /\ sessions = {} /\ lost = 0

Next == \E c \in Conns : Open(c) \/ Data(c) \/ Close(c) \/ TimeOut(c)

Spec == Init /\ [][Next]_vars

-----------------------------------------------------------------------------
TypeOK ==
    /\ StreamsTypeOK
    /\ sessions \subseteq [conn : Conns, born : 1..streams]
    /\ IsFiniteSet(sessions) /\ lost \in Nat

\* The pool is never overdrawn: sessions and lost entries fit in it.
WithinCapacity == Cardinality(sessions) + lost <= Capacity

\* Connections whose streams the second test of the search never takes for
\* another's: those that do not start from port 25.
Ordinary == {c \in Conns : c.sport # SmtpPort}

\* Sessions that outlive their streams come from streams libnids gave up, and
\* from nothing else: a close always finds the session of its own stream.
StaleOnlyAbandoned ==
    \A s \in sessions : s.conn \in Ordinary =>
       \/ s.conn \in up /\ s.born = serial[s.conn]
       \/ s.born \in abandoned

\* The data of a stream whose session is in the table reaches that session,
\* whatever stale sessions with the same addresses are still there.
OwnSessionFound ==
    \A c \in up \cap Ordinary :
       [conn |-> c, born |-> serial[c]] \in sessions
         => Found(c) = {[conn |-> c, born |-> serial[c]]}

=============================================================================

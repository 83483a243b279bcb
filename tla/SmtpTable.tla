------------------------------ MODULE SmtpTable ------------------------------
(***************************************************************************)
(* The session table of src/smtp.c with its pointers: the pool of          *)
(* smtp_info entries threaded by next_free, and the buckets of             *)
(* smtp_info_table, doubly linked by next_node and prev_node.  It          *)
(* implements SessionTable.                                                *)
(***************************************************************************)
EXTENDS TcpStreams, FiniteSets, SequencesExt

CONSTANTS
    HashIndex,  \* a_tcp->hash_index of each connection
    TblSize     \* smtp_tbl_size

ASSUME TblSizeAssumption == TblSize \in Nat \ {0}
ASSUME HashIndexAssumption == HashIndex \in [Conns -> Nat]

VARIABLES
    nextFree,   \* next_free of each entry
    freeSmtps,  \* free_smtps
    table,      \* smtp_info_table
    next,       \* next_node of each entry
    prev,       \* prev_node of each entry
    hash,       \* hash_index of each entry
    conn,       \* saddr, sport, daddr, dport of each entry
    num,        \* smtp_num
    born,       \* the stream the entry was taken for
    lost        \* entries taken from the pool and never linked

tableVars == <<nextFree, freeSmtps, table, next, prev, hash, conn, num, born, lost>>
vars == <<streamVars, tableVars>>

MaxSmtps == (3 * TblSize) \div 4
Slots == 0..MaxSmtps
Buckets == 0..(TblSize - 1)
Nil == -1
NoConn == [saddr |-> "", sport |-> 0, daddr |-> "", dport |-> 0]

Bucket(c) == HashIndex[c] % TblSize

\* The entries met from s on by a list's pointers, at most one more than there are.
List(pointer, s) ==
    LET at[n \in 0..(MaxSmtps + 1)] ==
          IF n = 0 THEN s ELSE IF at[n - 1] = Nil THEN Nil ELSE pointer[at[n - 1]]
        met == {n \in 0..(MaxSmtps + 1) : at[n] # Nil}
    IN [i \in 1..Cardinality(met) |-> at[i - 1]]
Chain(b) == List(next, table[b])
FreeList == List(nextFree, freeSmtps)

-----------------------------------------------------------------------------
Matches(c, e) ==
    \/ /\ c.sport = e.sport /\ c.dport = e.dport
       /\ c.saddr = e.saddr /\ c.daddr = e.daddr
    \/ /\ c.sport = e.dport /\ c.dport = e.dport
       /\ c.saddr = e.daddr /\ c.daddr = e.saddr

\* Mutant: the search goes on to the last entry with the stream's addresses.
SearchLast(c) ==
    LET chain == Reverse(Chain(Bucket(c)))
        i == SelectInSeq(chain, LAMBDA s : Matches(c, conn[s]))
    IN IF i = 0 THEN Nil ELSE chain[i]

\* search_smtp_info: the first entry of the bucket with the stream's addresses.
Search(c) ==
    LET chain == Chain(Bucket(c))
        i == SelectInSeq(chain, LAMBDA s : Matches(c, conn[s]))
    IN IF i = 0 THEN Nil ELSE chain[i]

\* Mutant: smtp_num is not decremented.
FreeUncounted(s) ==
    /\ prev' = IF next[s] # Nil THEN [prev EXCEPT ![next[s]] = prev[s]] ELSE prev
    /\ IF prev[s] # Nil
       THEN next' = [next EXCEPT ![prev[s]] = next[s]] /\ UNCHANGED table
       ELSE table' = [table EXCEPT ![hash[s]] = next[s]] /\ UNCHANGED next
    /\ nextFree' = [nextFree EXCEPT ![s] = freeSmtps]
    /\ freeSmtps' = s
    /\ UNCHANGED <<num, hash, conn, born, lost>>

\* free_smtp_info: unlink the entry from its bucket, push it on the free list.
FreeSmtpInfo(s) ==
    /\ prev' = IF next[s] # Nil THEN [prev EXCEPT ![next[s]] = prev[s]] ELSE prev
    /\ IF prev[s] # Nil
       THEN next' = [next EXCEPT ![prev[s]] = next[s]] /\ UNCHANGED table
       ELSE table' = [table EXCEPT ![hash[s]] = next[s]] /\ UNCHANGED next
    /\ nextFree' = [nextFree EXCEPT ![s] = freeSmtps]
    /\ freeSmtps' = s
    /\ num' = num - 1
    /\ UNCHANGED <<hash, conn, born, lost>>

\* The entry on top of the free list is taken and cleared.
Taken(s, b) ==
    /\ freeSmtps' = nextFree[s]
    /\ nextFree' = [nextFree EXCEPT ![s] = Nil]
    /\ hash' = [hash EXCEPT ![s] = b]

\* Mutant: the old head of the bucket keeps no pointer to the new one.
LinkedOneWay(c, s, b) ==
    /\ next' = [next EXCEPT ![s] = table[b]]
    /\ prev' = [prev EXCEPT ![s] = Nil]
    /\ table' = [table EXCEPT ![b] = s]
    /\ conn' = [conn EXCEPT ![s] = c]
    /\ born' = [born EXCEPT ![s] = streams']
    /\ num' = num + 1
    /\ UNCHANGED lost

\* Mutant: the new entry goes behind the head of its bucket.
LinkedSecond(c, s, b) ==
    LET h == table[b] IN
    IF h = Nil THEN LinkedOneWay(c, s, b)
    ELSE /\ next' = [next EXCEPT ![s] = next[h], ![h] = s]
         /\ prev' = [i \in Slots |-> IF i = s THEN h ELSE IF i = next[h] THEN s ELSE prev[i]]
         /\ conn' = [conn EXCEPT ![s] = c] /\ born' = [born EXCEPT ![s] = streams']
         /\ num' = num + 1 /\ UNCHANGED <<table, lost>>

\* The entry becomes the head of its bucket.
Linked(c, s, b) ==
    LET tolink == table[b] IN
    /\ next' = [next EXCEPT ![s] = tolink]
    /\ prev' = [i \in Slots |-> IF i = s THEN Nil ELSE IF i = tolink THEN s ELSE prev[i]]
    /\ table' = [table EXCEPT ![b] = s]
    /\ conn' = [conn EXCEPT ![s] = c]
    /\ born' = [born EXCEPT ![s] = streams']
    /\ num' = num + 1
    /\ UNCHANGED lost

\* The allocation of cli_buf fails: the entry is in no list, and not counted.
NoBuffer(c, s) ==
    /\ next' = [next EXCEPT ![s] = Nil]
    /\ prev' = [prev EXCEPT ![s] = Nil]
    /\ conn' = [conn EXCEPT ![s] = c]
    /\ born' = [born EXCEPT ![s] = streams']
    /\ lost' = lost \cup {s}
    /\ UNCHANGED <<table, num>>

\* new_smtp_info.
NewSmtpInfo(c) ==
    LET s == freeSmtps b == Bucket(c) IN
    IF num > MaxSmtps \/ s = Nil THEN UNCHANGED tableVars
    ELSE Taken(s, b) /\ (Linked(c, s, b) \/ NoBuffer(c, s))

-----------------------------------------------------------------------------
(***************************************************************************)
(* process_smtp, as process_tcpdata calls it                               *)
(***************************************************************************)
Open(c) == Established(c) /\ NewSmtpInfo(c)

\* The parsers return an error and the session is closed, or they do not.
Data(c) ==
    /\ Delivering(c)
    /\ \/ UNCHANGED tableVars
       \/ Search(c) # Nil /\ FreeSmtpInfo(Search(c))

Close(c) ==
    /\ Ended(c)
    /\ IF Search(c) # Nil THEN FreeSmtpInfo(Search(c)) ELSE UNCHANGED tableVars

TimeOut(c) == GivenUp(c) /\ UNCHANGED tableVars

\* Mutant: the free list is not terminated.
InitUnterminated ==
    /\ StreamsInit
    /\ nextFree = [s \in Slots |-> s + 1]
    /\ freeSmtps = 0
    /\ table = [b \in Buckets |-> Nil]
    /\ next = [s \in Slots |-> Nil] /\ prev = [s \in Slots |-> Nil]
    /\ hash = [s \in Slots |-> 0] /\ conn = [s \in Slots |-> NoConn]
    /\ num = 0
    /\ born = [s \in Slots |-> 0] /\ lost = {}

\* smtp_init: every entry is on the free list.
Init ==
    /\ StreamsInit
    /\ nextFree = [s \in Slots |-> IF s = MaxSmtps THEN Nil ELSE s + 1]
    /\ freeSmtps = 0
    /\ table = [b \in Buckets |-> Nil]
    /\ next = [s \in Slots |-> Nil] /\ prev = [s \in Slots |-> Nil]
    /\ hash = [s \in Slots |-> 0] /\ conn = [s \in Slots |-> NoConn]
    /\ num = 0
    /\ born = [s \in Slots |-> 0] /\ lost = {}

Next == \E c \in Conns : Open(c) \/ Data(c) \/ Close(c) \/ TimeOut(c)

Spec == Init /\ [][Next]_vars

-----------------------------------------------------------------------------
LinkedSlots == UNION {Range(Chain(b)) : b \in Buckets}

TypeOK ==
    /\ StreamsTypeOK
    /\ nextFree \in [Slots -> Slots \cup {Nil}] /\ freeSmtps \in Slots \cup {Nil}
    /\ table \in [Buckets -> Slots \cup {Nil}]
    /\ next \in [Slots -> Slots \cup {Nil}] /\ prev \in [Slots -> Slots \cup {Nil}]
    /\ hash \in [Slots -> Buckets] /\ conn \in [Slots -> Conns \cup {NoConn}]
    /\ born \in [Slots -> 0..streams] /\ lost \subseteq Slots

\* Every entry of the pool is in exactly one place, once: the free list, the
\* bucket of its hash, or lost; smtp_num counts the linked ones, and its test
\* never refuses an entry that is free.
PoolPartitioned ==
    /\ LET lists == {FreeList} \cup {Chain(b) : b \in Buckets} IN
       \A l \in lists : IsInjective(l)
    /\ \A b \in Buckets : \A s \in Range(Chain(b)) : hash[s] = b
    /\ Range(FreeList) \cap LinkedSlots = {} /\ lost \cap LinkedSlots = {}
    /\ Range(FreeList) = Slots \ (LinkedSlots \cup lost)
    /\ num = Cardinality(LinkedSlots)
    /\ num > MaxSmtps => freeSmtps = Nil

\* The buckets can be walked both ways: prev_node undoes next_node, so that
\* free_smtp_info unlinks an entry wherever it stands.
LinksConsistent ==
    \A b \in Buckets :
       LET chain == Chain(b) IN
       \A i \in 1..Len(chain) :
          prev[chain[i]] = IF i = 1 THEN Nil ELSE chain[i - 1]

\* The newer of two entries of a bucket is met first.
NewestFirst ==
    \A b \in Buckets :
       LET chain == Chain(b) IN
       \A i \in 1..Len(chain) : \A j \in (i + 1)..Len(chain) : born[chain[i]] > born[chain[j]]

\* The table with its pointers does what SessionTable promises.
Promise == INSTANCE SessionTable WITH
    sessions <- {[conn |-> conn[s], born |-> born[s]] : s \in LinkedSlots},
    lost <- Cardinality(lost)
Implements == Promise!Spec

=============================================================================

------------------------------- MODULE MemPool -------------------------------
(***************************************************************************)
(* src/mem_pool: free objects of one size, chained through their first     *)
(* word.  A pool is a record: the first node (head), the chain (next, a    *)
(* function on the nodes that are in the pool) and the count (num).  One   *)
(* thread uses them, so the mutex is left out.                             *)
(***************************************************************************)
EXTENDS Integers, Sequences, FiniteSetsExt, SequencesExt, Functions

CONSTANT ReallocLen   \* MEM_POOL_REALLOC_LEN
ASSUME ReallocLenAssumption == ReallocLen \in Nat \ {0}

None == 0   \* NULL

EmptyPool == [head |-> None, next |-> << >>, num |-> 0]

\* Mutant: an object given back takes the place of the chain.
FreeMemCut(p, o) ==
    [head |-> o, num |-> p.num + 1,
     next |-> [x \in DOMAIN p.next \cup {o} |-> IF x = o THEN None ELSE p.next[x]]]
FreeMem(p, o) ==
    [head |-> o, num |-> p.num + 1,
     next |-> [x \in DOMAIN p.next \cup {o} |-> IF x = o THEN p.head ELSE p.next[x]]]

\* The pools p may be when up to n objects have been made of the memory that
\* is free, the lowest block first; malloc may refuse at any of them.
Grown(p, free) ==
    LET left == free \ DOMAIN p.next IN IF left = {} THEN p ELSE FreeMem(p, Min(left))
Filled(p, n, free) ==
    LET q[k \in 0..n] == IF k = 0 THEN p ELSE Grown(q[k - 1], free)
    IN {q[k] : k \in 0..n}

\* The pool without its first object.
Taken(p) ==
    [head |-> p.next[p.head], next |-> Restrict(p.next, DOMAIN p.next \ {p.head}),
     num |-> p.num - 1]

\* [pool, got]: got is the object or None.
AllocMem(p, free) ==
    {IF q.num > 0 THEN [pool |-> Taken(q), got |-> q.head] ELSE [pool |-> q, got |-> None] :
       q \in IF p.num > 0 THEN {p} ELSE Filled(p, ReallocLen, free)}

\* The nodes from the head on, as many as the count says.
Chain(p) ==
    LET c[k \in 0..p.num] == IF k = 0 THEN p.head ELSE p.next[c[k - 1]]
    IN [k \in 1..p.num |-> c[k - 1]]

\* What a pool is: a chain without repetition, as long as the count says.
Sound(p) ==
    /\ p.num = Cardinality(DOMAIN p.next)
    /\ ToSet(Chain(p)) = DOMAIN p.next
    /\ p.num = 0 => p.head = None
==============================================================================

-------------------------------- MODULE Clist --------------------------------
(***************************************************************************)
(* src/clist: doubly linked lists, as far as the program uses them: new,   *)
(* append, foreach and free.  A list is a record: the memory of the list   *)
(* itself (at), its cells by their address, the ends and the count.        *)
(***************************************************************************)
EXTENDS Integers, Sequences, Functions

NULL == 0

ClistNew(b) == [at |-> b, cells |-> << >>, first |-> NULL, last |-> NULL, number |-> 0]
IsEmpty(l) == l.first = l.last /\ l.last = NULL

\* The cell c goes in behind the cell iter, or at the end.
\* Mutant: the cell in front is not linked to c.
InsertAfterOneWay(l, iter, c, data) ==
    LET i == IF iter = NULL THEN l.last ELSE iter
        cell == [data |-> data, previous |-> i, next |-> NULL]
    IN [l EXCEPT !.cells = [x \in DOMAIN @ \cup {c} |-> IF x = c THEN cell ELSE @[x]],
                 !.first = IF IsEmpty(l) THEN c ELSE @, !.last = c, !.number = @ + 1]
InsertAfter(l, iter, c, data) ==
    LET i == IF iter = NULL THEN l.last ELSE iter
        n == IF i = NULL THEN NULL ELSE l.cells[i].next
        linked == [x \in DOMAIN l.cells \cup {c} |->
                     CASE x = c -> [data |-> data, previous |-> i, next |-> n]
                       [] x # c /\ x = i -> [l.cells[x] EXCEPT !.next = c]
                       [] x # c /\ x # i /\ x = n -> [l.cells[x] EXCEPT !.previous = c]
                       [] OTHER -> l.cells[x]]
    IN [l EXCEPT !.cells = linked, !.first = IF IsEmpty(l) THEN c ELSE @,
                 !.last = IF n = NULL THEN c ELSE @, !.number = @ + 1]
ClistAppend(l, c, data) == InsertAfter(l, l.last, c, data)

\* The contents from one end to the other, as foreach meets them.
From(l, c, link) ==
    LET data[x \in DOMAIN l.cells \cup {NULL}] ==
          IF x = NULL THEN <<>> ELSE <<l.cells[x].data>> \o data[l.cells[x][link]]
    IN data[c]
Foreach(l) == From(l, l.first, "next")
Backwards(l) == From(l, l.last, "previous")
==============================================================================

----------------------------- MODULE MmapString -----------------------------
(***************************************************************************)
(* The growing strings of src/mmapstring, as far as the decoders of bodies *)
(* use them.  The build defines MMAP_UNAVAILABLE, so a string lives in the *)
(* heap and grows by realloc.  A string is a record: what it holds (str),  *)
(* the bytes that are allocated for it (room), and whether the last call   *)
(* was granted its memory (ok).  A call has several outcomes where memory  *)
(* may be refused, so each operator is the set of them.                    *)
(***************************************************************************)
EXTENDS Integers, Sequences, FiniteSetsExt

CONSTANT MayRefuse   \* TRUE: malloc and realloc may fail
ASSUME MayRefuseAssumption == MayRefuse \in BOOLEAN

\* nearest_power (1, n): the least power of two that is not below n.
NearestPower(n) == Min({p \in {2 ^ k : k \in 0..n} : p >= n})

\* One byte is for the NUL.
Needed(s, n) == Len(s.str) + n + 1

\* A string that is not granted its memory keeps the room it had.
MaybeExpand(s, n) ==
    IF Needed(s, n) <= s.room THEN {s}
    ELSE {[s EXCEPT !.room = NearestPower(Needed(s, n))]}
         \cup (IF MayRefuse THEN {[s EXCEPT !.ok = FALSE]} ELSE {})

AppendLen(s, val) ==
    {IF t.ok THEN [t EXCEPT !.str = @ \o val] ELSE t : t \in MaybeExpand(s, Len(val))}

NullString == [str |-> <<>>, room |-> 0, ok |-> TRUE]
SizedNew(n) == MaybeExpand(NullString, IF n < 2 THEN 2 ELSE n)
NewLen(val) == UNION {IF s.ok THEN AppendLen(s, val) ELSE {s} : s \in SizedNew(Len(val))}
=============================================================================

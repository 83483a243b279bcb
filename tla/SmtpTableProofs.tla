--------------------------- MODULE SmtpTableProofs ---------------------------
(***************************************************************************)
(* The pointers of SmtpTable, for every table and every set of             *)
(* connections: its lists stay lists, every entry is in one of them, and   *)
(* the table does what SessionTable promises.                              *)
(***************************************************************************)
EXTENDS SmtpTable, SequenceTheorems, FiniteSetTheorems, WellFoundedInduction, TLAPS

-----------------------------------------------------------------------------
(***************************************************************************)
(* Lists.                                                                  *)
(***************************************************************************)
\* A set of naturals has a least element.
LEMMA LeastNatural ==
    ASSUME NEW S, S \subseteq Nat, S # {}
    PROVE  Min(S) \in S /\ \A y \in S : Min(S) <= y
<1>1. \A x, y \in Nat : x < y => <<x, y>> \in OpToRel(<, Nat)
  BY DEF OpToRel
<1>2. PICK x \in S : \A y \in S : ~(<<y, x>> \in OpToRel(<, Nat))
  BY NatLessThanWellFounded, WFMin
<1>3. \A y \in S : ~(y < x)
  BY <1>1, <1>2
<1>4. \A y \in S : x <= y
  BY <1>3
<1> QED
  BY <1>4 DEF Min

\* Induction, for sets of naturals.
LEMMA Induction ==
    ASSUME NEW S, 0 \in S, \A n \in Nat : n \in S => n + 1 \in S
    PROVE  Nat \subseteq S
<1> SUFFICES ASSUME Nat \ S # {} PROVE FALSE
  OBVIOUS
<1> DEFINE x == Min(Nat \ S)
<1>1. x \in Nat \ S /\ \A y \in Nat \ S : x <= y
  <2>1. Nat \ S \subseteq Nat
    OBVIOUS
  <2> QED
    BY <2>1, LeastNatural
<1> HIDE DEF x
<1>2. x \in Nat /\ x # 0
  BY <1>1
<1> DEFINE y == x - 1
<1>3. y \in Nat /\ y < x /\ y + 1 = x
  BY <1>2
<1> HIDE DEF y
<1>4. y \in S
  BY <1>1, <1>2, <1>3
<1> QED
  BY <1>1, <1>3, <1>4

\* The pool has one entry more than max_smtps.
LEMMA PoolSize == MaxSmtps \in Nat /\ IsFiniteSet(Slots) /\ Cardinality(Slots) = MaxSmtps + 1
<1>1. MaxSmtps \in Nat
  BY TblSizeAssumption DEF MaxSmtps
<1> QED
  BY <1>1, FS_Interval DEF Slots

\* The entries of seq in this order are those the pointer leads to from head on.
Walk(pointer, head, seq) ==
    /\ head = IF seq = <<>> THEN Nil ELSE seq[1]
    /\ \A i \in 1..Len(seq) : pointer[seq[i]] = IF i = Len(seq) THEN Nil ELSE seq[i + 1]

\* One step of List.
Met(pointer, s, at, n) ==
    IF n = 0 THEN s ELSE IF at[n - 1] = Nil THEN Nil ELSE pointer[at[n - 1]]

\* A list can be followed from any entry, for any number of steps.
LEMMA MetExists ==
    ASSUME NEW pointer, NEW s
    PROVE  \A m \in Nat : \E at : at = [n \in 0..m |-> Met(pointer, s, at, n)]
<1> DEFINE Ok(m) == \E at : at = [n \in 0..m |-> Met(pointer, s, at, n)]
           S == {m \in Nat : Ok(m)}
<1>1. Ok(0)
  <2> DEFINE at == [n \in 0..0 |-> s]
  <2>1. at = [n \in 0..0 |-> Met(pointer, s, at, n)]
    BY DEF Met
  <2> QED
    BY <2>1
<1>2. ASSUME NEW m \in Nat, Ok(m) PROVE Ok(m + 1)
  <2>1. PICK f : f = [n \in 0..m |-> Met(pointer, s, f, n)]
    BY <1>2
  <2> DEFINE g == [n \in 0..(m + 1) |-> IF n = m + 1 THEN Met(pointer, s, f, m + 1) ELSE f[n]]
  <2>2. \A n \in 0..m : g[n] = f[n]
    OBVIOUS
  <2>3. \A n \in 0..m : f[n] = Met(pointer, s, f, n)
    BY <2>1
  <2>4. \A n \in 0..(m + 1) : Met(pointer, s, g, n) = Met(pointer, s, f, n)
    <3> HIDE DEF g
    <3> QED
      BY <2>2 DEF Met
  <2>5. \A n \in 0..(m + 1) : g[n] = Met(pointer, s, g, n)
    BY <2>3, <2>4
  <2>6. g = [n \in 0..(m + 1) |-> Met(pointer, s, g, n)]
    BY <2>5
  <2> QED
    BY <2>6
<1> HIDE DEF Ok
<1>3. 0 \in S /\ \A n \in Nat : n \in S => n + 1 \in S
  BY <1>1, <1>2
<1> HIDE DEF S
<1>4. Nat \subseteq S
  BY <1>3, Induction
<1>5. \A m \in Nat : Ok(m)
  BY <1>4 DEF S
<1> QED
  BY <1>5 DEF Ok

\* A sequence the pointers walk through is the list they make.
LEMMA WalkIsList ==
    ASSUME NEW pointer, NEW s, NEW seq \in Seq(Slots), Len(seq) <= MaxSmtps + 1,
           Walk(pointer, s, seq)
    PROVE  List(pointer, s) = seq
<1> DEFINE D == 0..(MaxSmtps + 1)
           N == Len(seq)
           at == CHOOSE f : f = [n \in D |-> Met(pointer, s, f, n)]
           met == {n \in D : at[n] # Nil}
           Ok(n) == at[n] = IF n < N THEN seq[n + 1] ELSE Nil
           S == {n \in Nat : n \in D => Ok(n)}
<1>1. at = [n \in D |-> Met(pointer, s, at, n)]
  <2>1. \E f : f = [n \in D |-> Met(pointer, s, f, n)]
    <3>1. MaxSmtps + 1 \in Nat
      BY PoolSize
    <3> QED
      BY <3>1, MetExists
  <2> QED
    BY <2>1
<1>2. List(pointer, s) = [i \in 1..Cardinality(met) |-> at[i - 1]]
  BY DEF List, Met
<1>3. N \in Nat /\ N <= MaxSmtps + 1 /\ \A i \in 1..N : seq[i] \in Slots /\ seq[i] # Nil
  BY PoolSize DEF Slots, Nil
<1>4. seq = <<>> <=> N = 0
  OBVIOUS
<1> HIDE DEF N, at
<1>5. Ok(0)
  BY <1>1, <1>3, <1>4, PoolSize DEF Met, Walk
<1>6. ASSUME NEW n \in Nat, n + 1 \in D, Ok(n) PROVE Ok(n + 1)
  <2>1. at[n + 1] = IF at[n] = Nil THEN Nil ELSE pointer[at[n]]
    <3>1. n + 1 # 0 /\ (n + 1) - 1 = n
      OBVIOUS
    <3>2. at[n + 1] = Met(pointer, s, at, n + 1)
      BY <1>1, <1>6
    <3> QED
      BY <3>1, <3>2 DEF Met
  <2>2. CASE n < N
    <3>1. at[n] = seq[n + 1] /\ n + 1 \in 1..N /\ at[n] # Nil
      BY <1>3, <1>6, <2>2
    <3>2. pointer[seq[n + 1]] = IF n + 1 = N THEN Nil ELSE seq[n + 2]
      BY <3>1 DEF Walk, N
    <3> QED
      BY <1>3, <2>1, <2>2, <3>1, <3>2
  <2>3. CASE ~(n < N)
    BY <1>3, <1>6, <2>1, <2>3
  <2> QED
    BY <2>2, <2>3
<1>7. Nat \subseteq S
  <2>1. 0 \in S
    BY <1>5
  <2>2. \A n \in Nat : n \in S => n + 1 \in S
    <3> HIDE DEF Ok
    <3> SUFFICES ASSUME NEW n \in Nat, n \in S, n + 1 \in D PROVE Ok(n + 1)
      OBVIOUS
    <3>1. n \in D
      BY PoolSize
    <3> QED
      BY <1>6, <3>1
  <2> HIDE DEF S
  <2> QED
    BY <2>1, <2>2, Induction
<1>8. \A n \in D : Ok(n)
  <2> HIDE DEF Ok
  <2> QED
    BY <1>7, PoolSize
<1>9. met = 0..(N - 1)
  BY <1>3, <1>8, PoolSize
<1>10. Cardinality(met) = N
  <2>1. Cardinality(0..(N - 1)) = IF 0 > N - 1 THEN 0 ELSE (N - 1) - 0 + 1
    BY <1>3, FS_Interval
  <2> HIDE DEF met
  <2> QED
    BY <1>3, <1>9, <2>1
<1>11. \A i \in 1..N : at[i - 1] = seq[i]
  BY <1>3, <1>8, PoolSize
<1>12. seq = [i \in 1..N |-> seq[i]]
  BY DEF N
<1> HIDE DEF met
<1> QED
  BY <1>2, <1>10, <1>11, <1>12

-----------------------------------------------------------------------------
(***************************************************************************)
(* One entry more, one entry less.                                         *)
(***************************************************************************)
Prefixed(s, seq) == [i \in 1..(Len(seq) + 1) |-> IF i = 1 THEN s ELSE seq[i - 1]]
Without(seq, k) == [i \in 1..(Len(seq) - 1) |-> IF i < k THEN seq[i] ELSE seq[i + 1]]

\* A function on 1..n is a sequence of length n.
LEMMA SeqFromFunction ==
    ASSUME NEW S, NEW n \in Nat, NEW f \in [1..n -> S]
    PROVE  f \in Seq(S) /\ Len(f) = n /\ Range(f) = {f[i] : i \in 1..n}
<1>1. f \in Seq(S)
  OBVIOUS
<1>2. DOMAIN f = 1..n
  OBVIOUS
<1>3. Len(f) = n
  BY <1>1, <1>2, LenProperties
<1> QED
  BY <1>1, <1>2, <1>3 DEF Range

\* A sequence is a function on 1..Len.
LEMMA SeqFacts ==
    ASSUME NEW S, NEW f \in Seq(S)
    PROVE  /\ Len(f) \in Nat /\ DOMAIN f = 1..Len(f)
           /\ Range(f) = {f[i] : i \in 1..Len(f)} /\ Range(f) \subseteq S
           /\ \A i \in 1..Len(f) : f[i] \in S
           /\ f = <<>> <=> Len(f) = 0
<1>1. Len(f) \in Nat /\ DOMAIN f = 1..Len(f) /\ \A i \in 1..Len(f) : f[i] \in S
  OBVIOUS
<1>2. f = <<>> <=> Len(f) = 0
  OBVIOUS
<1> QED
  BY <1>1, <1>2 DEF Range

\* One entry more at the head of a list without an entry twice.
LEMMA PrefixedSeq ==
    ASSUME NEW S, NEW f \in Seq(S), NEW s \in S, s \notin Range(f), IsInjective(f)
    PROVE  /\ Prefixed(s, f) \in Seq(S) /\ Len(Prefixed(s, f)) = Len(f) + 1
           /\ Range(Prefixed(s, f)) = Range(f) \cup {s}
           /\ IsInjective(Prefixed(s, f))
<1> DEFINE N == Len(f)
           g == Prefixed(s, f)
<1>1. /\ N \in Nat /\ DOMAIN f = 1..N
      /\ Range(f) = {f[i] : i \in 1..N} /\ \A i \in 1..N : f[i] \in S
  BY SeqFacts
<1>2. g = [i \in 1..(N + 1) |-> IF i = 1 THEN s ELSE f[i - 1]]
  BY DEF Prefixed
<1> HIDE DEF N, g
<1>3. g \in [1..(N + 1) -> S]
  BY <1>1, <1>2
<1>4. g \in Seq(S) /\ Len(g) = N + 1 /\ Range(g) = {g[i] : i \in 1..(N + 1)}
  BY <1>1, <1>3, SeqFromFunction
<1>5. Range(g) = Range(f) \cup {s}
  <2>1. g[1] = s /\ \A i \in 1..N : i + 1 \in 1..(N + 1) /\ g[i + 1] = f[i]
    BY <1>1, <1>2
  <2>2. \A i \in 1..(N + 1) : i = 1 \/ (i - 1 \in 1..N /\ g[i] = f[i - 1])
    BY <1>1, <1>2
  <2>3. Range(g) \subseteq Range(f) \cup {s}
    BY <1>1, <1>4, <2>1, <2>2
  <2>4. Range(f) \cup {s} \subseteq Range(g)
    <3>1. 1 \in 1..(N + 1)
      BY <1>1
    <3> QED
      BY <1>1, <1>4, <2>1, <3>1
  <2> QED
    BY <2>3, <2>4
<1>6. IsInjective(g)
  <2>1. \A i \in 1..N : f[i] # s
    BY <1>1
  <2>2. \A i, j \in 1..N : f[i] = f[j] => i = j
    BY <1>1 DEF IsInjective
  <2> SUFFICES ASSUME NEW i \in 1..(N + 1), NEW j \in 1..(N + 1), g[i] = g[j] PROVE i = j
    BY <1>2 DEF IsInjective
  <2>3. i = 1 \/ (i - 1 \in 1..N /\ g[i] = f[i - 1])
    BY <1>1, <1>2
  <2>4. j = 1 \/ (j - 1 \in 1..N /\ g[j] = f[j - 1])
    BY <1>1, <1>2
  <2>5. g[1] = s
    BY <1>1, <1>2
  <2> QED
    BY <2>1, <2>2, <2>3, <2>4, <2>5
<1> QED
  BY <1>4, <1>5, <1>6 DEF g, N

\* One entry less in a list without an entry twice.
LEMMA WithoutSeq ==
    ASSUME NEW S, NEW f \in Seq(S), NEW k \in 1..Len(f), IsInjective(f)
    PROVE  /\ Without(f, k) \in Seq(S) /\ Len(Without(f, k)) = Len(f) - 1
           /\ Range(Without(f, k)) = Range(f) \ {f[k]}
           /\ IsInjective(Without(f, k))
<1> DEFINE N == Len(f)
           g == Without(f, k)
<1>1. /\ N \in Nat /\ DOMAIN f = 1..N /\ k \in 1..N
      /\ Range(f) = {f[i] : i \in 1..N} /\ \A i \in 1..N : f[i] \in S
      /\ \A i, j \in 1..N : f[i] = f[j] => i = j
  BY SeqFacts DEF IsInjective
<1>2. g = [i \in 1..(N - 1) |-> IF i < k THEN f[i] ELSE f[i + 1]]
  BY DEF Without
<1> HIDE DEF N, g
<1>3. N - 1 \in Nat /\ g \in [1..(N - 1) -> S]
  BY <1>1, <1>2
<1>4. g \in Seq(S) /\ Len(g) = N - 1 /\ Range(g) = {g[i] : i \in 1..(N - 1)}
  BY <1>3, SeqFromFunction
<1> DEFINE Old(i) == IF i < k THEN i ELSE i + 1
           New(i) == IF i < k THEN i ELSE i - 1
<1>5. \A i \in 1..(N - 1) : Old(i) \in 1..N /\ Old(i) # k /\ g[i] = f[Old(i)] /\ New(Old(i)) = i
  BY <1>1, <1>2
<1>6. \A i \in 1..N : i # k => New(i) \in 1..(N - 1) /\ Old(New(i)) = i
  BY <1>1
<1> HIDE DEF Old, New
<1>7. Range(g) = Range(f) \ {f[k]}
  <2>1. Range(g) \subseteq Range(f) \ {f[k]}
    BY <1>1, <1>4, <1>5
  <2>2. Range(f) \ {f[k]} \subseteq Range(g)
    <3> SUFFICES ASSUME NEW i \in 1..N, f[i] # f[k] PROVE f[i] \in Range(g)
      BY <1>1
    <3>1. i # k
      OBVIOUS
    <3>2. New(i) \in 1..(N - 1) /\ Old(New(i)) = i
      BY <1>6, <3>1
    <3>3. g[New(i)] = f[i]
      BY <1>5, <3>2
    <3> QED
      BY <1>4, <3>2, <3>3
  <2> QED
    BY <2>1, <2>2
<1>8. IsInjective(g)
  <2> SUFFICES ASSUME NEW i \in 1..(N - 1), NEW j \in 1..(N - 1), g[i] = g[j] PROVE i = j
    BY <1>2 DEF IsInjective
  <2>1. Old(i) = Old(j)
    BY <1>1, <1>5
  <2> QED
    BY <1>5, <2>1
<1> QED
  BY <1>4, <1>7, <1>8 DEF g, N

\* A list by its forward pointers, without an entry twice.
Singly(n, head, seq) == seq \in Seq(Slots) /\ IsInjective(seq) /\ Walk(n, head, seq)

\* A list by both its pointers.
Back(p, seq) == \A i \in 1..Len(seq) : p[seq[i]] = IF i = 1 THEN Nil ELSE seq[i - 1]
Doubly(n, p, head, seq) == Singly(n, head, seq) /\ Back(p, seq)

\* No entry is taken for the null pointer.
LEMMA SlotsAreNotNil == Nil \notin Slots
BY DEF Nil, Slots

\* A list without an entry twice is no longer than the pool, so List finds it all.
LEMMA SinglyList ==
    ASSUME NEW n, NEW head, NEW seq, Singly(n, head, seq)
    PROVE  List(n, head) = seq
<1>1. seq \in Seq(Slots) /\ Len(seq) \in Nat /\ \A i \in 1..Len(seq) : seq[i] \in Slots
  BY SeqFacts DEF Singly
<1>2. seq \in Injection(1..Len(seq), Slots)
  <2>1. seq \in [1..Len(seq) -> Slots]
    BY <1>1
  <2>2. \A i, j \in 1..Len(seq) : seq[i] = seq[j] => i = j
    BY <1>1, SeqFacts DEF Singly, IsInjective
  <2> QED
    BY <2>1, <2>2 DEF Injection, IsInjective
<1>3. Len(seq) <= MaxSmtps + 1
  <2>1. IsFiniteSet(1..Len(seq)) /\ Cardinality(1..Len(seq)) = Len(seq)
    <3> DEFINE N == Len(seq)
    <3>1. N \in Nat
      BY <1>1
    <3> HIDE DEF N
    <3>2. IsFiniteSet(1..N) /\ Cardinality(1..N) = N
      BY <3>1, FS_Interval
    <3> QED
      BY <3>2 DEF N
  <2>2. Cardinality(1..Len(seq)) <= Cardinality(Slots)
    BY <1>2, <2>1, PoolSize, FS_Injection DEF ExistsInjection
  <2> QED
    BY <2>1, <2>2, PoolSize
<1> QED
  BY <1>1, <1>3, WalkIsList DEF Singly

\* A list stays while the forward pointers of its entries stay.
LEMMA SinglyFrame ==
    ASSUME NEW n, NEW m, NEW head, NEW seq, Singly(n, head, seq),
           \A e \in Range(seq) : m[e] = n[e]
    PROVE  Singly(m, head, seq)
<1>1. \A i \in 1..Len(seq) : m[seq[i]] = n[seq[i]]
  BY SeqFacts DEF Singly
<1> QED
  BY <1>1 DEF Singly, Walk

\* A bucket stays while the pointers of its entries stay.
LEMMA DoublyFrame ==
    ASSUME NEW n, NEW m, NEW p, NEW q, NEW head, NEW seq, Doubly(n, p, head, seq),
           \A e \in Range(seq) : m[e] = n[e] /\ q[e] = p[e]
    PROVE  Doubly(m, q, head, seq)
<1>1. \A i \in 1..Len(seq) : q[seq[i]] = p[seq[i]]
  BY SeqFacts DEF Doubly, Singly
<1>2. Singly(m, head, seq)
  BY SinglyFrame DEF Doubly
<1> QED
  BY <1>1, <1>2 DEF Doubly, Back

\* An entry whose forward pointer is the old head becomes the head.
LEMMA SinglyPush ==
    ASSUME NEW n, NEW m, NEW head, NEW seq, Singly(n, head, seq),
           NEW s \in Slots, s \notin Range(seq),
           m[s] = head, \A e \in Range(seq) : m[e] = n[e]
    PROVE  Singly(m, s, Prefixed(s, seq))
<1> DEFINE N == Len(seq)
           g == Prefixed(s, seq)
<1>1. /\ seq \in Seq(Slots) /\ N \in Nat /\ (seq = <<>> <=> N = 0)
      /\ \A i \in 1..N : seq[i] \in Range(seq)
      /\ head = IF N = 0 THEN Nil ELSE seq[1]
      /\ \A i \in 1..N : n[seq[i]] = IF i = N THEN Nil ELSE seq[i + 1]
  BY SeqFacts DEF Singly, Walk
<1>2. g \in Seq(Slots) /\ Len(g) = N + 1 /\ IsInjective(g)
  BY PrefixedSeq DEF Singly
<1>3. \A i \in 1..(N + 1) : g[i] = IF i = 1 THEN s ELSE seq[i - 1]
  BY DEF Prefixed
<1>4. g # <<>>
  BY <1>1, <1>2
<1> HIDE DEF N, g
<1>5. g[1] = s
  BY <1>1, <1>3
<1>6. ASSUME NEW i \in 1..(N + 1) PROVE m[g[i]] = IF i = N + 1 THEN Nil ELSE g[i + 1]
  <2>1. CASE i = 1
    <3>1. m[g[i]] = head
      BY <1>5, <2>1
    <3>2. N # 0 => g[i + 1] = seq[1]
      BY <1>1, <1>3, <2>1
    <3> QED
      BY <1>1, <2>1, <3>1, <3>2
  <2>2. CASE i # 1
    <3> DEFINE j == i - 1
    <3>1. j \in 1..N /\ i = j + 1 /\ g[i] = seq[j]
      BY <1>1, <1>3, <1>6, <2>2
    <3> HIDE DEF j
    <3>2. m[g[i]] = IF j = N THEN Nil ELSE seq[j + 1]
      BY <1>1, <3>1
    <3>3. j # N => g[i + 1] = seq[j + 1]
      <4> SUFFICES ASSUME j # N PROVE g[j + 2] = seq[j + 1]
        BY <3>1
      <4>1. j + 2 \in 1..(N + 1) /\ j + 2 # 1 /\ (j + 2) - 1 = j + 1
        BY <1>1, <3>1
      <4> QED
        BY <1>3, <4>1
    <3> QED
      BY <1>1, <3>1, <3>2, <3>3
  <2> QED
    BY <2>1, <2>2
<1> QED
  BY <1>2, <1>4, <1>5, <1>6 DEF Singly, Walk, g

\* An entry becomes the head of a bucket when the old head points back to it.
LEMMA DoublyPush ==
    ASSUME NEW n, NEW m, NEW p, NEW q, NEW head, NEW seq, Doubly(n, p, head, seq),
           NEW s \in Slots, s \notin Range(seq),
           m[s] = head, \A e \in Range(seq) : m[e] = n[e],
           q[s] = Nil, \A e \in Range(seq) : q[e] = IF e = head THEN s ELSE p[e]
    PROVE  Doubly(m, q, s, Prefixed(s, seq))
<1> DEFINE N == Len(seq)
           g == Prefixed(s, seq)
<1>1. /\ seq \in Seq(Slots) /\ N \in Nat /\ (seq = <<>> <=> N = 0)
      /\ \A i \in 1..N : seq[i] \in Range(seq)
      /\ head = IF N = 0 THEN Nil ELSE seq[1]
      /\ \A i \in 1..N : p[seq[i]] = IF i = 1 THEN Nil ELSE seq[i - 1]
      /\ \A i, j \in 1..N : seq[i] = seq[j] => i = j
  BY SeqFacts DEF Doubly, Back, Singly, Walk, IsInjective
<1>2. Len(g) = N + 1
  BY PrefixedSeq DEF Doubly, Singly
<1>3. \A i \in 1..(N + 1) : g[i] = IF i = 1 THEN s ELSE seq[i - 1]
  BY DEF Prefixed
<1>4. Singly(m, s, g)
  BY SinglyPush DEF Doubly
<1> HIDE DEF N, g
<1>5. g[1] = s
  BY <1>1, <1>3
<1>6. ASSUME NEW i \in 1..(N + 1) PROVE q[g[i]] = IF i = 1 THEN Nil ELSE g[i - 1]
  <2>1. CASE i = 1
    BY <1>5, <2>1
  <2>2. CASE i # 1
    <3> DEFINE j == i - 1
    <3>1. j \in 1..N /\ i = j + 1 /\ g[i] = seq[j]
      BY <1>1, <1>3, <1>6, <2>2
    <3> HIDE DEF j
    <3>2. head = seq[1] /\ 1 \in 1..N
      BY <1>1, <3>1
    <3>3. q[seq[j]] = IF j = 1 THEN s ELSE p[seq[j]]
      BY <1>1, <3>1, <3>2
    <3>4. j # 1 => j \in 1..(N + 1) /\ g[j] = seq[j - 1]
      BY <1>1, <1>3, <3>1
    <3> QED
      BY <1>1, <1>5, <3>1, <3>3, <3>4
  <2> QED
    BY <2>1, <2>2
<1> QED
  BY <1>2, <1>4, <1>6 DEF Doubly, Back, g

\* An entry leaves a list when the one before it takes over its forward pointer.
LEMMA SinglyRemove ==
    ASSUME NEW n, NEW m, NEW head, NEW seq, Singly(n, head, seq), NEW k \in 1..Len(seq),
           \A i \in 1..Len(seq) : i # k =>
              m[seq[i]] = IF i = k - 1 THEN n[seq[k]] ELSE n[seq[i]]
    PROVE  Singly(m, IF k = 1 THEN n[seq[k]] ELSE head, Without(seq, k))
<1> DEFINE N == Len(seq)
           g == Without(seq, k)
           h == IF k = 1 THEN n[seq[k]] ELSE head
<1>1. /\ seq \in Seq(Slots) /\ N \in Nat /\ (seq = <<>> <=> N = 0) /\ k \in 1..N
      /\ head = IF N = 0 THEN Nil ELSE seq[1]
      /\ \A i \in 1..N : n[seq[i]] = IF i = N THEN Nil ELSE seq[i + 1]
      /\ \A i \in 1..N : i # k => m[seq[i]] = IF i = k - 1 THEN n[seq[k]] ELSE n[seq[i]]
  BY SeqFacts DEF Singly, Walk
<1>2. g \in Seq(Slots) /\ Len(g) = N - 1 /\ IsInjective(g) /\ (g = <<>> <=> Len(g) = 0)
  BY WithoutSeq, SeqFacts DEF Singly
<1>3. \A i \in 1..(N - 1) : g[i] = IF i < k THEN seq[i] ELSE seq[i + 1]
  BY DEF Without
<1> HIDE DEF N, g
<1>4. h = IF g = <<>> THEN Nil ELSE g[1]
  <2>1. CASE N = 1
    BY <1>1, <1>2, <2>1
  <2>2. CASE N # 1
    <3>1. g # <<>> /\ 1 \in 1..(N - 1) /\ 1 \in 1..N
      BY <1>1, <1>2, <2>2
    <3>2. g[1] = IF 1 < k THEN seq[1] ELSE seq[2]
      BY <1>3, <3>1
    <3>3. n[seq[1]] = seq[2]
      BY <1>1, <2>2, <3>1
    <3> QED
      BY <1>1, <3>1, <3>2, <3>3
  <2> QED
    BY <2>1, <2>2
<1>5. ASSUME NEW i \in 1..(N - 1) PROVE m[g[i]] = IF i = N - 1 THEN Nil ELSE g[i + 1]
  <2>0. i \in Nat /\ i + 1 \in 1..N /\ i \in 1..N /\ (i # N - 1 => i + 1 \in 1..(N - 1))
    BY <1>1
  <2>1. CASE i < k - 1
    <3>1. g[i] = seq[i] /\ m[seq[i]] = n[seq[i]]
      BY <1>1, <1>3, <2>0, <2>1
    <3>2. i # N - 1 /\ i # N /\ g[i + 1] = seq[i + 1]
      BY <1>1, <1>3, <2>0, <2>1
    <3> QED
      BY <1>1, <2>0, <3>1, <3>2
  <2>2. CASE i = k - 1
    <3>1. g[i] = seq[i] /\ m[seq[i]] = n[seq[k]]
      BY <1>1, <1>3, <2>0, <2>2
    <3>2. i # N - 1 => g[i + 1] = seq[k + 1]
      BY <1>1, <1>3, <2>0, <2>2
    <3> QED
      BY <1>1, <2>0, <2>2, <3>1, <3>2
  <2>3. CASE i > k - 1
    <3>1. g[i] = seq[i + 1] /\ m[seq[i + 1]] = n[seq[i + 1]]
      BY <1>1, <1>3, <2>0, <2>3
    <3>2. i # N - 1 => g[i + 1] = seq[i + 2]
      BY <1>1, <1>3, <2>0, <2>3
    <3>3. n[seq[i + 1]] = IF i + 1 = N THEN Nil ELSE seq[i + 2]
      BY <1>1, <2>0
    <3> QED
      BY <1>1, <2>0, <3>1, <3>2, <3>3
  <2> QED
    BY <1>1, <2>0, <2>1, <2>2, <2>3
<1> QED
  BY <1>2, <1>4, <1>5 DEF Singly, Walk, g

\* An entry leaves a bucket when its neighbours take over its pointers.
LEMMA DoublyRemove ==
    ASSUME NEW n, NEW m, NEW p, NEW q, NEW head, NEW seq, Doubly(n, p, head, seq),
           NEW k \in 1..Len(seq),
           \A e \in Range(seq) : m[e] = IF e = p[seq[k]] THEN n[seq[k]] ELSE n[e],
           \A e \in Range(seq) : q[e] = IF e = n[seq[k]] THEN p[seq[k]] ELSE p[e]
    PROVE  /\ Doubly(m, q, IF p[seq[k]] = Nil THEN n[seq[k]] ELSE head, Without(seq, k))
           /\ p[seq[k]] \in Range(seq) \cup {Nil} /\ n[seq[k]] \in Range(seq) \cup {Nil}
<1> DEFINE N == Len(seq)
           g == Without(seq, k)
<1>1. /\ seq \in Seq(Slots) /\ N \in Nat /\ k \in 1..N
      /\ \A i \in 1..N : seq[i] \in Range(seq) /\ seq[i] # Nil
      /\ \A i \in 1..N : n[seq[i]] = IF i = N THEN Nil ELSE seq[i + 1]
      /\ \A i \in 1..N : p[seq[i]] = IF i = 1 THEN Nil ELSE seq[i - 1]
      /\ \A i, j \in 1..N : seq[i] = seq[j] => i = j
  BY SeqFacts, SlotsAreNotNil DEF Doubly, Back, Singly, Walk, IsInjective
<1>2. Len(g) = N - 1
  BY WithoutSeq DEF Doubly, Singly
<1>3. \A i \in 1..(N - 1) : g[i] = IF i < k THEN seq[i] ELSE seq[i + 1]
  BY DEF Without
<1> HIDE DEF N, g
<1>4. p[seq[k]] = Nil <=> k = 1
  BY <1>1
<1>5. \A i \in 1..N : seq[i] = p[seq[k]] <=> i = k - 1
  <2>1. CASE k = 1
    BY <1>1, <2>1
  <2>2. CASE k # 1
    <3>1. k - 1 \in 1..N /\ p[seq[k]] = seq[k - 1]
      BY <1>1, <2>2
    <3> QED
      BY <1>1, <3>1
  <2> QED
    BY <2>1, <2>2
<1>6. \A i \in 1..N : seq[i] = n[seq[k]] <=> i = k + 1
  <2>1. CASE k = N
    BY <1>1, <2>1
  <2>2. CASE k # N
    <3>1. k + 1 \in 1..N /\ n[seq[k]] = seq[k + 1]
      BY <1>1, <2>2
    <3> QED
      BY <1>1, <3>1
  <2> QED
    BY <2>1, <2>2
<1>7. Singly(m, IF p[seq[k]] = Nil THEN n[seq[k]] ELSE head, g)
  <2>1. \A i \in 1..N : m[seq[i]] = IF i = k - 1 THEN n[seq[k]] ELSE n[seq[i]]
    BY <1>1, <1>5
  <2>2. Singly(m, IF k = 1 THEN n[seq[k]] ELSE head, g)
    BY <2>1, SinglyRemove DEF Doubly, N, g
  <2> QED
    BY <1>4, <2>2
<1>8. \A i \in 1..N : q[seq[i]] = IF i = k + 1 THEN p[seq[k]] ELSE p[seq[i]]
  BY <1>1, <1>6
<1>9. ASSUME NEW i \in 1..(N - 1) PROVE q[g[i]] = IF i = 1 THEN Nil ELSE g[i - 1]
  <2>0. i \in Nat /\ i + 1 \in 1..N /\ i \in 1..N /\ (i # 1 => i - 1 \in 1..(N - 1))
    BY <1>1
  <2>1. CASE i < k
    <3>1. g[i] = seq[i] /\ q[seq[i]] = p[seq[i]]
      BY <1>1, <1>3, <1>8, <2>0, <2>1
    <3>2. i # 1 => g[i - 1] = seq[i - 1]
      BY <1>1, <1>3, <2>0, <2>1
    <3> QED
      BY <1>1, <2>0, <3>1, <3>2
  <2>2. CASE i = k
    <3>1. g[i] = seq[i + 1] /\ q[seq[i + 1]] = p[seq[k]]
      BY <1>1, <1>3, <1>8, <2>0, <2>2
    <3>2. i # 1 => g[i - 1] = seq[i - 1]
      BY <1>1, <1>3, <2>0, <2>2
    <3> QED
      BY <1>1, <2>0, <2>2, <3>1, <3>2
  <2>3. CASE i > k
    <3>1. g[i] = seq[i + 1] /\ q[seq[i + 1]] = p[seq[i + 1]]
      BY <1>1, <1>3, <1>8, <2>0, <2>3
    <3>2. i # 1 /\ g[i - 1] = seq[i]
      <4> DEFINE j == i - 1
      <4>1. j \in 1..(N - 1) /\ ~(j < k) /\ j + 1 = i /\ i # 1
        BY <1>1, <2>0, <2>3
      <4> HIDE DEF j
      <4>2. g[j] = seq[j + 1]
        BY <1>3, <4>1
      <4> QED
        BY <4>1, <4>2 DEF j
    <3>3. p[seq[i + 1]] = seq[i]
      BY <1>1, <2>0
    <3> QED
      BY <3>1, <3>2, <3>3
  <2> QED
    BY <1>1, <2>0, <2>1, <2>2, <2>3
<1>10. p[seq[k]] \in Range(seq) \cup {Nil} /\ n[seq[k]] \in Range(seq) \cup {Nil}
  <2>1. p[seq[k]] \in Range(seq) \cup {Nil}
    <3>1. CASE k = 1
      BY <1>1, <3>1
    <3>2. CASE k # 1
      BY <1>1, <3>2
    <3> QED BY <3>1, <3>2
  <2>2. n[seq[k]] \in Range(seq) \cup {Nil}
    <3>1. CASE k = N
      BY <1>1, <3>1
    <3>2. CASE k # N
      BY <1>1, <3>2
    <3> QED BY <3>1, <3>2
  <2> QED BY <2>1, <2>2
<1> QED
  BY <1>2, <1>7, <1>9, <1>10 DEF Doubly, Back, g

-----------------------------------------------------------------------------
(***************************************************************************)
(* The invariant: there are lists, the free list f and the bucket ch[b] of *)
(* every b, that the pointers walk through.                                *)
(***************************************************************************)
Lists(f, ch) ==
    /\ Singly(nextFree, freeSmtps, f)
    /\ ch \in [Buckets -> Seq(Slots)]
    /\ \A b \in Buckets : Doubly(next, prev, table[b], ch[b])
    /\ \A b \in Buckets : \A e \in Range(ch[b]) :
          hash[e] = b /\ conn[e] \in Conns /\ Bucket(conn[e]) = b

\* The entries in the buckets.
Held(ch) == UNION {Range(ch[b]) : b \in Buckets}

Placed(f, ch) ==
    /\ lost \cap Held(ch) = {}
    /\ Range(f) = Slots \ (Held(ch) \cup lost)
    /\ num = Cardinality(Held(ch))

Ages(ch) ==
    /\ \A b \in Buckets : \A i \in 1..Len(ch[b]) : \A j \in (i + 1)..Len(ch[b]) :
          born[ch[b][i]] > born[ch[b][j]]
    /\ \A s \in Held(ch) : \A t \in Held(ch) : born[s] = born[t] => s = t

Arranged(f, ch) == Lists(f, ch) /\ Placed(f, ch) /\ Ages(ch)

TableInv == TypeOK /\ \E f, ch : Arranged(f, ch)

\* The lists have no entry twice, and no entry in common.
LEMMA ArrangedFacts ==
    ASSUME NEW f, NEW ch, Arranged(f, ch)
    PROVE  /\ f \in Seq(Slots) /\ IsInjective(f) /\ Range(f) \subseteq Slots
           /\ \A b \in Buckets : /\ ch[b] \in Seq(Slots) /\ IsInjective(ch[b])
                                 /\ Range(ch[b]) \subseteq Held(ch)
           /\ Held(ch) \subseteq Slots /\ IsFiniteSet(Held(ch)) /\ num \in Nat
           /\ \A b, d \in Buckets : b # d => Range(ch[b]) \cap Range(ch[d]) = {}
<1>1. f \in Seq(Slots) /\ IsInjective(f) /\ Range(f) \subseteq Slots
  BY SeqFacts DEF Arranged, Lists, Singly
<1>2. \A b \in Buckets : ch[b] \in Seq(Slots) /\ IsInjective(ch[b]) /\ Range(ch[b]) \subseteq Slots
  BY SeqFacts DEF Arranged, Lists, Doubly, Singly
<1>3. \A b \in Buckets : Range(ch[b]) \subseteq Held(ch)
  BY DEF Held
<1>4. Held(ch) \subseteq Slots
  BY <1>2 DEF Held
<1>5. IsFiniteSet(Held(ch)) /\ Cardinality(Held(ch)) \in Nat
  BY <1>4, PoolSize, FS_Subset, FS_CardinalityType
<1>6. num = Cardinality(Held(ch))
  BY DEF Arranged, Placed
<1>7. \A b, d \in Buckets : b # d => Range(ch[b]) \cap Range(ch[d]) = {}
  BY DEF Arranged, Lists
<1> QED
  BY <1>1, <1>2, <1>3, <1>4, <1>5, <1>6, <1>7

\* The lists of the invariant are the lists of the model.
LEMMA ListsAreLists ==
    ASSUME NEW f, NEW ch, Arranged(f, ch)
    PROVE  /\ FreeList = f
           /\ \A b \in Buckets : Chain(b) = ch[b]
           /\ LinkedSlots = Held(ch)
<1>1. FreeList = f
  BY SinglyList DEF FreeList, Arranged, Lists
<1>2. \A b \in Buckets : Chain(b) = ch[b]
  BY SinglyList DEF Chain, Arranged, Lists, Doubly
<1> QED
  BY <1>1, <1>2 DEF LinkedSlots, Held

\* From the invariant the properties the runs check.
LEMMA InvImplies == TableInv => PoolPartitioned /\ LinksConsistent /\ NewestFirst
<1> SUFFICES ASSUME TableInv PROVE PoolPartitioned /\ LinksConsistent /\ NewestFirst
  OBVIOUS
<1>1. PICK f, ch : Arranged(f, ch)
  BY DEF TableInv
<1>2. /\ FreeList = f /\ LinkedSlots = Held(ch)
      /\ \A b \in Buckets : Chain(b) = ch[b]
  BY <1>1, ListsAreLists
<1>3. NewestFirst
  BY <1>1, <1>2 DEF NewestFirst, Arranged, Ages
<1>4. LinksConsistent
  BY <1>1, <1>2 DEF LinksConsistent, Arranged, Lists, Doubly, Back
<1>5. PoolPartitioned
  <2>1. LET lists == {FreeList} \cup {Chain(b) : b \in Buckets} IN
        \A l \in lists : IsInjective(l)
    BY <1>1, <1>2, ArrangedFacts
  <2>2. \A b \in Buckets : \A s \in Range(Chain(b)) : hash[s] = b
    BY <1>1, <1>2 DEF Arranged, Lists
  <2>3. /\ Range(FreeList) \cap LinkedSlots = {} /\ lost \cap LinkedSlots = {}
        /\ Range(FreeList) = Slots \ (LinkedSlots \cup lost)
        /\ num = Cardinality(LinkedSlots)
    BY <1>1, <1>2 DEF Arranged, Placed
  <2>4. num > MaxSmtps => freeSmtps = Nil
    <3> SUFFICES ASSUME num > MaxSmtps PROVE freeSmtps = Nil
      OBVIOUS
    <3>1. Held(ch) = Slots
      <4>1. /\ Held(ch) \subseteq Slots /\ num \in Nat /\ num = Cardinality(Held(ch))
        BY <1>1, ArrangedFacts DEF Arranged, Placed
      <4>2. /\ IsFiniteSet(Held(ch)) /\ Cardinality(Held(ch)) <= Cardinality(Slots)
            /\ (Cardinality(Held(ch)) = Cardinality(Slots) => Held(ch) = Slots)
        BY <4>1, PoolSize, FS_Subset
      <4> QED
        BY <4>1, <4>2, PoolSize
    <3>2. Range(f) = {}
      BY <1>1, <3>1 DEF Arranged, Placed
    <3>3. f = <<>>
      <4>1. /\ Len(f) \in Nat /\ Range(f) = {f[i] : i \in 1..Len(f)}
            /\ (f = <<>> <=> Len(f) = 0)
        BY <1>1, ArrangedFacts, SeqFacts
      <4> DEFINE N == Len(f)
      <4> HIDE DEF N
      <4>2. N \in Nat /\ \A i \in 1..N : FALSE
        BY <3>2, <4>1 DEF N
      <4>3. N = 0
        BY <4>2
      <4> QED
        BY <4>1, <4>3 DEF N
    <3> QED
      BY <1>1, <3>3 DEF Arranged, Lists, Singly, Walk
  <2> QED
    BY <2>1, <2>2, <2>3, <2>4 DEF PoolPartitioned
<1> QED
  BY <1>3, <1>4, <1>5

-----------------------------------------------------------------------------
(***************************************************************************)
(* What a search finds.                                                    *)
(***************************************************************************)
\* The first entry of the bucket that matches, or none.
LEMMA SearchFinds ==
    ASSUME NEW f, NEW ch, Arranged(f, ch), NEW c \in Conns
    PROVE  /\ Bucket(c) \in Buckets
           /\ \/ /\ Search(c) = Nil
                 /\ \A e \in Range(ch[Bucket(c)]) : ~Matches(c, conn[e])
              \/ \E k \in 1..Len(ch[Bucket(c)]) :
                    /\ Search(c) = ch[Bucket(c)][k]
                    /\ Matches(c, conn[ch[Bucket(c)][k]])
                    /\ \A i \in 1..(k - 1) : ~Matches(c, conn[ch[Bucket(c)][i]])
<1>1. Bucket(c) \in Buckets
  <2>1. HashIndex[c] \in Nat /\ TblSize \in Nat /\ TblSize > 0
    BY HashIndexAssumption, TblSizeAssumption
  <2> QED
    BY <2>1 DEF Bucket, Buckets
<1> DEFINE q == ch[Bucket(c)]
           N == Len(q)
           I == {i \in 1..N : Matches(c, conn[q[i]])}
<1>2. q \in Seq(Slots) /\ N \in Nat /\ Range(q) = {q[i] : i \in 1..N} /\ \A i \in 1..N : q[i] \in Slots
  BY <1>1, ArrangedFacts, SeqFacts
<1>3. Search(c) = LET i == IF I # {} THEN Min(I) ELSE 0 IN IF i = 0 THEN Nil ELSE q[i]
  <2>1. Chain(Bucket(c)) = q
    BY <1>1, ListsAreLists
  <2> QED
    BY <2>1 DEF Search, SelectInSeq
<1> HIDE DEF q, N
<1>4. CASE I = {}
  <2>1. Search(c) = Nil
    BY <1>3, <1>4
  <2>2. \A e \in Range(q) : ~Matches(c, conn[e])
    BY <1>2, <1>4
  <2> QED
    BY <1>1, <2>1, <2>2 DEF q
<1>5. CASE I # {}
  <2>1. Min(I) \in I /\ \A y \in I : Min(I) <= y
    <3>1. I \subseteq Nat
      OBVIOUS
    <3> QED
      BY <1>5, <3>1, LeastNatural
  <2> DEFINE k == Min(I)
  <2>2. k \in 1..N /\ Matches(c, conn[q[k]]) /\ k # 0
    BY <2>1
  <2>3. Search(c) = q[k]
    BY <1>3, <1>5, <2>2
  <2>4. \A i \in 1..(k - 1) : ~Matches(c, conn[q[i]])
    <3> SUFFICES ASSUME NEW i \in 1..(k - 1), Matches(c, conn[q[i]]) PROVE FALSE
      OBVIOUS
    <3>1. i \in 1..N
      BY <1>2, <2>2
    <3>2. i \in I
      BY <3>1
    <3>3. k <= i
      BY <2>1, <3>2
    <3> HIDE DEF k
    <3> QED
      BY <1>2, <2>2, <3>3
  <2> HIDE DEF k
  <2> QED
    BY <1>1, <2>2, <2>3, <2>4 DEF q, N
<1> QED
  BY <1>4, <1>5

-----------------------------------------------------------------------------
(***************************************************************************)
(* The steps.                                                              *)
(***************************************************************************)
\* free_smtp_info, of the k-th entry of a bucket.
LEMMA FreeStep ==
    ASSUME TypeOK, NEW f, NEW ch, Arranged(f, ch), NEW b \in Buckets, NEW k \in 1..Len(ch[b]),
           FreeSmtpInfo(ch[b][k])
    PROVE  /\ ch[b][k] \in Held(ch)
           /\ \E F, C : Arranged(F, C)' /\ Held(C) = Held(ch) \ {ch[b][k]}
<1> DEFINE s == ch[b][k]
           F == Prefixed(s, f)
           W == Without(ch[b], k)
           C == [ch EXCEPT ![b] = W]
<1>1. /\ f \in Seq(Slots) /\ IsInjective(f)
      /\ ch[b] \in Seq(Slots) /\ IsInjective(ch[b]) /\ s \in Range(ch[b])
      /\ Range(ch[b]) \subseteq Held(ch) /\ Held(ch) \subseteq Slots /\ IsFiniteSet(Held(ch))
      /\ s \in Slots /\ s \in Held(ch) /\ ch \in [Buckets -> Seq(Slots)] /\ k \in 1..Len(ch[b])
  BY ArrangedFacts, SeqFacts DEF Arranged, Lists
<1>2. /\ W \in Seq(Slots) /\ Len(W) = Len(ch[b]) - 1 /\ Range(W) = Range(ch[b]) \ {s}
      /\ IsInjective(W)
  BY <1>1, WithoutSeq
<1>3. /\ prev' = IF next[s] # Nil THEN [prev EXCEPT ![next[s]] = prev[s]] ELSE prev
      /\ IF prev[s] # Nil
         THEN next' = [next EXCEPT ![prev[s]] = next[s]] /\ table' = table
         ELSE table' = [table EXCEPT ![hash[s]] = next[s]] /\ next' = next
      /\ nextFree' = [nextFree EXCEPT ![s] = freeSmtps]
      /\ freeSmtps' = s /\ num' = num - 1
      /\ hash' = hash /\ conn' = conn /\ born' = born /\ lost' = lost
  BY DEF FreeSmtpInfo
<1>4. /\ next \in [Slots -> Slots \cup {Nil}] /\ prev \in [Slots -> Slots \cup {Nil}]
      /\ table \in [Buckets -> Slots \cup {Nil}] /\ nextFree \in [Slots -> Slots \cup {Nil}]
  BY DEF TypeOK
<1>5. \A d \in Buckets : d # b => C[d] = ch[d] /\ Range(ch[d]) \cap Range(ch[b]) = {}
                                  /\ Range(ch[d]) \subseteq Held(ch)
  BY <1>1, ArrangedFacts
<1>6. C \in [Buckets -> Seq(Slots)] /\ C[b] = W
  BY <1>1, <1>2
<1>7. hash[s] = b
  BY <1>1 DEF Arranged, Lists
<1> HIDE DEF s, W, C
<1>8. \A e \in Slots : /\ next'[e] = IF e = prev[s] THEN next[s] ELSE next[e]
                       /\ prev'[e] = IF e = next[s] THEN prev[s] ELSE prev[e]
  BY <1>1, <1>3, <1>4, SlotsAreNotNil
<1>9. /\ Doubly(next', prev', IF prev[s] = Nil THEN next[s] ELSE table[b], W)
      /\ prev[s] \in Range(ch[b]) \cup {Nil} /\ next[s] \in Range(ch[b]) \cup {Nil}
  <2>1. Doubly(next, prev, table[b], ch[b])
    BY DEF Arranged, Lists
  <2>2. \A e \in Range(ch[b]) : /\ next'[e] = IF e = prev[s] THEN next[s] ELSE next[e]
                                /\ prev'[e] = IF e = next[s] THEN prev[s] ELSE prev[e]
    BY <1>1, <1>8
  <2> DEFINE q == ch[b] m == next' p == prev' h == table[b]
  <2>3. k \in 1..Len(q) /\ s = q[k] /\ W = Without(q, k)
    BY DEF s, W
  <2> HIDE DEF q, m, p, h
  <2>4. \A e \in Range(q) : /\ m[e] = IF e = prev[q[k]] THEN next[q[k]] ELSE next[e]
                            /\ p[e] = IF e = next[q[k]] THEN prev[q[k]] ELSE prev[e]
    BY <2>2, <2>3 DEF q, m, p
  <2>5. Doubly(next, prev, h, q)
    BY <2>1 DEF q, h
  <2>6. /\ Doubly(m, p, IF prev[q[k]] = Nil THEN next[q[k]] ELSE h, Without(q, k))
        /\ prev[q[k]] \in Range(q) \cup {Nil} /\ next[q[k]] \in Range(q) \cup {Nil}
    BY <2>3, <2>4, <2>5, DoublyRemove, SMTT(30)
  <2> QED
    BY <2>3, <2>6 DEF q, m, p, h
<1>10. Held(C) = Held(ch) \ {s}
  <2>1. Held(C) \subseteq Held(ch) \ {s}
    <3> SUFFICES ASSUME NEW d \in Buckets, NEW e \in Range(C[d]) PROVE e \in Held(ch) \ {s}
      BY DEF Held
    <3>1. CASE d = b
      BY <1>1, <1>2, <1>6, <3>1
    <3>2. CASE d # b
      BY <1>1, <1>5, <3>2
    <3> QED
      BY <3>1, <3>2
  <2>2. Held(ch) \ {s} \subseteq Held(C)
    <3> SUFFICES ASSUME NEW d \in Buckets, NEW e \in Range(ch[d]), e # s PROVE e \in Range(C[d])
      BY DEF Held
    <3>1. CASE d = b
      BY <1>2, <1>6, <3>1
    <3>2. CASE d # b
      BY <1>5, <3>2
    <3> QED
      BY <3>1, <3>2
  <2> QED
    BY <2>1, <2>2
<1>11. s \notin Range(f) /\ s \notin lost
  BY <1>1 DEF Arranged, Placed
<1>12. /\ F \in Seq(Slots) /\ Range(F) = Range(f) \cup {s} /\ IsInjective(F)
  BY <1>1, <1>11, PrefixedSeq
<1>13. Lists(F, C)'
  <2>1. Singly(nextFree', freeSmtps', F)
    <3>1. Singly(nextFree, freeSmtps, f)
      BY DEF Arranged, Lists
    <3>2. nextFree'[s] = freeSmtps /\ \A e \in Range(f) : nextFree'[e] = nextFree[e]
      BY <1>1, <1>3, <1>4, <1>11
    <3> QED
      BY <1>1, <1>3, <1>11, <3>1, <3>2, SinglyPush
  <2>2. ASSUME NEW d \in Buckets PROVE Doubly(next', prev', table'[d], C[d])
    <3>1. CASE d = b
      <4>1. table'[b] = IF prev[s] = Nil THEN next[s] ELSE table[b]
        BY <1>3, <1>4, <1>7
      <4> QED
        BY <1>6, <1>9, <3>1, <4>1
    <3>2. CASE d # b
      <4>1. Doubly(next, prev, table[d], ch[d])
        BY DEF Arranged, Lists
      <4>2. table'[d] = table[d]
        BY <1>3, <1>4, <1>7, <3>2
      <4>3. \A e \in Range(ch[d]) : next'[e] = next[e] /\ prev'[e] = prev[e]
        <5> SUFFICES ASSUME NEW e \in Range(ch[d]) PROVE next'[e] = next[e] /\ prev'[e] = prev[e]
          OBVIOUS
        <5>1. e \in Slots /\ e # prev[s] /\ e # next[s]
          BY <1>1, <1>5, <1>9, <3>2, SlotsAreNotNil
        <5> QED
          BY <1>8, <5>1
      <4> QED
        BY <1>5, <3>2, <4>1, <4>2, <4>3, DoublyFrame
    <3> QED
      BY <3>1, <3>2
  <2>3. ASSUME NEW d \in Buckets, NEW e \in Range(C[d])
        PROVE  hash'[e] = d /\ conn'[e] \in Conns /\ Bucket(conn'[e]) = d
    <3>1. e \in Range(ch[d])
      BY <1>2, <1>5, <1>6
    <3> QED
      BY <1>3, <3>1 DEF Arranged, Lists
  <2> QED
    BY <1>6, <2>1, <2>2, <2>3 DEF Lists, Bucket
<1>14. Placed(F, C)'
  <2>1. Cardinality(Held(C)) = Cardinality(Held(ch)) - 1
    BY <1>1, <1>10, FS_RemoveElement
  <2>2. num = Cardinality(Held(ch)) /\ lost \cap Held(ch) = {}
        /\ Range(f) = Slots \ (Held(ch) \cup lost)
    BY DEF Arranged, Placed
  <2>3. Range(F) = Slots \ (Held(C) \cup lost)
    BY <1>1, <1>10, <1>11, <1>12, <2>2
  <2> QED
    BY <1>3, <1>10, <2>1, <2>2, <2>3 DEF Placed, Held
<1>15. Ages(C)'
  <2>1. ASSUME NEW d \in Buckets, NEW i \in 1..Len(C[d]), NEW j \in (i + 1)..Len(C[d])
        PROVE  born[C[d][i]] > born[C[d][j]]
    <3>1. CASE d # b
      BY <1>5, <2>1, <3>1 DEF Arranged, Ages
    <3>2. CASE d = b
      <4> DEFINE N == Len(ch[b])
                 Old(x) == IF x < k THEN x ELSE x + 1
      <4>1. N \in Nat /\ k \in 1..N /\ i \in 1..(N - 1) /\ j \in (i + 1)..(N - 1)
        BY <1>1, <1>2, <1>6, <2>1, <3>2
      <4>2. \A x \in 1..(N - 1) : W[x] = ch[b][Old(x)]
        BY DEF Without, W
      <4> HIDE DEF N
      <4>3. Old(i) \in 1..N /\ Old(j) \in (Old(i) + 1)..N /\ i \in 1..(N - 1) /\ j \in 1..(N - 1)
        BY <4>1
      <4> HIDE DEF Old
      <4>4. born[ch[b][Old(i)]] > born[ch[b][Old(j)]]
        BY <4>3 DEF Arranged, Ages, N
      <4> QED
        BY <1>6, <3>2, <4>2, <4>3, <4>4
    <3> QED
      BY <3>1, <3>2
  <2>2. \A x \in Held(C) : \A y \in Held(C) : born[x] = born[y] => x = y
    BY <1>10 DEF Arranged, Ages
  <2> QED
    BY <1>3, <2>1, <2>2 DEF Ages, Held
<1> QED
  BY <1>1, <1>10, <1>13, <1>14, <1>15 DEF Arranged, s, C, W

\* The entry on top of the free list.
LEMMA TopOfFree ==
    ASSUME NEW f, NEW ch, Arranged(f, ch), freeSmtps # Nil
    PROVE  /\ 1 \in 1..Len(f) /\ freeSmtps = f[1]
           /\ freeSmtps \in Slots /\ freeSmtps \notin Held(ch) /\ freeSmtps \notin lost
           /\ nextFree[freeSmtps] \in Slots \cup {Nil}
<1> DEFINE N == Len(f)
<1>1. /\ N \in Nat /\ (f = <<>> <=> N = 0) /\ \A i \in 1..N : f[i] \in Slots /\ f[i] \in Range(f)
  BY SeqFacts, ArrangedFacts
<1>2. freeSmtps = IF f = <<>> THEN Nil ELSE f[1]
  BY DEF Arranged, Lists, Singly, Walk
<1>3. \A i \in 1..Len(f) : nextFree[f[i]] = IF i = Len(f) THEN Nil ELSE f[i + 1]
  BY DEF Arranged, Lists, Singly, Walk
<1>4. Range(f) = Slots \ (Held(ch) \cup lost)
  BY DEF Arranged, Placed
<1>5. \A i \in 1..N : nextFree[f[i]] = IF i = N THEN Nil ELSE f[i + 1]
  BY <1>3
<1> HIDE DEF N
<1>6. 1 \in 1..N /\ freeSmtps = f[1]
  BY <1>1, <1>2
<1>7. nextFree[f[1]] \in Slots \cup {Nil}
  BY <1>1, <1>5, <1>6
<1> QED
  BY <1>1, <1>4, <1>6, <1>7 DEF N

\* The top of the free list is taken: the rest is the free list.
LEMMA TakenStep ==
    ASSUME TypeOK, NEW f, NEW ch, Arranged(f, ch), freeSmtps # Nil,
           NEW b \in Buckets, Taken(freeSmtps, b)
    PROVE  /\ Singly(nextFree', freeSmtps', Without(f, 1))
           /\ Without(f, 1) \in Seq(Slots) /\ IsInjective(Without(f, 1))
           /\ Range(Without(f, 1)) = Range(f) \ {freeSmtps}
<1>1. /\ f \in Seq(Slots) /\ IsInjective(f) /\ Range(f) \subseteq Slots
      /\ 1 \in 1..Len(f) /\ freeSmtps = f[1] /\ freeSmtps \in Slots
  BY ArrangedFacts, TopOfFree
<1>2. /\ Without(f, 1) \in Seq(Slots) /\ IsInjective(Without(f, 1))
      /\ Range(Without(f, 1)) = Range(f) \ {freeSmtps}
  BY <1>1, WithoutSeq
<1>3. Singly(nextFree', freeSmtps', Without(f, 1))
  <2>1. freeSmtps' = nextFree[f[1]] /\ nextFree' = [nextFree EXCEPT ![f[1]] = Nil]
        /\ nextFree \in [Slots -> Slots \cup {Nil}]
    BY <1>1 DEF Taken, TypeOK
  <2>2. Singly(nextFree, freeSmtps, f)
    BY DEF Arranged, Lists
  <2>3. \A i \in 1..Len(f) : f[i] \in Slots /\ (i # 1 => f[i] # f[1])
    BY <1>1 DEF IsInjective
  <2> DEFINE m == nextFree'
  <2>4. \A i \in 1..Len(f) : i # 1 => m[f[i]] = IF i = 1 - 1 THEN nextFree[f[1]] ELSE nextFree[f[i]]
    BY <2>1, <2>3
  <2> HIDE DEF m
  <2>5. Singly(m, IF 1 = 1 THEN nextFree[f[1]] ELSE freeSmtps, Without(f, 1))
    BY <1>1, <2>2, <2>4, SinglyRemove
  <2> QED
    BY <2>1, <2>5 DEF m
<1> QED
  BY <1>2, <1>3

\* new_smtp_info: the entry becomes the head of its bucket.
LEMMA LinkedStep ==
    ASSUME TypeOK, NEW f, NEW ch, Arranged(f, ch), freeSmtps # Nil, NEW c \in Conns,
           Bucket(c) \in Buckets, streams' = streams + 1,
           Taken(freeSmtps, Bucket(c)), Linked(c, freeSmtps, Bucket(c))
    PROVE  \E s, C :
              /\ s \in Slots /\ s = freeSmtps /\ s \notin Held(ch)
              /\ Arranged(Without(f, 1), C)'
              /\ Held(C) = Held(ch) \cup {s}
<1> DEFINE b == Bucket(c)
           F == Without(f, 1)
<1>0. PICK s : s = freeSmtps
  OBVIOUS
<1> DEFINE P == Prefixed(s, ch[b])
           C == [ch EXCEPT ![b] = P]
<1>1. /\ b \in Buckets /\ ch[b] \in Seq(Slots) /\ IsInjective(ch[b])
      /\ Range(ch[b]) \subseteq Held(ch) /\ Held(ch) \subseteq Slots /\ IsFiniteSet(Held(ch))
      /\ s \in Slots /\ s \notin Held(ch) /\ ch \in [Buckets -> Seq(Slots)]
      /\ s \notin lost /\ s \notin Range(ch[b])
  BY <1>0, ArrangedFacts, TopOfFree DEF Arranged, Lists
<1>2. /\ P \in Seq(Slots) /\ Len(P) = Len(ch[b]) + 1 /\ Range(P) = Range(ch[b]) \cup {s}
      /\ IsInjective(P)
  BY <1>1, PrefixedSeq
<1>3. /\ hash' = [hash EXCEPT ![s] = b]
      /\ next' = [next EXCEPT ![s] = table[b]]
      /\ prev' = [i \in Slots |-> IF i = s THEN Nil ELSE IF i = table[b] THEN s ELSE prev[i]]
      /\ table' = [table EXCEPT ![b] = s]
      /\ conn' = [conn EXCEPT ![s] = c]
      /\ born' = [born EXCEPT ![s] = streams + 1]
      /\ num' = num + 1 /\ lost' = lost
  BY <1>0 DEF Taken, Linked
<1>4. /\ next \in [Slots -> Slots \cup {Nil}] /\ prev \in [Slots -> Slots \cup {Nil}]
      /\ table \in [Buckets -> Slots \cup {Nil}]
      /\ hash \in [Slots -> Buckets] /\ conn \in [Slots -> Conns \cup {NoConn}]
      /\ born \in [Slots -> 0..streams] /\ streams \in Nat
  BY DEF TypeOK, StreamsTypeOK
<1>5. \A d \in Buckets : d # b => /\ C[d] = ch[d] /\ Range(ch[d]) \subseteq Held(ch)
                                  /\ Range(ch[d]) \cap Range(ch[b]) = {}
  BY <1>1, ArrangedFacts
<1>6. C \in [Buckets -> Seq(Slots)] /\ C[b] = P
  BY <1>1, <1>2
<1>7. /\ Singly(nextFree', freeSmtps', F) /\ F \in Seq(Slots) /\ IsInjective(F)
      /\ Range(F) = Range(f) \ {s}
  BY <1>0, <1>1, TakenStep
<1> HIDE DEF b, P, C, F
<1>8. Held(C) = Held(ch) \cup {s}
  <2>1. Held(C) \subseteq Held(ch) \cup {s}
    <3> SUFFICES ASSUME NEW d \in Buckets, NEW e \in Range(C[d]) PROVE e \in Held(ch) \cup {s}
      BY DEF Held
    <3>1. CASE d = b
      BY <1>1, <1>2, <1>6, <3>1
    <3>2. CASE d # b
      BY <1>1, <1>5, <3>2
    <3> QED
      BY <3>1, <3>2
  <2>2. Held(ch) \subseteq Held(C)
    <3> SUFFICES ASSUME NEW d \in Buckets, NEW e \in Range(ch[d]) PROVE e \in Range(C[d])
      BY DEF Held
    <3>1. CASE d = b
      BY <1>2, <1>6, <3>1
    <3>2. CASE d # b
      BY <1>5, <3>2
    <3> QED
      BY <3>1, <3>2
  <2>3. s \in Held(C)
    BY <1>1, <1>2, <1>6 DEF Held
  <2> QED
    BY <2>1, <2>2, <2>3
<1>9. table[b] # Nil => table[b] \in Range(ch[b])
  <2> DEFINE q == ch[b] N == Len(q)
  <2>1. /\ q \in Seq(Slots) /\ N \in Nat /\ (q = <<>> <=> N = 0)
        /\ \A i \in 1..N : q[i] \in Range(q)
    BY <1>1, SeqFacts
  <2>2. table[b] = IF q = <<>> THEN Nil ELSE q[1]
    BY <1>1 DEF Arranged, Lists, Doubly, Singly, Walk
  <2> HIDE DEF q, N
  <2>3. table[b] # Nil => 1 \in 1..N /\ table[b] = q[1]
    BY <2>1, <2>2
  <2> QED
    BY <2>1, <2>3 DEF q
<1>10. Lists(F, C)'
  <2>1. ASSUME NEW d \in Buckets PROVE Doubly(next', prev', table'[d], C[d])
    <3>0. Doubly(next, prev, table[d], ch[d])
      BY DEF Arranged, Lists
    <3>1. CASE d = b
      <4>1. /\ next'[s] = table[b] /\ \A e \in Range(ch[b]) : next'[e] = next[e]
            /\ prev'[s] = Nil /\ \A e \in Range(ch[b]) : prev'[e] = IF e = table[b] THEN s ELSE prev[e]
        BY <1>1, <1>3, <1>4
      <4>2. Doubly(next, prev, table[b], ch[b])
        BY <3>0, <3>1
      <4>3. Doubly(next', prev', s, Prefixed(s, ch[b]))
        BY <1>1, <4>1, <4>2, DoublyPush
      <4>4. table'[b] = s
        BY <1>1, <1>3, <1>4
      <4> QED
        BY <1>6, <3>1, <4>3, <4>4 DEF P
    <3>2. CASE d # b
      <4>1. table'[d] = table[d]
        BY <1>3, <1>4, <3>2
      <4>2. \A e \in Range(ch[d]) : next'[e] = next[e] /\ prev'[e] = prev[e]
        <5> SUFFICES ASSUME NEW e \in Range(ch[d]) PROVE next'[e] = next[e] /\ prev'[e] = prev[e]
          OBVIOUS
        <5>1. e \in Slots /\ e # s /\ e # table[b]
          BY <1>1, <1>5, <1>9, <3>2, SlotsAreNotNil
        <5> QED
          BY <1>3, <1>4, <5>1
      <4> QED
        BY <1>5, <3>0, <3>2, <4>1, <4>2, DoublyFrame
    <3> QED
      BY <3>1, <3>2
  <2>2. ASSUME NEW d \in Buckets, NEW e \in Range(C[d])
        PROVE  hash'[e] = d /\ conn'[e] \in Conns /\ Bucket(conn'[e]) = d
    <3>1. CASE e = s
      <4>1. d = b
        BY <1>1, <1>5, <2>2, <3>1
      <4> QED
        BY <1>1, <1>3, <1>4, <3>1, <4>1 DEF b
    <3>2. CASE e # s
      <4>1. e \in Range(ch[d]) /\ e \in Slots
        BY <1>1, <1>2, <1>5, <1>6, <2>2, <3>2
      <4>2. hash'[e] = hash[e] /\ conn'[e] = conn[e]
        BY <1>3, <1>4, <3>2, <4>1
      <4> QED
        BY <4>1, <4>2 DEF Arranged, Lists
    <3> QED
      BY <3>1, <3>2
  <2> QED
    BY <1>6, <1>7, <2>1, <2>2 DEF Lists, Bucket
<1>11. Placed(F, C)'
  <2>1. Cardinality(Held(C)) = Cardinality(Held(ch)) + 1
    <3> DEFINE H == Held(ch)
    <3>1. IsFiniteSet(H) /\ s \notin H
      BY <1>1
    <3> HIDE DEF H
    <3>2. Cardinality(H \cup {s}) = Cardinality(H) + 1
      BY <3>1, FS_AddElement
    <3> QED
      BY <1>8, <3>2 DEF H
  <2>2. num = Cardinality(Held(ch)) /\ lost \cap Held(ch) = {}
        /\ Range(f) = Slots \ (Held(ch) \cup lost)
    BY DEF Arranged, Placed
  <2>3. Range(F) = Slots \ (Held(C) \cup lost)
    BY <1>7, <1>8, <2>2
  <2>4. lost' \cap Held(C) = {} /\ num' = Cardinality(Held(C))
    BY <1>1, <1>3, <1>8, <2>1, <2>2
  <2> QED
    BY <1>3, <2>3, <2>4 DEF Placed, Held
<1>12. born'[s] = streams + 1 /\ \A e \in Held(ch) : born'[e] = born[e] /\ born[e] \in Nat /\ born[e] <= streams
  BY <1>1, <1>3, <1>4
<1>13. Ages(C)'
  <2>1. ASSUME NEW d \in Buckets, NEW i \in 1..Len(C[d]), NEW j \in (i + 1)..Len(C[d])
        PROVE  born'[C[d][i]] > born'[C[d][j]]
    <3>1. CASE d # b
      <4>1. C[d] = ch[d] /\ born[ch[d][i]] > born[ch[d][j]]
        BY <1>5, <2>1, <3>1 DEF Arranged, Ages
      <4> DEFINE q == ch[d] N == Len(q)
      <4>2. N \in Nat /\ \A x \in 1..N : q[x] \in Held(ch)
        BY <1>5, <3>1, SeqFacts, ArrangedFacts
      <4>3. i \in 1..N /\ j \in (i + 1)..N
        BY <2>1, <4>1
      <4> HIDE DEF q, N
      <4>4. q[i] \in Held(ch) /\ q[j] \in Held(ch)
        BY <4>2, <4>3
      <4> QED
        BY <1>12, <4>1, <4>4 DEF q
    <3>2. CASE d = b
      <4> DEFINE q == ch[b] N == Len(q)
      <4>1. N \in Nat /\ \A x \in 1..N : q[x] \in Held(ch)
        BY <1>1, SeqFacts
      <4>2. i \in 1..(N + 1) /\ j \in (i + 1)..(N + 1)
        BY <1>2, <1>6, <2>1, <3>2
      <4>3. \A x \in 1..(N + 1) : P[x] = IF x = 1 THEN s ELSE q[x - 1]
        BY DEF Prefixed, P
      <4>4. \A x \in 1..N : \A y \in (x + 1)..N : born[q[x]] > born[q[y]]
        BY <1>1 DEF Arranged, Ages
      <4> HIDE DEF q, N
      <4> DEFINE u == i - 1 v == j - 1
      <4>5. /\ v \in 1..N /\ P[j] = q[v]
            /\ i = 1 \/ (u \in 1..N /\ P[i] = q[u] /\ v \in (u + 1)..N)
        BY <4>1, <4>2, <4>3
      <4>6. i = 1 => P[i] = s
        BY <4>2, <4>3
      <4> HIDE DEF u, v
      <4>7. born'[P[i]] > born'[P[j]]
        <5>1. q[v] \in Held(ch)
          BY <4>1, <4>5
        <5>2. CASE i = 1
          <6>1. born'[P[i]] = streams + 1 /\ born'[P[j]] = born[q[v]]
            BY <1>12, <4>5, <4>6, <5>1, <5>2
          <6>2. born[q[v]] \in Nat /\ born[q[v]] <= streams
            BY <1>12, <5>1
          <6> QED
            BY <1>4, <6>1, <6>2
        <5>3. CASE i # 1
          <6>1. q[u] \in Held(ch) /\ born[q[u]] > born[q[v]]
            BY <4>1, <4>4, <4>5, <5>3
          <6>2. born'[P[i]] = born[q[u]] /\ born'[P[j]] = born[q[v]]
            BY <1>12, <4>5, <5>1, <5>3, <6>1
          <6> QED
            BY <6>1, <6>2
        <5> QED
          BY <5>2, <5>3
      <4> QED
        BY <1>6, <3>2, <4>7
    <3> QED
      BY <3>1, <3>2
  <2>2. ASSUME NEW x \in Held(C), NEW y \in Held(C), born'[x] = born'[y] PROVE x = y
    <3>1. \A e \in Held(ch) : born'[e] # born'[s]
      BY <1>4, <1>12
    <3>2. \A e \in Held(ch) : \A g \in Held(ch) : born'[e] = born'[g] => e = g
      BY <1>12 DEF Arranged, Ages
    <3> QED
      BY <1>8, <2>2, <3>1, <3>2
  <2> QED
    BY <2>1, <2>2 DEF Ages, Held
<1> QED
  BY <1>0, <1>1, <1>8, <1>10, <1>11, <1>13 DEF Arranged, F

\* new_smtp_info without memory: the entry is in no list.
LEMMA NoBufferStep ==
    ASSUME TypeOK, NEW f, NEW ch, Arranged(f, ch), freeSmtps # Nil, NEW c \in Conns,
           Bucket(c) \in Buckets,
           Taken(freeSmtps, Bucket(c)), NoBuffer(c, freeSmtps)
    PROVE  Arranged(Without(f, 1), ch)'
<1> DEFINE s == freeSmtps
           F == Without(f, 1)
<1>1. /\ \A b \in Buckets : Range(ch[b]) \subseteq Held(ch)
      /\ Held(ch) \subseteq Slots
      /\ s \in Slots /\ s \notin Held(ch) /\ ch \in [Buckets -> Seq(Slots)]
  BY ArrangedFacts, TopOfFree DEF Arranged, Lists
<1>2. /\ next \in [Slots -> Slots \cup {Nil}] /\ prev \in [Slots -> Slots \cup {Nil}]
      /\ hash \in [Slots -> Buckets] /\ conn \in [Slots -> Conns \cup {NoConn}]
      /\ born \in [Slots -> 0..streams]
  BY DEF TypeOK
<1>3. /\ table' = table /\ num' = num /\ lost' = lost \cup {s}
      /\ \A e \in Held(ch) : /\ next'[e] = next[e] /\ prev'[e] = prev[e] /\ hash'[e] = hash[e]
                             /\ conn'[e] = conn[e] /\ born'[e] = born[e]
  BY <1>1, <1>2 DEF Taken, NoBuffer
<1>4. /\ Singly(nextFree', freeSmtps', F) /\ Range(F) = Range(f) \ {s}
  BY TakenStep
<1> HIDE DEF s, F
<1>5. Lists(F, ch)'
  <2>1. ASSUME NEW d \in Buckets PROVE Doubly(next', prev', table'[d], ch[d])
    <3>1. \A e \in Range(ch[d]) : next'[e] = next[e] /\ prev'[e] = prev[e]
      BY <1>1, <1>3
    <3>2. Doubly(next, prev, table[d], ch[d])
      BY DEF Arranged, Lists
    <3> QED
      BY <1>3, <3>1, <3>2, DoublyFrame
  <2>2. \A d \in Buckets : \A e \in Range(ch[d]) :
           hash'[e] = d /\ conn'[e] \in Conns /\ Bucket(conn'[e]) = d
    BY <1>1, <1>3 DEF Arranged, Lists
  <2> QED
    BY <1>1, <1>4, <2>1, <2>2 DEF Lists, Bucket
<1>6. Placed(F, ch)'
  <2>1. num = Cardinality(Held(ch)) /\ lost \cap Held(ch) = {}
        /\ Range(f) = Slots \ (Held(ch) \cup lost)
    BY DEF Arranged, Placed
  <2> QED
    BY <1>1, <1>3, <1>4, <2>1 DEF Placed, Held
<1>7. Ages(ch)'
  <2>1. ASSUME NEW d \in Buckets, NEW i \in 1..Len(ch[d]), NEW j \in (i + 1)..Len(ch[d])
        PROVE  born'[ch[d][i]] > born'[ch[d][j]]
    <3>1. born[ch[d][i]] > born[ch[d][j]]
      BY DEF Arranged, Ages
    <3> DEFINE q == ch[d] N == Len(q)
    <3>2. N \in Nat /\ \A x \in 1..N : q[x] \in Held(ch)
      BY <1>1, SeqFacts
    <3>3. i \in 1..N /\ j \in (i + 1)..N
      OBVIOUS
    <3> HIDE DEF q, N
    <3>4. q[i] \in Held(ch) /\ q[j] \in Held(ch)
      BY <3>2, <3>3
    <3> QED
      BY <1>3, <3>1, <3>4 DEF q
  <2>2. \A x \in Held(ch) : \A y \in Held(ch) : born'[x] = born'[y] => x = y
    BY <1>3 DEF Arranged, Ages
  <2> QED
    BY <2>1, <2>2 DEF Ages, Held
<1> QED
  BY <1>5, <1>6, <1>7 DEF Arranged, F

-----------------------------------------------------------------------------
(***************************************************************************)
(* The invariant is kept.                                                  *)
(***************************************************************************)
\* libnids keeps its streams' types, and their number only grows.
LEMMA StreamsStep ==
    ASSUME StreamsTypeOK, NEW c \in Conns,
           Established(c) \/ Delivering(c) \/ Ended(c) \/ GivenUp(c)
    PROVE  StreamsTypeOK' /\ streams \in Nat /\ streams' \in Nat /\ streams <= streams'
<1>1. /\ streams \in 0..MaxStreams /\ serial \in [Conns -> 0..streams]
      /\ up \subseteq Conns /\ \A d \in up : serial[d] > 0
      /\ abandoned \subseteq 1..streams /\ MaxStreams \in Nat
  BY MaxStreamsAssumption DEF StreamsTypeOK
<1>2. CASE Established(c)
  <2>1. /\ streams' = streams + 1 /\ streams' \in 0..MaxStreams
        /\ serial' \in [Conns -> 0..streams'] /\ abandoned' \subseteq 1..streams'
    BY <1>1, <1>2 DEF Established
  <2>2. up' \subseteq Conns /\ \A d \in up' : serial'[d] > 0
    BY <1>1, <1>2 DEF Established
  <2> QED
    BY <1>1, <2>1, <2>2 DEF StreamsTypeOK
<1>3. CASE Delivering(c) \/ Ended(c)
  <2>1. streams' = streams /\ serial' = serial /\ abandoned' = abandoned /\ up' \subseteq up
    BY <1>3 DEF Delivering, Ended, streamVars
  <2> QED
    BY <1>1, <2>1 DEF StreamsTypeOK
<1>4. CASE GivenUp(c)
  <2>1. streams' = streams /\ serial' = serial /\ up' \subseteq up
        /\ abandoned' = abandoned \cup {serial[c]} /\ c \in up
    BY <1>4 DEF GivenUp
  <2>2. serial[c] \in 1..streams
    BY <1>1, <2>1
  <2>3. abandoned' \subseteq 1..streams'
    BY <1>1, <2>1, <2>2
  <2>4. up' \subseteq Conns /\ \A d \in up' : serial'[d] > 0
    BY <1>1, <2>1
  <2> HIDE DEF StreamsTypeOK
  <2>5. streams' \in 0..MaxStreams /\ serial' \in [Conns -> 0..streams'] /\ streams \in Nat
    BY <1>1, <2>1
  <2>6. StreamsTypeOK'
    BY <2>3, <2>4, <2>5 DEF StreamsTypeOK
  <2> QED
    BY <2>1, <2>5, <2>6
<1> QED
  BY <1>2, <1>3, <1>4

\* A step that leaves the table alone keeps the invariant.
LEMMA SameTable ==
    ASSUME TypeOK, StreamsTypeOK', streams <= streams', streams' \in Nat, UNCHANGED tableVars,
           NEW f, NEW ch, Arranged(f, ch)
    PROVE  TypeOK' /\ Arranged(f, ch)'
<1>1. TypeOK'
  <2>1. born \in [Slots -> 0..streams'] /\ born' = born
    BY DEF TypeOK, StreamsTypeOK, tableVars
  <2> QED
    BY <2>1 DEF TypeOK, tableVars
<1>2. Arranged(f, ch)'
  <2>1. /\ next' = next /\ prev' = prev /\ table' = table /\ nextFree' = nextFree
        /\ freeSmtps' = freeSmtps /\ hash' = hash /\ conn' = conn /\ born' = born
        /\ num' = num /\ lost' = lost
    BY DEF tableVars
  <2>2. Lists(f, ch)'
    BY <2>1 DEF Arranged, Lists, Bucket
  <2>3. Placed(f, ch)'
    BY <2>1 DEF Arranged, Placed, Held
  <2>4. Ages(ch)'
    BY <2>1 DEF Arranged, Ages, Held
  <2> QED
    BY <2>2, <2>3, <2>4 DEF Arranged
<1> QED
  BY <1>1, <1>2

\* free_smtp_info keeps the table's types.
LEMMA FreeType ==
    ASSUME TypeOK, StreamsTypeOK', streams' = streams, NEW s \in Slots, FreeSmtpInfo(s)
    PROVE  TypeOK'
BY DEF TypeOK, FreeSmtpInfo

\* new_smtp_info keeps the table's types.
LEMMA NewType ==
    ASSUME TypeOK, StreamsTypeOK', streams' = streams + 1, freeSmtps \in Slots,
           nextFree[freeSmtps] \in Slots \cup {Nil}, NEW c \in Conns,
           Bucket(c) \in Buckets, Taken(freeSmtps, Bucket(c)),
           Linked(c, freeSmtps, Bucket(c)) \/ NoBuffer(c, freeSmtps)
    PROVE  TypeOK'
<1>1. born \in [Slots -> 0..streams'] /\ streams' \in 0..streams'
  BY DEF TypeOK, StreamsTypeOK
<1>2. born' \in [Slots -> 0..streams']
  BY <1>1 DEF Linked, NoBuffer
<1>3. /\ nextFree' \in [Slots -> Slots \cup {Nil}] /\ freeSmtps' \in Slots \cup {Nil}
      /\ hash' \in [Slots -> Buckets]
  BY DEF TypeOK, Taken
<1>4. CASE Linked(c, freeSmtps, Bucket(c))
  BY <1>2, <1>3, <1>4 DEF TypeOK, Linked
<1>5. CASE NoBuffer(c, freeSmtps)
  BY <1>2, <1>3, <1>5 DEF TypeOK, NoBuffer
<1> QED
  BY <1>4, <1>5

\* smtp_init puts every entry on the free list.
LEMMA InitInv == Init => TableInv
<1> SUFFICES ASSUME Init PROVE TableInv
  OBVIOUS
<1> DEFINE f == [i \in 1..(MaxSmtps + 1) |-> i - 1]
           ch == [b \in Buckets |-> <<>>]
<1>1. MaxSmtps \in Nat
  BY PoolSize
<1>2. 0 \in Buckets
  BY TblSizeAssumption DEF Buckets
<1>3. TypeOK
  <2>1. StreamsTypeOK
    BY MaxStreamsAssumption DEF Init, StreamsInit, StreamsTypeOK
  <2>2. 0 \in Slots
    BY <1>1 DEF Slots
  <2>3. nextFree \in [Slots -> Slots \cup {Nil}]
    <3>1. \A s \in Slots : s # MaxSmtps => s + 1 \in Slots
      BY <1>1 DEF Slots
    <3> QED
      BY <3>1 DEF Init
  <2>4. streams = 0
    BY DEF Init, StreamsInit
  <2> QED
    BY <1>2, <2>1, <2>2, <2>3, <2>4 DEF Init, TypeOK
<1>4. f \in Seq(Slots) /\ Len(f) = MaxSmtps + 1 /\ Range(f) = {f[i] : i \in 1..(MaxSmtps + 1)}
  <2> DEFINE N == MaxSmtps + 1
  <2>1. f \in [1..N -> Slots] /\ N \in Nat
    BY <1>1 DEF Slots
  <2> HIDE DEF f, N
  <2>2. f \in Seq(Slots) /\ Len(f) = N /\ Range(f) = {f[i] : i \in 1..N}
    BY <2>1, SeqFromFunction
  <2> QED
    BY <2>2 DEF N
<1>5. Singly(nextFree, freeSmtps, f)
  <2>1. IsInjective(f)
    BY <1>1 DEF IsInjective
  <2>2. f # <<>> /\ freeSmtps = f[1]
    BY <1>1, <1>4 DEF Init
  <2>3. ASSUME NEW i \in 1..(MaxSmtps + 1)
        PROVE  nextFree[f[i]] = IF i = MaxSmtps + 1 THEN Nil ELSE f[i + 1]
    <3>1. f[i] = i - 1 /\ i - 1 \in Slots
      BY <1>1 DEF Slots
    <3>2. i # MaxSmtps + 1 => f[i + 1] = i
      BY <1>1
    <3> HIDE DEF f
    <3> QED
      BY <1>1, <3>1, <3>2 DEF Init
  <2> HIDE DEF f
  <2> QED
    BY <1>4, <2>1, <2>2, <2>3 DEF Singly, Walk
<1>6. Range(f) = Slots
  <2>1. \A i \in 1..(MaxSmtps + 1) : f[i] = i - 1 /\ i - 1 \in Slots
    BY <1>1 DEF Slots
  <2>2. \A s \in Slots : s + 1 \in 1..(MaxSmtps + 1) /\ f[s + 1] = s
    BY <1>1 DEF Slots
  <2> HIDE DEF f
  <2> QED
    BY <1>4, <2>1, <2>2
<1>7. /\ ch \in [Buckets -> Seq(Slots)]
      /\ \A b \in Buckets : ch[b] = <<>> /\ Len(ch[b]) = 0 /\ Range(ch[b]) = {}
  BY DEF Range
<1> HIDE DEF f, ch
<1>8. Held(ch) = {}
  BY <1>7 DEF Held
<1>9. Lists(f, ch)
  <2>1. ASSUME NEW b \in Buckets PROVE Doubly(next, prev, table[b], ch[b])
    <3>1. table[b] = Nil
      BY DEF Init
    <3>2. IsInjective(ch[b])
      BY <1>7 DEF IsInjective
    <3> QED
      BY <1>7, <3>1, <3>2 DEF Doubly, Singly, Walk, Back
  <2> QED
    BY <1>5, <1>7, <2>1 DEF Lists
<1>10. Placed(f, ch)
  BY <1>6, <1>8, FS_EmptySet DEF Placed, Init
<1>11. Ages(ch)
  BY <1>7, <1>8 DEF Ages
<1> QED
  BY <1>3, <1>9, <1>10, <1>11 DEF TableInv, Arranged

\* The entry a search finds is freed: what the steps of Data and Close do.
LEMMA FreeFound ==
    ASSUME TypeOK, NEW f, NEW ch, Arranged(f, ch), NEW c \in Conns, Search(c) # Nil,
           FreeSmtpInfo(Search(c))
    PROVE  \E k \in 1..Len(ch[Bucket(c)]) : \E F, C :
              /\ Search(c) = ch[Bucket(c)][k] /\ Search(c) \in Held(ch) /\ Search(c) \in Slots
              /\ Matches(c, conn[ch[Bucket(c)][k]])
              /\ \A i \in 1..(k - 1) : ~Matches(c, conn[ch[Bucket(c)][i]])
              /\ Arranged(F, C)' /\ Held(C) = Held(ch) \ {Search(c)}
<1>1. PICK k \in 1..Len(ch[Bucket(c)]) :
         /\ Search(c) = ch[Bucket(c)][k]
         /\ Matches(c, conn[ch[Bucket(c)][k]])
         /\ \A i \in 1..(k - 1) : ~Matches(c, conn[ch[Bucket(c)][i]])
  BY SearchFinds
<1>2. Bucket(c) \in Buckets
  BY SearchFinds
<1>3. PICK b : b = Bucket(c)
  OBVIOUS
<1> DEFINE s == ch[b][k]
<1>4. b \in Buckets /\ Search(c) = s /\ k \in 1..Len(ch[b])
  BY <1>1, <1>2, <1>3
<1>5. FreeSmtpInfo(s)
  BY <1>4 DEF FreeSmtpInfo
<1>6. s \in Held(ch) /\ \E F, C : Arranged(F, C)' /\ Held(C) = Held(ch) \ {s}
  BY <1>4, <1>5, FreeStep
<1>7. Held(ch) \subseteq Slots
  BY ArrangedFacts
<1> QED
  BY <1>1, <1>3, <1>4, <1>6, <1>7

\* Every step keeps the invariant.
LEMMA InvNext == TableInv /\ [Next]_vars => TableInv'
<1> SUFFICES ASSUME TableInv, [Next]_vars PROVE TableInv'
  OBVIOUS
<1>1. PICK f, ch : Arranged(f, ch)
  BY DEF TableInv
<1>2. TypeOK /\ StreamsTypeOK
  BY DEF TableInv, TypeOK
<1>3. ASSUME NEW c \in Conns, Open(c) PROVE TableInv'
  <2>1. /\ Established(c) /\ NewSmtpInfo(c) /\ streams' = streams + 1
        /\ StreamsTypeOK' /\ streams <= streams' /\ streams' \in Nat
    BY <1>2, <1>3, StreamsStep DEF Open, Established
  <2>2. Bucket(c) \in Buckets
    BY <1>1, SearchFinds
  <2>3. CASE UNCHANGED tableVars
    BY <1>1, <1>2, <2>1, <2>3, SameTable DEF TableInv
  <2>4. CASE ~UNCHANGED tableVars
    <3>1. /\ freeSmtps # Nil /\ Taken(freeSmtps, Bucket(c))
          /\ Linked(c, freeSmtps, Bucket(c)) \/ NoBuffer(c, freeSmtps)
      BY <2>1, <2>4 DEF NewSmtpInfo
    <3>2. freeSmtps \in Slots /\ nextFree[freeSmtps] \in Slots \cup {Nil}
      BY <1>1, <3>1, TopOfFree
    <3>3. TypeOK'
      BY <1>2, <2>1, <2>2, <3>1, <3>2, NewType
    <3>4. \E F, C : Arranged(F, C)'
      <4>1. CASE Linked(c, freeSmtps, Bucket(c))
        BY <1>1, <1>2, <2>1, <2>2, <3>1, <4>1, LinkedStep
      <4>2. CASE NoBuffer(c, freeSmtps)
        BY <1>1, <1>2, <2>2, <3>1, <4>2, NoBufferStep
      <4> QED
        BY <3>1, <4>1, <4>2
    <3> QED
      BY <3>3, <3>4 DEF TableInv
  <2> QED
    BY <2>3, <2>4
<1>4. ASSUME NEW c \in Conns, Data(c) \/ Close(c) PROVE TableInv'
  <2>1. /\ Delivering(c) \/ Ended(c)
        /\ UNCHANGED tableVars \/ (Search(c) # Nil /\ FreeSmtpInfo(Search(c)))
    BY <1>4 DEF Data, Close
  <2>2. /\ streams' = streams /\ StreamsTypeOK' /\ streams <= streams' /\ streams' \in Nat
    BY <1>2, <2>1, StreamsStep DEF Delivering, Ended, streamVars
  <2>3. CASE UNCHANGED tableVars
    BY <1>1, <1>2, <2>2, <2>3, SameTable DEF TableInv
  <2>4. CASE Search(c) # Nil /\ FreeSmtpInfo(Search(c))
    <3>1. Search(c) \in Slots /\ \E F, C : Arranged(F, C)'
      BY <1>1, <1>2, <2>4, FreeFound
    <3>2. TypeOK'
      BY <1>2, <2>2, <2>4, <3>1, FreeType
    <3> QED
      BY <3>1, <3>2 DEF TableInv
  <2> QED
    BY <2>1, <2>3, <2>4
<1>5. ASSUME NEW c \in Conns, TimeOut(c) PROVE TableInv'
  <2>1. /\ UNCHANGED tableVars /\ StreamsTypeOK' /\ streams <= streams' /\ streams' \in Nat
    BY <1>2, <1>5, StreamsStep DEF TimeOut
  <2> QED
    BY <1>1, <1>2, <2>1, SameTable DEF TableInv
<1>6. CASE UNCHANGED vars
  <2>1. /\ UNCHANGED tableVars /\ StreamsTypeOK' /\ streams <= streams' /\ streams' \in Nat
    BY <1>2, <1>6 DEF vars, streamVars, StreamsTypeOK
  <2> QED
    BY <1>1, <1>2, <2>1, SameTable DEF TableInv
<1> QED
  BY <1>3, <1>4, <1>5, <1>6 DEF Next

\* The lists stay lists, whatever new_smtp_info and free_smtp_info do to them.
THEOREM TableInvariant == Spec => []TableInv
<1> QED BY InitInv, InvNext, PTL DEF Spec

-----------------------------------------------------------------------------
(***************************************************************************)
(* The sessions of SessionTable are the entries in the buckets.            *)
(***************************************************************************)
Session(s) == [conn |-> conn[s], born |-> born[s]]
SessionsOf(S) == {Session(s) : s \in S}

\* The entries in the buckets, by the lists of the invariant.
LEMMA LinkedAreHeld == \A f, ch : Arranged(f, ch) => LinkedSlots = Held(ch)
BY ListsAreLists

\* The same of the next state.
LEMMA LinkedAreHeldNext == \A f, ch : Arranged(f, ch)' => LinkedSlots' = Held(ch)
<1>1. (\A f, ch : Arranged(f, ch) => LinkedSlots = Held(ch))'
  BY LinkedAreHeld, PTL
<1> QED
  BY <1>1 DEF Held

\* Two entries never stand for the same session.
LEMMA SessionFacts ==
    ASSUME TypeOK, NEW f, NEW ch, Arranged(f, ch)
    PROVE  /\ \A s, t \in Held(ch) : Session(s) = Session(t) => s = t
           /\ \A s \in Held(ch) : conn[s] \in Conns /\ born[s] \in Nat
                                  /\ Session(s).conn = conn[s] /\ Session(s).born = born[s]
           /\ IsFiniteSet(SessionsOf(Held(ch)))
           /\ Cardinality(SessionsOf(Held(ch))) = Cardinality(Held(ch))
<1>1. Held(ch) \subseteq Slots /\ IsFiniteSet(Held(ch))
  BY ArrangedFacts
<1>2. \A s \in Held(ch) : conn[s] \in Conns
  BY DEF Held, Arranged, Lists
<1>3. \A s \in Held(ch) : born[s] \in Nat
  BY <1>1 DEF TypeOK, StreamsTypeOK
<1>4. \A s : Session(s).conn = conn[s] /\ Session(s).born = born[s]
  BY DEF Session
<1>5. \A s, t \in Held(ch) : Session(s) = Session(t) => s = t
  BY <1>4 DEF Arranged, Ages
<1> DEFINE H == Held(ch)
           m == [s \in H |-> Session(s)]
<1>6. m \in Bijection(H, SessionsOf(H))
  <2>1. m \in [H -> SessionsOf(H)]
    BY DEF SessionsOf
  <2>2. \A a, b \in H : m[a] = m[b] => a = b
    BY <1>5
  <2>3. \A t \in SessionsOf(H) : \E s \in H : m[s] = t
    BY DEF SessionsOf
  <2> HIDE DEF m, H
  <2>4. m \in Injection(H, SessionsOf(H))
    BY <2>1, <2>2 DEF Injection, IsInjective
  <2>5. m \in Surjection(H, SessionsOf(H))
    BY <2>1, <2>3 DEF Surjection
  <2> QED
    BY <2>4, <2>5 DEF Bijection
<1>7. ExistsBijection(H, SessionsOf(H))
  BY <1>6 DEF ExistsBijection
<1> HIDE DEF m, H
<1>8. IsFiniteSet(SessionsOf(H)) /\ Cardinality(SessionsOf(H)) = Cardinality(H)
  BY <1>1, <1>7, FS_Bijection DEF H
<1> QED
  BY <1>2, <1>3, <1>4, <1>5, <1>8 DEF H

\* The table is full for SessionTable when the free list is empty.
LEMMA FullIsFree ==
    ASSUME TypeOK, NEW f, NEW ch, Arranged(f, ch)
    PROVE  /\ IsFiniteSet(lost) /\ Cardinality(lost) \in Nat
           /\ Cardinality(SessionsOf(Held(ch))) + Cardinality(lost) >= MaxSmtps + 1
                 <=> freeSmtps = Nil
<1> DEFINE H == Held(ch)
           U == H \cup lost
<1>1. /\ H \subseteq Slots /\ IsFiniteSet(H) /\ lost \subseteq Slots /\ IsFiniteSet(lost)
      /\ Cardinality(H) \in Nat /\ Cardinality(lost) \in Nat
  BY ArrangedFacts, PoolSize, FS_Subset, FS_CardinalityType DEF TypeOK
<1>2. lost \cap H = {} /\ Range(f) = Slots \ U
  BY DEF Arranged, Placed
<1>3. Cardinality(SessionsOf(H)) = Cardinality(H)
  BY SessionFacts
<1>4. freeSmtps = Nil <=> Range(f) = {}
  <2> DEFINE N == Len(f)
  <2>1. /\ N \in Nat /\ (f = <<>> <=> N = 0) /\ Range(f) = {f[i] : i \in 1..N}
        /\ \A i \in 1..N : f[i] \in Slots
    BY ArrangedFacts, SeqFacts
  <2>2. freeSmtps = IF f = <<>> THEN Nil ELSE f[1]
    BY DEF Arranged, Lists, Singly, Walk
  <2> HIDE DEF N
  <2>3. N # 0 => 1 \in 1..N /\ f[1] \in Range(f) /\ f[1] # Nil
    BY <2>1, SlotsAreNotNil
  <2>4. N = 0 => Range(f) = {}
    BY <2>1
  <2> QED
    BY <2>1, <2>2, <2>3, <2>4
<1> HIDE DEF H
<1>5. IsFiniteSet(U) /\ Cardinality(U) = Cardinality(H) + Cardinality(lost)
  <2>1. IsFiniteSet(U) /\ Cardinality(U) = Cardinality(H) + Cardinality(lost) - Cardinality(H \cap lost)
    BY <1>1, FS_Union
  <2>2. Cardinality(H \cap lost) = 0
    BY <1>2, FS_EmptySet
  <2> QED
    BY <1>1, <2>1, <2>2
<1>6. U \subseteq Slots
  BY <1>1
<1> HIDE DEF U
<1>7. /\ Cardinality(U) <= MaxSmtps + 1 /\ Cardinality(U) \in Nat
      /\ (Cardinality(U) = MaxSmtps + 1 <=> U = Slots)
  BY <1>5, <1>6, PoolSize, FS_Subset, FS_CardinalityType
<1>8. Cardinality(U) >= MaxSmtps + 1 <=> Slots \ U = {}
  BY <1>6, <1>7, PoolSize
<1> QED
  BY <1>1, <1>2, <1>3, <1>4, <1>5, <1>8 DEF H

\* What SessionTable means by the session found is the entry the search finds.
LEMMA FoundIsSearched ==
    ASSUME TypeOK, NEW f, NEW ch, Arranged(f, ch), NEW c \in Conns
    PROVE  /\ Search(c) = Nil => Promise!Found(c) = {}
           /\ Search(c) # Nil => /\ Search(c) \in Held(ch)
                                 /\ Promise!Found(c) = {Session(Search(c))}
<1> DEFINE b == Bucket(c)
           q == ch[b]
           N == Len(q)
           H == Held(ch)
           Sought == {s \in H : b = Bucket(conn[s]) /\ Matches(c, conn[s])}
<1>1. b \in Buckets
  BY SearchFinds
<1>2. /\ q \in Seq(Slots) /\ N \in Nat /\ Range(q) = {q[i] : i \in 1..N}
      /\ \A i \in 1..N : q[i] \in Range(q)
      /\ Range(q) \subseteq H
  BY <1>1, ArrangedFacts, SeqFacts
<1>3. \A s \in H : conn[s] \in Conns /\ born[s] \in Nat
                   /\ Session(s).conn = conn[s] /\ Session(s).born = born[s]
  BY SessionFacts
<1>4. LinkedSlots = H
  BY LinkedAreHeld
<1>5. \A s \in H : Promise!Matches(c, conn[s]) <=> b = Bucket(conn[s]) /\ Matches(c, conn[s])
  <2> SUFFICES ASSUME NEW s \in H
               PROVE  Promise!Matches(c, conn[s]) <=> b = Bucket(conn[s]) /\ Matches(c, conn[s])
    OBVIOUS
  <2> DEFINE e == conn[s]
  <2>1. e \in Conns
    BY <1>3
  <2> HIDE DEF e
  <2>2. c = e <=> (c.sport = e.sport /\ c.dport = e.dport /\ c.saddr = e.saddr /\ c.daddr = e.daddr)
    BY <2>1, ConnsAssumption
  <2>3. Promise!Matches(c, e) <=> Bucket(c) = Bucket(e) /\ Matches(c, e)
    BY <2>2 DEF Promise!Matches, Promise!Forward, Promise!Backward, Promise!Bucket, Bucket, Matches
  <2> QED
    BY <2>3 DEF e
<1>6. \A s \in H : b = Bucket(conn[s]) <=> s \in Range(q)
  <2>1. \A d \in Buckets : \A s \in Range(ch[d]) : Bucket(conn[s]) = d
    BY DEF Arranged, Lists
  <2>2. \A s \in H : \E d \in Buckets : s \in Range(ch[d])
    BY DEF Held
  <2> QED
    BY <1>1, <2>1, <2>2
<1> HIDE DEF H
<1>7. Promise!Sought(c) = SessionsOf(Sought)
  <2>1. Promise!Sought(c) = {r \in SessionsOf(H) : Promise!Matches(c, r.conn)}
    BY <1>4 DEF Promise!Sought, SessionsOf, Session
  <2>2. \A s \in H : Promise!Matches(c, Session(s).conn) <=> s \in Sought
    BY <1>3, <1>5
  <2> HIDE DEF Sought
  <2>3. Sought \subseteq H
    BY DEF Sought
  <2> QED
    BY <2>1, <2>2, <2>3 DEF SessionsOf
<1>8. \A s \in H : s \in Sought <=> s \in Range(q) /\ Matches(c, conn[s])
  BY <1>6
<1> HIDE DEF Sought, b
<1>9. Promise!Found(c) = {r \in SessionsOf(Sought) : \A t \in SessionsOf(Sought) : t.born <= r.born}
  BY <1>7 DEF Promise!Found
<1>10. Sought \subseteq H
  BY DEF Sought
<1>11. CASE Search(c) = Nil /\ \A e \in Range(q) : ~Matches(c, conn[e])
  <2>1. Sought = {}
    BY <1>8, <1>10, <1>11
  <2> QED
    BY <1>9, <1>11, <2>1 DEF SessionsOf
<1>12. CASE \E k \in 1..N : /\ Search(c) = q[k] /\ Matches(c, conn[q[k]])
                            /\ \A i \in 1..(k - 1) : ~Matches(c, conn[q[i]])
  <2>1. PICK k \in 1..N : /\ Search(c) = q[k] /\ Matches(c, conn[q[k]])
                          /\ \A i \in 1..(k - 1) : ~Matches(c, conn[q[i]])
    BY <1>12
  <2>2. \A i \in 1..N : \A j \in (i + 1)..N : born[q[i]] > born[q[j]]
    BY <1>1 DEF Arranged, Ages, b
  <2>3. \A i \in 1..N : q[i] \in H
    BY <1>2
  <2> HIDE DEF q, N
  <2> DEFINE s == q[k]
  <2>4. s \in Sought /\ s \in H
    BY <1>2, <1>8, <2>1, <2>3
  <2>5. ASSUME NEW t \in Sought, t # s PROVE born[t] < born[s]
    <3>1. t \in Range(q) /\ Matches(c, conn[t])
      BY <1>8, <1>10
    <3>2. PICK j \in 1..N : q[j] = t
      BY <1>2, <3>1
    <3>3. j # k
      BY <2>5, <3>2
    <3>4. ~(j \in 1..(k - 1))
      BY <2>1, <3>1, <3>2
    <3>5. j \in (k + 1)..N
      BY <1>2, <3>3, <3>4
    <3>6. born[q[k]] > born[q[j]]
      BY <2>2, <3>5
    <3> QED
      BY <1>3, <2>3, <3>2, <3>6
  <2> HIDE DEF s
  <2>6. \A t \in Sought : born[t] <= born[s] /\ (born[s] <= born[t] => t = s)
    BY <1>3, <1>10, <2>4, <2>5
  <2>7. Promise!Found(c) = {Session(s)}
    <3>1. \A t \in Sought : Session(t).born = born[t]
      BY <1>3, <1>10
    <3>2. Session(s) \in SessionsOf(Sought)
      BY <2>4 DEF SessionsOf
    <3>3. \A r \in SessionsOf(Sought) : r.born <= Session(s).born
      BY <2>4, <2>6, <3>1 DEF SessionsOf
    <3>4. \A r \in SessionsOf(Sought) : Session(s).born <= r.born => r = Session(s)
      BY <2>4, <2>6, <3>1 DEF SessionsOf
    <3> QED
      BY <1>9, <3>2, <3>3, <3>4
  <2>8. Search(c) = s /\ s # Nil
    <3>1. H \subseteq Slots
      BY ArrangedFacts DEF H
    <3> QED
      BY <2>1, <2>4, <3>1, SlotsAreNotNil DEF s
  <2> QED
    BY <2>4, <2>7, <2>8 DEF H
<1> QED
  BY <1>11, <1>12, SearchFinds DEF b

\* The next sessions, by the lists the next state has.
LEMMA SessionsNext ==
    ASSUME NEW F, NEW C, Arranged(F, C)'
    PROVE  {[conn |-> conn[s], born |-> born[s]] : s \in LinkedSlots}'
             = {[conn |-> conn'[s], born |-> born'[s]] : s \in Held(C)}
<1>1. LinkedSlots' = Held(C)
  BY LinkedAreHeldNext
<1> QED
  BY <1>1

\* The empty table has no session.
LEMMA RefinesInit == Init => Promise!Init
<1> SUFFICES ASSUME Init PROVE Promise!Init
  OBVIOUS
<1>1. PICK f, ch : Arranged(f, ch)
  BY InitInv DEF TableInv
<1>2. lost = {} /\ num = 0 /\ StreamsInit
  BY DEF Init
<1>3. Held(ch) = {}
  <2>1. IsFiniteSet(Held(ch)) /\ Cardinality(Held(ch)) = 0
    BY <1>1, <1>2, ArrangedFacts DEF Arranged, Placed
  <2> QED
    BY <2>1, FS_EmptySet
<1>4. LinkedSlots = {}
  BY <1>1, <1>3, LinkedAreHeld
<1> QED
  BY <1>2, <1>4, FS_EmptySet DEF Promise!Init, Promise!StreamsInit, StreamsInit

\* Every step of the table is a step of SessionTable, or changes none of its state.
LEMMA RefinesNext == TableInv /\ [Next]_vars => [Promise!Next]_(Promise!vars)
<1> SUFFICES ASSUME TableInv, [Next]_vars PROVE [Promise!Next]_(Promise!vars)
  OBVIOUS
<1> DEFINE Now == {[conn |-> conn[s], born |-> born[s]] : s \in LinkedSlots}
<1>1. PICK f, ch : Arranged(f, ch)
  BY DEF TableInv
<1>2. TypeOK /\ StreamsTypeOK
  BY DEF TableInv, TypeOK
<1>3. Now = SessionsOf(Held(ch)) /\ Held(ch) \subseteq Slots
  BY <1>1, LinkedAreHeld, ArrangedFacts DEF SessionsOf, Session
\* Steps that leave the table alone.
<1>4. ASSUME UNCHANGED tableVars, StreamsTypeOK', streams <= streams', streams' \in Nat
      PROVE  Now' = Now /\ Cardinality(lost)' = Cardinality(lost)
  <2>1. Arranged(f, ch)'
    BY <1>1, <1>2, <1>4, SameTable
  <2>2. Now' = {[conn |-> conn'[s], born |-> born'[s]] : s \in Held(ch)}
    BY <2>1, SessionsNext
  <2>3. conn' = conn /\ born' = born /\ lost' = lost
    BY <1>4 DEF tableVars
  <2> QED
    BY <1>3, <2>2, <2>3 DEF SessionsOf, Session
\* Steps that free the entry found.
<1>5. ASSUME NEW c \in Conns, Search(c) # Nil, FreeSmtpInfo(Search(c))
      PROVE  Now' = Now \ Promise!Found(c) /\ Cardinality(lost)' = Cardinality(lost)
  <2>1. PICK F, C : Arranged(F, C)' /\ Held(C) = Held(ch) \ {Search(c)}
    BY <1>1, <1>2, <1>5, FreeFound
  <2>2. Now' = {[conn |-> conn'[s], born |-> born'[s]] : s \in Held(C)}
    BY <2>1, SessionsNext
  <2>3. conn' = conn /\ born' = born /\ lost' = lost
    BY <1>5 DEF FreeSmtpInfo
  <2>4. Promise!Found(c) = {Session(Search(c))} /\ Search(c) \in Held(ch)
    BY <1>1, <1>2, <1>5, FoundIsSearched
  <2>5. Now' = SessionsOf(Held(ch) \ {Search(c)})
    BY <2>1, <2>2, <2>3 DEF SessionsOf, Session
  <2>6. \A s, t \in Held(ch) : Session(s) = Session(t) => s = t
    BY <1>1, <1>2, SessionFacts
  <2>7. SessionsOf(Held(ch) \ {Search(c)}) = SessionsOf(Held(ch)) \ {Session(Search(c))}
    BY <2>4, <2>6 DEF SessionsOf
  <2> QED
    BY <1>3, <2>3, <2>4, <2>5, <2>7
<1>6. ASSUME NEW c \in Conns, Open(c) PROVE Promise!Open(c)
  <2>1. /\ Established(c) /\ NewSmtpInfo(c) /\ streams' = streams + 1
        /\ StreamsTypeOK' /\ streams <= streams' /\ streams' \in Nat
    BY <1>2, <1>6, StreamsStep DEF Open, Established
  <2>2. Bucket(c) \in Buckets
    BY <1>1, SearchFinds
  <2>3. Promise!Established(c)
    BY <2>1 DEF Promise!Established, Established
  <2>4. Promise!Full <=> freeSmtps = Nil
    <3>1. Promise!Full <=> Cardinality(Now) + Cardinality(lost) >= Promise!Capacity
      BY DEF Promise!Full, Promise!Cardinality, Cardinality
    <3>2. Promise!Capacity = MaxSmtps + 1
      BY DEF Promise!Capacity, Promise!MaxSmtps, MaxSmtps
    <3> HIDE DEF Now
    <3>3. Cardinality(Now) + Cardinality(lost) >= MaxSmtps + 1 <=> freeSmtps = Nil
      BY <1>1, <1>2, <1>3, FullIsFree
    <3> QED
      BY <3>1, <3>2, <3>3
  <2>5. num > MaxSmtps => freeSmtps = Nil
    BY InvImplies DEF PoolPartitioned
  <2>6. CASE freeSmtps = Nil
    <3>1. UNCHANGED tableVars
      BY <2>1, <2>6 DEF NewSmtpInfo
    <3>2. Now' = Now /\ Cardinality(lost)' = Cardinality(lost)
      BY <1>4, <2>1, <3>1
    <3> QED
      BY <2>3, <2>4, <2>6, <3>2 DEF Promise!Open, Promise!tableVars
  <2>7. CASE freeSmtps # Nil
    <3>1. /\ Taken(freeSmtps, Bucket(c))
          /\ Linked(c, freeSmtps, Bucket(c)) \/ NoBuffer(c, freeSmtps)
      BY <2>1, <2>5, <2>7 DEF NewSmtpInfo
    <3>2. /\ freeSmtps \in Slots /\ freeSmtps \notin Held(ch) /\ freeSmtps \notin lost
          /\ IsFiniteSet(lost) /\ Cardinality(lost) \in Nat
      BY <1>1, <1>2, <2>7, TopOfFree, FullIsFree
    <3>3. conn \in [Slots -> Conns \cup {NoConn}] /\ born \in [Slots -> 0..streams]
      BY <1>2 DEF TypeOK
    <3>4. CASE Linked(c, freeSmtps, Bucket(c))
      <4>1. PICK s, C : s = freeSmtps /\ Arranged(Without(f, 1), C)'
                                  /\ Held(C) = Held(ch) \cup {s}
        BY <1>1, <1>2, <2>1, <2>2, <2>7, <3>1, <3>4, LinkedStep
      <4>2. Now' = {[conn |-> conn'[e], born |-> born'[e]] : e \in Held(ch) \cup {s}}
        BY <4>1, SessionsNext
      <4>3. /\ conn'[s] = c /\ born'[s] = streams' /\ lost' = lost
            /\ \A e \in Held(ch) : conn'[e] = conn[e] /\ born'[e] = born[e]
        BY <1>3, <3>2, <3>3, <3>4, <4>1 DEF Linked
      <4>4. Now' = Now \cup {[conn |-> c, born |-> streams']}
        BY <1>3, <4>2, <4>3 DEF SessionsOf, Session
      <4> QED
        BY <2>3, <2>4, <2>7, <4>3, <4>4 DEF Promise!Open
    <3>5. CASE NoBuffer(c, freeSmtps)
      <4>1. Arranged(Without(f, 1), ch)'
        BY <1>1, <1>2, <2>2, <2>7, <3>1, <3>5, NoBufferStep
      <4>2. Now' = {[conn |-> conn'[e], born |-> born'[e]] : e \in Held(ch)}
        BY <4>1, SessionsNext
      <4>3. /\ lost' = lost \cup {freeSmtps}
            /\ \A e \in Held(ch) : conn'[e] = conn[e] /\ born'[e] = born[e]
        BY <1>3, <3>2, <3>3, <3>5 DEF NoBuffer
      <4>4. Now' = Now
        BY <1>3, <4>2, <4>3 DEF SessionsOf, Session
      <4>5. Cardinality(lost') = Cardinality(lost) + 1
        BY <3>2, <4>3, FS_AddElement
      <4> QED
        BY <2>3, <2>4, <2>7, <4>4, <4>5 DEF Promise!Open
    <3> QED
      BY <3>1, <3>4, <3>5
  <2> QED
    BY <2>6, <2>7
<1>7. ASSUME NEW c \in Conns, Data(c) PROVE Promise!Data(c)
  <2>1. /\ Delivering(c) /\ streams' = streams /\ streams' \in Nat /\ streams <= streams'
        /\ StreamsTypeOK'
    BY <1>2, <1>7, StreamsStep DEF Data, Delivering, streamVars
  <2>2. Promise!Delivering(c)
    BY <2>1 DEF Promise!Delivering, Delivering, Promise!streamVars, streamVars
  <2>3. CASE UNCHANGED tableVars
    BY <1>4, <2>1, <2>2, <2>3 DEF Promise!Data
  <2>4. CASE Search(c) # Nil /\ FreeSmtpInfo(Search(c))
    BY <1>5, <2>2, <2>4 DEF Promise!Data
  <2> QED
    BY <1>7, <2>3, <2>4 DEF Data
<1>8. ASSUME NEW c \in Conns, Close(c) PROVE Promise!Close(c)
  <2>1. /\ Ended(c) /\ streams' = streams /\ streams' \in Nat /\ streams <= streams'
        /\ StreamsTypeOK'
    BY <1>2, <1>8, StreamsStep DEF Close, Ended
  <2>2. Promise!Ended(c)
    BY <2>1 DEF Promise!Ended, Ended
  <2>3. CASE Search(c) = Nil
    <3>1. Promise!Found(c) = {}
      BY <1>1, <1>2, <2>3, FoundIsSearched
    <3>2. Now' = Now /\ Cardinality(lost)' = Cardinality(lost)
      BY <1>4, <1>8, <2>1, <2>3 DEF Close
    <3> QED
      BY <2>2, <3>1, <3>2 DEF Promise!Close
  <2>4. CASE Search(c) # Nil
    BY <1>5, <1>8, <2>2, <2>4 DEF Promise!Close, Close
  <2> QED
    BY <2>3, <2>4
<1>9. ASSUME NEW c \in Conns, TimeOut(c) PROVE Promise!TimeOut(c)
  <2>1. /\ UNCHANGED tableVars /\ StreamsTypeOK' /\ streams <= streams' /\ streams' \in Nat
    BY <1>2, <1>9, StreamsStep DEF TimeOut
  <2>2. Promise!GivenUp(c)
    BY <1>9 DEF Promise!GivenUp, GivenUp, TimeOut
  <2> QED
    BY <1>4, <2>1, <2>2 DEF Promise!TimeOut, Promise!tableVars
<1>10. CASE UNCHANGED vars
  <2>1. /\ UNCHANGED tableVars /\ StreamsTypeOK' /\ streams <= streams' /\ streams' \in Nat
    BY <1>2, <1>10 DEF vars, streamVars, StreamsTypeOK
  <2>2. Now' = Now /\ Cardinality(lost)' = Cardinality(lost)
    BY <1>4, <2>1
  <2> QED
    BY <1>10, <2>2 DEF Promise!vars, Promise!streamVars, Promise!tableVars, vars, streamVars
<1> QED
  BY <1>6, <1>7, <1>8, <1>9, <1>10 DEF Next, Promise!Next

-----------------------------------------------------------------------------
(***************************************************************************)
(* The theorems.                                                           *)
(***************************************************************************)
\* The pointers, counts and addresses of the table keep their types.
THEOREM TableTyped == Spec => []TypeOK
<1>1. TableInv => TypeOK
  BY DEF TableInv
<1> QED
  BY <1>1, TableInvariant, PTL

\* No entry of the pool is in two places or, but for the lost ones, in none,
\* and smtp_num is the number of those in the buckets (new_smtp_info and
\* free_smtp_info of src/smtp.c).
THEOREM TablePartitioned == Spec => []PoolPartitioned
BY TableInvariant, InvImplies, PTL

\* The buckets can be walked both ways.
THEOREM TableLinked == Spec => []LinksConsistent
BY TableInvariant, InvImplies, PTL

\* A bucket has its newest entry first, so that search_smtp_info finds it.
THEOREM TableNewest == Spec => []NewestFirst
BY TableInvariant, InvImplies, PTL

\* The table with its pointers does what SessionTable promises.
THEOREM TableRefines == Spec => Implements
<1> QED
  BY TableInvariant, RefinesInit, RefinesNext, PTL DEF Spec, Implements, Promise!Spec

=============================================================================

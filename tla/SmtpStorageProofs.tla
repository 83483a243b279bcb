------------------------- MODULE SmtpStorageProofs -------------------------
(***************************************************************************)
(* The pools and lists of SmtpStorage stay whole whatever memory is        *)
(* refused: for any memory, pools of any length, paths of any number of    *)
(* mailboxes and any number of events in the hands of libnel.              *)
(***************************************************************************)
EXTENDS SmtpStorage, SequenceTheorems, FiniteSetTheorems, WellFoundedInduction, TLAPS

-----------------------------------------------------------------------------
(***************************************************************************)
(* Natural numbers.                                                        *)
(***************************************************************************)
LEMMA Least ==
    ASSUME NEW S, S \subseteq Nat, S # {}
    PROVE  \E x \in S : \A y \in S : x <= y
<1>1. \A x, y \in Nat : x < y => <<x, y>> \in OpToRel(<, Nat)
  BY DEF OpToRel
<1>2. PICK x \in S : \A y \in S : ~(<<y, x>> \in OpToRel(<, Nat))
  BY NatLessThanWellFounded, WFMin
<1>3. \A y \in S : ~(y < x)
  BY <1>1, <1>2
<1> QED
  BY <1>3

\* What holds of 0 and of the successors of its numbers up to n holds up to n.
LEMMA UpTo ==
    ASSUME NEW n \in Nat, NEW S, 0 \in S, \A k \in 1..n : k - 1 \in S => k \in S
    PROVE  \A k \in 0..n : k \in S
<1> SUFFICES ASSUME (0..n) \ S # {} PROVE FALSE
  OBVIOUS
<1>1. PICK k \in (0..n) \ S : \A y \in (0..n) \ S : k <= y
  <2>1. (0..n) \ S \subseteq Nat
    OBVIOUS
  <2> QED
    BY <2>1, Least
<1>2. k \in 1..n /\ k - 1 \in 0..n
  BY <1>1
<1>3. k - 1 \in S
  BY <1>1, <1>2
<1> QED
  BY <1>1, <1>2, <1>3

-----------------------------------------------------------------------------
(***************************************************************************)
(* Pools: the objects of a chain are numbered from its end.                *)
(***************************************************************************)
Objects(p) == DOMAIN p.next
Stacked(p, s) ==
    /\ p.num \in Nat /\ s \in [0..p.num -> Nat] /\ s[0] = None
    /\ \A i, j \in 0..p.num : s[i] = s[j] => i = j
    /\ p.head = s[p.num]
    /\ Objects(p) = {s[i] : i \in 1..p.num}
    /\ \A i \in 1..p.num : p.next[s[i]] = s[i - 1]
Whole(p) == \E s : Stacked(p, s)

LEMMA StackedSound == ASSUME NEW p, Whole(p) PROVE Sound(p)
<1> PICK s : Stacked(p, s)
  BY DEF Whole
<1> PICK n : n = p.num
  OBVIOUS
<1>1. /\ n \in Nat /\ s \in [0..n -> Nat] /\ s[0] = None /\ p.head = s[n]
      /\ \A i, j \in 0..n : s[i] = s[j] => i = j
      /\ DOMAIN p.next = {s[i] : i \in 1..n}
      /\ \A i \in 1..n : p.next[s[i]] = s[i - 1]
  BY DEF Stacked, Objects
<1>2. n = Cardinality(DOMAIN p.next)
  <2>1. PICK f : f = [i \in 1..n |-> s[i]]
    OBVIOUS
  <2>2. \A i \in 1..n : i \in 0..n /\ f[i] = s[i]
    BY <1>1, <2>1
  <2>3. f \in [1..n -> DOMAIN p.next]
    BY <1>1, <2>1, <2>2
  <2>4. \A i, j \in 1..n : f[i] = f[j] => i = j
    BY <1>1, <2>2
  <2>5. \A o \in DOMAIN p.next : \E i \in 1..n : f[i] = o
    BY <1>1, <2>2
  <2>6. f \in Bijection(1..n, DOMAIN p.next)
    BY <2>3, <2>4, <2>5, Zenon DEF Bijection, Injection, Surjection, IsInjective
  <2> QED
    BY <1>1, <2>6, FS_CountingElements DEF ExistsBijection
<1>3. PICK c : /\ c = [k \in 0..n |-> IF k = 0 THEN p.head ELSE p.next[c[k - 1]]]
               /\ Chain(p) = [k \in 1..n |-> c[k - 1]]
  <2>1. \E c : c = [k \in 0..n |-> IF k = 0 THEN p.head ELSE p.next[c[k - 1]]]
    <3>1. PICK c : c = [k \in 0..n |-> s[n - k]]
      OBVIOUS
    <3>2. \A k \in 0..n : n - k \in 0..n /\ c[k] = s[n - k]
      BY <1>1, <3>1
    <3>3. ASSUME NEW k \in 0..n
          PROVE  c[k] = IF k = 0 THEN p.head ELSE p.next[c[k - 1]]
      <4>1. CASE k = 0
        BY <1>1, <3>2, <4>1
      <4>2. CASE k # 0
        <5> PICK m : m = n - (k - 1)
          OBVIOUS
        <5>1. k - 1 \in 0..n /\ m \in 1..n /\ m - 1 = n - k
          BY <1>1, <4>2
        <5>2. c[k - 1] = s[m] /\ p.next[s[m]] = s[n - k]
          <6>1. c[k - 1] = s[n - (k - 1)]
            BY <3>2, <5>1
          <6>2. p.next[s[m]] = s[m - 1]
            BY <1>1, <5>1
          <6> QED
            BY <5>1, <6>1, <6>2
        <5> QED
          BY <3>2, <4>2, <5>2
      <4> QED
        BY <4>1, <4>2
    <3> QED
      BY <3>1, <3>3
  <2> QED
    BY <2>1 DEF Chain
<1>4. \A k \in 0..n : c[k] = s[n - k]
  <2>1. PICK S : S = {k \in 0..n : c[k] = s[n - k]}
    OBVIOUS
  <2>2. 0 \in S
    BY <1>1, <1>3, <2>1
  <2>3. ASSUME NEW k \in 1..n, k - 1 \in S PROVE k \in S
    <3>1. k \in 0..n /\ k # 0 /\ n - (k - 1) \in 1..n /\ n - (k - 1) - 1 = n - k
      BY <1>1
    <3>2. c[k] = p.next[c[k - 1]]
      BY <1>3, <3>1
    <3>3. c[k - 1] = s[n - (k - 1)] /\ p.next[s[n - (k - 1)]] = s[n - k]
      BY <1>1, <2>1, <2>3, <3>1
    <3> QED
      BY <2>1, <3>1, <3>2, <3>3
  <2> QED
    BY <1>1, <2>1, <2>2, <2>3, UpTo
<1>5. ToSet(Chain(p)) = DOMAIN p.next
  <2>1. \A k \in 1..n : k - 1 \in 0..n /\ Chain(p)[k] = s[n - (k - 1)] /\ n - (k - 1) \in 1..n
    <3> TAKE k \in 1..n
    <3>1. k - 1 \in 0..n /\ n - (k - 1) \in 1..n
      BY <1>1
    <3>2. Chain(p)[k] = c[k - 1]
      BY <1>3
    <3> QED
      BY <1>4, <3>1, <3>2
  <2>2. \A i \in 1..n : n - (i - 1) \in 1..n /\ Chain(p)[n - (i - 1)] = s[i]
    <3> TAKE i \in 1..n
    <3>1. n - (i - 1) \in 1..n /\ n - ((n - (i - 1)) - 1) = i
      BY <1>1
    <3> QED
      BY <2>1, <3>1
  <2>3. DOMAIN Chain(p) = 1..n
    BY <1>3
  <2> QED
    BY <1>1, <2>1, <2>2, <2>3 DEF ToSet
<1>6. n = 0 => p.head = None
  BY <1>1
<1> QED
  BY <1>2, <1>5, <1>6 DEF Sound

LEMMA NoneOutside == ASSUME NEW p, Whole(p) PROVE None \notin Objects(p)
<1>1. PICK s : Stacked(p, s)
  BY DEF Whole
<1>2. \A i \in 1..p.num : s[i] # None
  <2> SUFFICES ASSUME NEW i \in 1..p.num, s[i] = s[0] PROVE FALSE
    BY <1>1 DEF Stacked
  <2>1. i \in 0..p.num /\ 0 \in 0..p.num /\ i # 0
    BY <1>1 DEF Stacked
  <2> QED
    BY <1>1, <2>1 DEF Stacked
<1> QED
  BY <1>1, <1>2 DEF Stacked

LEMMA EmptyWhole == Whole(EmptyPool) /\ Objects(EmptyPool) = {}
<1> PICK s : s = [i \in 0..0 |-> None]
  OBVIOUS
<1>1. EmptyPool.num = 0 /\ EmptyPool.head = None /\ EmptyPool.next = <<>>
  BY DEF EmptyPool
<1>2. Objects(EmptyPool) = {}
  BY <1>1 DEF Objects
<1>3. Stacked(EmptyPool, s)
  BY <1>1, <1>2 DEF Stacked, None
<1> QED
  BY <1>2, <1>3 DEF Whole

\* An object given back is the new top.
LEMMA FreeMemWhole ==
    ASSUME NEW p, NEW o, Whole(p), o \in Nat \ {None}, o \notin Objects(p)
    PROVE  Whole(FreeMem(p, o)) /\ Objects(FreeMem(p, o)) = Objects(p) \cup {o}
<1> PICK s : Stacked(p, s)
  BY DEF Whole
<1> PICK n : n = p.num
  OBVIOUS
<1> PICK q : q = FreeMem(p, o)
  OBVIOUS
<1>1. /\ n \in Nat /\ s \in [0..n -> Nat] /\ s[0] = None /\ p.head = s[n]
      /\ \A i, j \in 0..n : s[i] = s[j] => i = j
      /\ Objects(p) = {s[i] : i \in 1..n}
      /\ \A i \in 1..n : p.next[s[i]] = s[i - 1]
  BY DEF Stacked
<1>2. /\ q.head = o /\ q.num = n + 1 /\ Objects(q) = Objects(p) \cup {o}
      /\ q.next[o] = p.head /\ \A x \in Objects(p) : q.next[x] = p.next[x]
  BY DEF FreeMem, Objects
<1>3. PICK t : t = [i \in 0..(n + 1) |-> IF i <= n THEN s[i] ELSE o]
  OBVIOUS
<1>4. t[n + 1] = o /\ \A i \in 0..n : t[i] = s[i]
  BY <1>1, <1>3
<1>5. t \in [0..(n + 1) -> Nat]
  BY <1>1, <1>3
<1>6. \A i \in 0..n : s[i] # o
  BY <1>1
<1>7. ASSUME NEW i \in 0..(n + 1), NEW j \in 0..(n + 1), t[i] = t[j] PROVE i = j
  <2>1. CASE i \in 0..n /\ j \in 0..n
    BY <1>1, <1>4, <1>7, <2>1
  <2>2. CASE i \in 0..n /\ j = n + 1
    BY <1>4, <1>6, <1>7, <2>2
  <2>3. CASE i = n + 1 /\ j \in 0..n
    BY <1>4, <1>6, <1>7, <2>3
  <2> QED
    BY <1>1, <2>1, <2>2, <2>3
<1>8. Objects(q) = {t[i] : i \in 1..(n + 1)}
  <2>1. \A i \in 1..(n + 1) : i = n + 1 \/ (i \in 1..n /\ i \in 0..n)
    BY <1>1
  <2>2. \A i \in 1..n : i \in 0..n /\ i \in 1..(n + 1) /\ n + 1 \in 1..(n + 1)
    BY <1>1
  <2>3. n + 1 \in 1..(n + 1)
    BY <1>1
  <2> QED
    BY <1>1, <1>2, <1>4, <2>1, <2>2, <2>3
<1>11. n \in Nat /\ n + 1 \in Nat
  BY <1>1
<1>9. ASSUME NEW i \in 1..(n + 1) PROVE q.next[t[i]] = t[i - 1]
  <2>1. CASE i = n + 1
    <3>1. t[i] = o /\ i - 1 = n /\ n \in 0..n
      <4>1. i - 1 = n /\ n \in 0..n
        BY <1>11, <2>1
      <4> QED
        BY <1>4, <2>1, <4>1
    <3>2. t[i - 1] = s[n]
      BY <1>4, <3>1
    <3> QED
      BY <1>1, <1>2, <3>1, <3>2
  <2>2. CASE i # n + 1
    <3>1. i \in 1..n /\ i \in 0..n /\ i - 1 \in 0..n
      BY <1>1, <2>2
    <3>2. s[i] \in Objects(p) /\ p.next[s[i]] = s[i - 1]
      BY <1>1, <3>1
    <3>3. t[i] = s[i] /\ t[i - 1] = s[i - 1]
      BY <1>4, <3>1
    <3> QED
      BY <1>2, <3>2, <3>3
  <2> QED
    BY <2>1, <2>2
<1>10. t[0] = None
  BY <1>1, <1>4
<1>12. Stacked(q, t)
  BY <1>2, <1>4, <1>5, <1>7, <1>8, <1>9, <1>10, <1>11 DEF Stacked
<1> QED
  BY <1>2, <1>12 DEF Whole

\* A pool without its top.
LEMMA TakenWhole ==
    ASSUME NEW p, Whole(p), p.num > 0
    PROVE  /\ Whole(Taken(p)) /\ Objects(Taken(p)) = Objects(p) \ {p.head}
           /\ p.head \in Objects(p)
<1> PICK s : Stacked(p, s)
  BY DEF Whole
<1> PICK n : n = p.num
  OBVIOUS
<1> PICK q : q = Taken(p)
  OBVIOUS
<1>1. /\ n \in Nat /\ n > 0 /\ s \in [0..n -> Nat] /\ s[0] = None /\ p.head = s[n]
      /\ \A i, j \in 0..n : s[i] = s[j] => i = j
      /\ Objects(p) = {s[i] : i \in 1..n}
      /\ \A i \in 1..n : p.next[s[i]] = s[i - 1]
  BY DEF Stacked
<1>2. n \in 1..n /\ n - 1 \in Nat /\ n - 1 + 1 = n
  BY <1>1
<1>3. /\ q.head = p.next[p.head] /\ q.num = n - 1 /\ Objects(q) = Objects(p) \ {p.head}
      /\ \A x \in Objects(q) : q.next[x] = p.next[x]
  BY DEF Taken, Objects, Restrict
<1>4. p.head \in Objects(p) /\ q.head = s[n - 1]
  BY <1>1, <1>2, <1>3
<1>5. PICK t : t = [i \in 0..(n - 1) |-> s[i]]
  OBVIOUS
<1>6. \A i \in 0..(n - 1) : i \in 0..n /\ t[i] = s[i]
  BY <1>1, <1>5
<1>7. t \in [0..(n - 1) -> Nat]
  BY <1>1, <1>5, <1>6
<1>8. Objects(q) = {t[i] : i \in 1..(n - 1)}
  <2>1. ASSUME NEW o \in Objects(q) PROVE \E i \in 1..(n - 1) : t[i] = o
    <3>1. PICK i \in 1..n : o = s[i]
      BY <1>1, <1>3
    <3>2. i # n
      BY <1>1, <1>3, <3>1
    <3>3. i \in 1..(n - 1) /\ i \in 0..(n - 1)
      BY <1>1, <3>2
    <3> QED
      BY <1>6, <3>1, <3>3
  <2>2. ASSUME NEW i \in 1..(n - 1) PROVE t[i] \in Objects(q)
    <3>1. i \in 0..(n - 1) /\ i \in 1..n /\ i # n /\ n \in 0..n /\ i \in 0..n
      BY <1>1
    <3>2. s[i] # s[n]
      BY <1>1, <3>1
    <3> QED
      BY <1>1, <1>3, <1>6, <3>1, <3>2
  <2> QED
    BY <2>1, <2>2
<1>9. ASSUME NEW i \in 1..(n - 1) PROVE q.next[t[i]] = t[i - 1]
  <2>1. i \in 0..(n - 1) /\ i \in 1..n /\ i - 1 \in 0..(n - 1)
    BY <1>1
  <2>2. t[i] \in Objects(q)
    BY <1>8
  <2> QED
    <3>1. t[i] = s[i] /\ t[i - 1] = s[i - 1] /\ p.next[s[i]] = s[i - 1]
      BY <1>1, <1>6, <2>1
    <3> QED
      BY <1>3, <2>2, <3>1
<1>10. \A i, j \in 0..(n - 1) : t[i] = t[j] => i = j
  BY <1>1, <1>6
<1>11. t[0] = None /\ q.head = t[n - 1]
  <2>1. 0 \in 0..(n - 1) /\ n - 1 \in 0..(n - 1)
    BY <1>1
  <2> QED
    BY <1>1, <1>4, <1>6, <2>1
<1>12. Stacked(q, t)
  BY <1>2, <1>3, <1>7, <1>8, <1>9, <1>10, <1>11 DEF Stacked
<1> QED
  BY <1>3, <1>4, <1>12 DEF Whole

Filling(p, free, q, k) == IF k = 0 THEN p ELSE Grown(q[k - 1], free)
LEMMA FillingExists ==
    ASSUME NEW p, NEW free, NEW n \in Nat
    PROVE  \E q : q = [k \in 0..n |-> Filling(p, free, q, k)]
<1> DEFINE Ok(m) == \E q : q = [k \in 0..m |-> Filling(p, free, q, k)]
           S == {m \in 0..n : Ok(m)}
<1>1. Ok(0)
  <2>1. PICK q : q = [k \in 0..0 |-> p]
    OBVIOUS
  <2>2. q = [k \in 0..0 |-> Filling(p, free, q, k)]
    BY <2>1 DEF Filling
  <2> QED
    BY <2>2
<1>2. ASSUME NEW m \in 1..n, Ok(m - 1) PROVE Ok(m)
  <2>1. PICK f : f = [k \in 0..(m - 1) |-> Filling(p, free, f, k)]
    BY <1>2
  <2>2. PICK q : q = [k \in 0..m |-> IF k = m THEN Grown(f[m - 1], free) ELSE f[k]]
    OBVIOUS
  <2>3. \A k \in 0..(m - 1) : q[k] = f[k]
    BY <2>2
  <2>4. ASSUME NEW k \in 0..m PROVE q[k] = Filling(p, free, q, k)
    <3>1. CASE k = m
      <4>1. k # 0 /\ m - 1 \in 0..(m - 1)
        BY <3>1
      <4> QED
        BY <2>2, <2>3, <3>1, <4>1 DEF Filling
    <3>2. CASE k # m
      <4>1. k \in 0..(m - 1) /\ (k # 0 => k - 1 \in 0..(m - 1))
        BY <3>2
      <4>2. f[k] = Filling(p, free, f, k)
        BY <2>1, <4>1
      <4> QED
        BY <2>3, <4>1, <4>2 DEF Filling
    <3> QED
      BY <3>1, <3>2
  <2>5. q = [k \in 0..m |-> Filling(p, free, q, k)]
    BY <2>2, <2>4
  <2> QED
    BY <2>5
<1> HIDE DEF Ok
<1>3. 0 \in S /\ \A k \in 1..n : k - 1 \in S => k \in S
  BY <1>1, <1>2
<1> HIDE DEF S
<1>4. n \in S
  BY <1>3, UpTo
<1> QED
  BY <1>4 DEF S, Ok

LEMMA GrownWhole ==
    ASSUME NEW p, NEW free, Whole(p), free \subseteq Nat \ {None}
    PROVE  LET q == Grown(p, free)
           IN  Whole(q) /\ Objects(p) \subseteq Objects(q) /\ Objects(q) \subseteq Objects(p) \cup free
<1> PICK left : left = free \ Objects(p)
  OBVIOUS
<1>1. CASE left = {}
  BY <1>1 DEF Grown, Objects
<1>2. CASE left # {}
  <2>1. Min(left) \in left
    <3>1. left \subseteq Nat
      OBVIOUS
    <3>2. \E x \in left : \A y \in left : x <= y
      BY <1>2, <3>1, Least
    <3> QED
      BY <3>2 DEF Min
  <2>2. Whole(FreeMem(p, Min(left))) /\ Objects(FreeMem(p, Min(left))) = Objects(p) \cup {Min(left)}
    BY <2>1, FreeMemWhole
  <2>3. Grown(p, free) = FreeMem(p, Min(left))
    BY <1>2 DEF Grown, Objects
  <2> QED
    BY <2>1, <2>2, <2>3
<1> QED
  BY <1>1, <1>2

\* smtp_init and alloc_mem, with malloc refusing at any of the objects.
LEMMA FilledWhole ==
    ASSUME NEW p, NEW free, NEW n \in Nat, Whole(p), free \subseteq Nat \ {None},
           NEW r \in Filled(p, n, free)
    PROVE  Whole(r) /\ Objects(p) \subseteq Objects(r) /\ Objects(r) \subseteq Objects(p) \cup free
<1>1. PICK q : /\ q = [k \in 0..n |-> Filling(p, free, q, k)]
               /\ Filled(p, n, free) = {q[k] : k \in 0..n}
  <2>1. \E q : q = [k \in 0..n |-> Filling(p, free, q, k)]
    BY FillingExists
  <2> QED
    BY <2>1 DEF Filled, Filling
<1> DEFINE Ok(x) == Whole(x) /\ Objects(p) \subseteq Objects(x) /\ Objects(x) \subseteq Objects(p) \cup free
           S == {k \in 0..n : Ok(q[k])}
<1>2. Ok(q[0])
  BY <1>1 DEF Filling
<1>3. ASSUME NEW k \in 1..n, Ok(q[k - 1]) PROVE Ok(q[k])
  <2>1. q[k] = Grown(q[k - 1], free)
    <3>1. k \in 0..n /\ k # 0
      OBVIOUS
    <3> QED
      BY <1>1, <3>1 DEF Filling
  <2>2. Ok(Grown(q[k - 1], free))
    BY <1>3, GrownWhole
  <2> QED
    BY <2>1, <2>2
<1> HIDE DEF Ok
<1>4. 0 \in S /\ \A k \in 1..n : k - 1 \in S => k \in S
  BY <1>2, <1>3
<1> HIDE DEF S
<1>5. \A k \in 0..n : k \in S
  BY <1>4, UpTo
<1>6. PICK k \in 0..n : r = q[k]
  BY <1>1
<1>7. Ok(r)
  BY <1>5, <1>6 DEF S
<1> QED
  BY <1>7 DEF Ok

\* What is given leaves the pool; nothing else does.
LEMMA AllocWhole ==
    ASSUME NEW p, NEW free, Whole(p), free \subseteq Nat \ {None}, NEW r \in AllocMem(p, free)
    PROVE  /\ Whole(r.pool) /\ r.got \notin Objects(r.pool)
           /\ Objects(p) \subseteq Objects(r.pool) \cup {r.got}
           /\ Objects(r.pool) \cup Set(r.got) \subseteq Objects(p) \cup free
<1>1. PICK q : /\ q \in IF p.num > 0 THEN {p} ELSE Filled(p, ReallocLen, free)
               /\ r = IF q.num > 0 THEN [pool |-> Taken(q), got |-> q.head]
                                   ELSE [pool |-> q, got |-> None]
  BY DEF AllocMem
<1>2. Whole(q) /\ Objects(p) \subseteq Objects(q) /\ Objects(q) \subseteq Objects(p) \cup free
  <2>1. CASE p.num > 0
    BY <1>1, <2>1
  <2>2. CASE ~(p.num > 0)
    BY <1>1, <2>2, FilledWhole, ReallocLenAssumption
  <2> QED
    BY <2>1, <2>2
<1>3. CASE q.num > 0
  <2>1. r.pool = Taken(q) /\ r.got = q.head
    BY <1>1, <1>3
  <2>2. Whole(Taken(q)) /\ Objects(Taken(q)) = Objects(q) \ {q.head} /\ q.head \in Objects(q)
    BY <1>2, <1>3, TakenWhole
  <2> QED
    BY <1>2, <2>1, <2>2 DEF Set
<1>4. CASE ~(q.num > 0)
  <2>1. r.pool = q /\ r.got = None
    BY <1>1, <1>4
  <2>2. None \notin Objects(q)
    BY <1>2, NoneOutside
  <2> QED
    BY <1>2, <2>1, <2>2 DEF Set
<1> QED
  BY <1>3, <1>4

-----------------------------------------------------------------------------
(***************************************************************************)
(* The pools together.                                                     *)
(***************************************************************************)
Stores(ps) == ps = [k \in Kinds |-> ps[k]] /\ \A k \in Kinds : Whole(ps[k])

LEMMA GiveStores ==
    ASSUME NEW ps, NEW k \in Kinds, NEW b \in Nat, Stores(ps), b \notin Objects(ps[k]) 
    PROVE  /\ Stores(Give(ps, k, b))
           /\ Objects(Give(ps, k, b)[k]) = Objects(ps[k]) \cup Set(b)
           /\ \A j \in Kinds \ {k} : Give(ps, k, b)[j] = ps[j]
<1>1. CASE b = None
  BY <1>1 DEF Give, Set
<1>2. CASE b # None
  <2>1. Give(ps, k, b) = [ps EXCEPT ![k] = FreeMem(ps[k], b)]
    BY <1>2 DEF Give
  <2>2. DOMAIN ps = Kinds
    BY DEF Stores
  <2>3. /\ Give(ps, k, b)[k] = FreeMem(ps[k], b)
        /\ \A j \in Kinds \ {k} : Give(ps, k, b)[j] = ps[j]
        /\ Give(ps, k, b) = [j \in Kinds |-> Give(ps, k, b)[j]]
    BY <2>1, <2>2
  <2>4. Whole(FreeMem(ps[k], b)) /\ Objects(FreeMem(ps[k], b)) = Objects(ps[k]) \cup {b}
    BY <1>2, FreeMemWhole DEF Stores
  <2>5. Set(b) = {b}
    BY <1>2 DEF Set
  <2>6. \A j \in Kinds : Whole(Give(ps, k, b)[j])
    BY <2>3, <2>4 DEF Stores
  <2> QED
    BY <2>3, <2>4, <2>5, <2>6 DEF Stores
<1> QED
  BY <1>1, <1>2

\* What an event takes with it into the pool of a kind.
Gift(e, k) == (IF k = "event" THEN Set(e.node) ELSE {}) \cup (IF k = e.kind THEN Set(e.text) ELSE {})
IsEvent(e) == e.node \in Nat /\ e.text \in Nat /\ e.kind \in {"string", "address"}

LEMMA GiveEventStores ==
    ASSUME NEW ps, NEW e, Stores(ps), IsEvent(e),
           \A k \in Kinds : Gift(e, k) \cap Objects(ps[k]) = {}
    PROVE  /\ Stores(GiveEvent(ps, e))
           /\ \A k \in Kinds : Objects(GiveEvent(ps, e)[k]) = Objects(ps[k]) \cup Gift(e, k)
<1> PICK q : q = Give(ps, e.kind, e.text)
  OBVIOUS
<1>1. e.kind \in Kinds /\ e.kind # "event" /\ "event" \in Kinds
  BY DEF IsEvent, Kinds
<1>2. e.text \notin Objects(ps[e.kind])
  <2>1. None \notin Objects(ps[e.kind])
    BY <1>1, NoneOutside DEF Stores
  <2>2. Set(e.text) \cap Objects(ps[e.kind]) = {}
    BY <1>1 DEF Gift
  <2> QED
    BY <2>1, <2>2 DEF Set
<1>3. /\ Stores(q) /\ Objects(q[e.kind]) = Objects(ps[e.kind]) \cup Set(e.text)
      /\ \A j \in Kinds \ {e.kind} : q[j] = ps[j]
  <2>1. e.text \in Nat
    BY DEF IsEvent
  <2> QED
    BY <1>1, <1>2, <2>1, GiveStores
<1>4. e.node \notin Objects(q["event"])
  <2>1. q["event"] = ps["event"]
    BY <1>1, <1>3
  <2>2. None \notin Objects(ps["event"])
    BY <1>1, NoneOutside DEF Stores
  <2>3. Set(e.node) \cap Objects(ps["event"]) = {}
    BY <1>1 DEF Gift
  <2> QED
    BY <2>1, <2>2, <2>3 DEF Set
<1>5. /\ Stores(Give(q, "event", e.node))
      /\ Objects(Give(q, "event", e.node)["event"]) = Objects(q["event"]) \cup Set(e.node)
      /\ \A j \in Kinds \ {"event"} : Give(q, "event", e.node)[j] = q[j]
  <2>1. e.node \in Nat
    BY DEF IsEvent
  <2> QED
    <3> PICK k : k = "event"
      OBVIOUS
    <3>1. k \in Kinds /\ e.node \notin Objects(q[k])
      BY <1>1, <1>4
    <3>2. /\ Stores(Give(q, k, e.node))
          /\ Objects(Give(q, k, e.node)[k]) = Objects(q[k]) \cup Set(e.node)
          /\ \A j \in Kinds \ {k} : Give(q, k, e.node)[j] = q[j]
      BY <1>3, <2>1, <3>1, GiveStores
    <3> QED
      BY <3>2
<1>6. GiveEvent(ps, e) = Give(q, "event", e.node)
  BY DEF GiveEvent
<1>7. ASSUME NEW k \in Kinds PROVE Objects(GiveEvent(ps, e)[k]) = Objects(ps[k]) \cup Gift(e, k)
  <2>1. CASE k = "event"
    BY <1>1, <1>3, <1>5, <1>6, <2>1 DEF Gift
  <2>2. CASE k = e.kind
    BY <1>1, <1>3, <1>5, <1>6, <2>2 DEF Gift
  <2>3. CASE k # "event" /\ k # e.kind
    BY <1>1, <1>3, <1>5, <1>6, <2>3 DEF Gift
  <2> QED
    BY <2>1, <2>2, <2>3
<1> QED
  BY <1>5, <1>6, <1>7

Giving(ps, es, given, i) == IF i = 0 THEN ps ELSE GiveEvent(given[i - 1], es[i])
LEMMA GivingExists ==
    ASSUME NEW ps, NEW es, NEW n \in Nat
    PROVE  \E given : given = [i \in 0..n |-> Giving(ps, es, given, i)]
<1> DEFINE Ok(m) == \E q : q = [i \in 0..m |-> Giving(ps, es, q, i)]
           S == {m \in 0..n : Ok(m)}
<1>1. Ok(0)
  <2>1. PICK q : q = [i \in 0..0 |-> ps]
    OBVIOUS
  <2>2. q = [i \in 0..0 |-> Giving(ps, es, q, i)]
    BY <2>1 DEF Giving
  <2> QED
    BY <2>2
<1>2. ASSUME NEW m \in 1..n, Ok(m - 1) PROVE Ok(m)
  <2>1. PICK f : f = [i \in 0..(m - 1) |-> Giving(ps, es, f, i)]
    BY <1>2
  <2>2. PICK q : q = [i \in 0..m |-> IF i = m THEN GiveEvent(f[m - 1], es[m]) ELSE f[i]]
    OBVIOUS
  <2>3. \A i \in 0..(m - 1) : q[i] = f[i]
    BY <2>2
  <2>4. ASSUME NEW i \in 0..m PROVE q[i] = Giving(ps, es, q, i)
    <3>1. CASE i = m
      <4>1. i # 0 /\ m - 1 \in 0..(m - 1)
        BY <3>1
      <4> QED
        BY <2>2, <2>3, <3>1, <4>1 DEF Giving
    <3>2. CASE i # m
      <4>1. i \in 0..(m - 1) /\ (i # 0 => i - 1 \in 0..(m - 1))
        BY <3>2
      <4>2. f[i] = Giving(ps, es, f, i)
        BY <2>1, <4>1
      <4> QED
        BY <2>3, <4>1, <4>2 DEF Giving
    <3> QED
      BY <3>1, <3>2
  <2>5. q = [i \in 0..m |-> Giving(ps, es, q, i)]
    BY <2>2, <2>4
  <2> QED
    BY <2>5
<1> HIDE DEF Ok
<1>3. 0 \in S /\ \A k \in 1..n : k - 1 \in S => k \in S
  BY <1>1, <1>2
<1> HIDE DEF S
<1>4. n \in S
  BY <1>3, UpTo
<1> QED
  BY <1>4 DEF S, Ok

Gifts(es, k, n) == UNION {Gift(es[i], k) : i \in 1..n}
LEMMA GiveEventsStores ==
    ASSUME NEW ps, NEW es, Len(es) \in Nat, Stores(ps),
           \A i \in 1..Len(es) : IsEvent(es[i]),
           \A k \in Kinds : \A i \in 1..Len(es) :
              /\ Gift(es[i], k) \cap Objects(ps[k]) = {}
              /\ \A j \in 1..Len(es) : i # j => Gift(es[i], k) \cap Gift(es[j], k) = {}
    PROVE  /\ Stores(GiveEvents(ps, es))
           /\ \A k \in Kinds : Objects(GiveEvents(ps, es)[k]) =
                                 Objects(ps[k]) \cup Gifts(es, k, Len(es))
<1> PICK n : n = Len(es)
  OBVIOUS
<1>1. PICK q : q = [i \in 0..n |-> Giving(ps, es, q, i)] /\ GiveEvents(ps, es) = q[n]
  <2>1. \E given : given = [i \in 0..n |-> Giving(ps, es, given, i)]
    BY GivingExists
  <2> QED
    BY <2>1 DEF GiveEvents, Giving
<1> DEFINE Ok(m) == /\ Stores(q[m])
                    /\ \A k \in Kinds : Objects(q[m][k]) =
                                          Objects(ps[k]) \cup Gifts(es, k, m)
           S == {m \in 0..n : Ok(m)}
<1>2. Ok(0)
  <2>1. q[0] = ps
    BY <1>1 DEF Giving
  <2>2. \A k \in Kinds : Gifts(es, k, 0) = {}
    BY DEF Gifts
  <2> QED
    BY <2>1, <2>2
<1>3. ASSUME NEW m \in 1..n, Ok(m - 1) PROVE Ok(m)
  <2>1. q[m] = GiveEvent(q[m - 1], es[m])
    <3>1. m \in 0..n /\ m # 0
      OBVIOUS
    <3> QED
      BY <1>1, <3>1 DEF Giving
  <2>2. ASSUME NEW k \in Kinds PROVE Gift(es[m], k) \cap Objects(q[m - 1][k]) = {}
    <3>1. \A i \in 1..(m - 1) : i \in 1..n /\ i # m
      OBVIOUS
    <3>2. \A i \in 1..(m - 1) : Gift(es[m], k) \cap Gift(es[i], k) = {}
      BY <3>1
    <3> SUFFICES ASSUME NEW b \in Gift(es[m], k), b \in Objects(q[m - 1][k]) PROVE FALSE
      OBVIOUS
    <3>3. b \in Objects(ps[k]) \/ \E i \in 1..(m - 1) : b \in Gift(es[i], k)
      BY <1>3 DEF Gifts
    <3>4. b \notin Objects(ps[k])
      OBVIOUS
    <3> QED
      BY <3>2, <3>3, <3>4
  <2>3. /\ Stores(q[m])
        /\ \A k \in Kinds : Objects(q[m][k]) = Objects(q[m - 1][k]) \cup Gift(es[m], k)
    BY <1>3, <2>1, <2>2, GiveEventStores
  <2>4. ASSUME NEW k \in Kinds
        PROVE  Gifts(es, k, m) =
                 Gifts(es, k, m - 1) \cup Gift(es[m], k)
    <3>1. \A i \in 1..m : i = m \/ i \in 1..(m - 1)
      OBVIOUS
    <3>2. m \in 1..m /\ \A i \in 1..(m - 1) : i \in 1..m
      OBVIOUS
    <3>3. ASSUME NEW b \in Gifts(es, k, m) PROVE b \in Gifts(es, k, m - 1) \cup Gift(es[m], k)
      <4>1. PICK i \in 1..m : b \in Gift(es[i], k)
        BY DEF Gifts
      <4>2. CASE i = m
        BY <4>1, <4>2
      <4>3. CASE i \in 1..(m - 1)
        BY <4>1, <4>3 DEF Gifts
      <4> QED
        BY <3>1, <4>2, <4>3
    <3>4. ASSUME NEW b \in Gift(es[m], k) PROVE b \in Gifts(es, k, m)
      BY <3>2 DEF Gifts
    <3>5. ASSUME NEW b \in Gifts(es, k, m - 1) PROVE b \in Gifts(es, k, m)
      <4>1. PICK i \in 1..(m - 1) : b \in Gift(es[i], k)
        BY DEF Gifts
      <4> QED
        BY <3>2, <4>1 DEF Gifts
    <3> QED
      BY <3>3, <3>4, <3>5
  <2>5. ASSUME NEW k \in Kinds
        PROVE  Objects(q[m][k]) = Objects(ps[k]) \cup Gifts(es, k, m)
    <3>1. Objects(q[m - 1][k]) = Objects(ps[k]) \cup Gifts(es, k, m - 1)
      BY <1>3
    <3>2. Objects(q[m][k]) = Objects(q[m - 1][k]) \cup Gift(es[m], k)
      BY <2>3
    <3> QED
      BY <2>4, <3>1, <3>2
  <2> QED
    BY <2>3, <2>5
<1> HIDE DEF Ok
<1>4. 0 \in S /\ \A k \in 1..n : k - 1 \in S => k \in S
  BY <1>2, <1>3
<1> HIDE DEF S
<1>5. n \in S
  <2>1. n \in Nat /\ n \in 0..n
    OBVIOUS
  <2> QED
    BY <1>4, <2>1, UpTo
<1>6. Ok(n)
  BY <1>5 DEF S
<1> QED
  BY <1>1, <1>6 DEF Ok

\* A set as a sequence.
LEMMA SetSequence ==
    ASSUME NEW S, IsFiniteSet(S)
    PROVE  /\ SetToSeq(S) \in Seq(S) /\ Len(SetToSeq(S)) \in Nat
           /\ \A i, j \in 1..Len(SetToSeq(S)) : SetToSeq(S)[i] = SetToSeq(S)[j] => i = j
           /\ \A i \in 1..Len(SetToSeq(S)) : SetToSeq(S)[i] \in S
           /\ \A x \in S : \E i \in 1..Len(SetToSeq(S)) : SetToSeq(S)[i] = x
<1> PICK n : n = Cardinality(S)
  OBVIOUS
<1>1. n \in Nat /\ ExistsBijection(1..n, S)
  BY FS_CardinalityType
<1>2. \E f \in [1..n -> S] : IsInjective(f)
  BY <1>1, Zenon DEF ExistsBijection, Bijection, Injection, IsInjective
<1> PICK f : f = SetToSeq(S)
  OBVIOUS
<1>3. f \in [1..n -> S] /\ IsInjective(f)
  BY <1>2 DEF SetToSeq
<1>4. f \in Injection(1..n, S)
  BY <1>3, Zenon DEF Injection, IsInjective
<1>5. IsFiniteSet(1..n) /\ Cardinality(1..n) = n
  BY <1>1, FS_Interval
<1>6. f \in Surjection(1..n, S)
  BY <1>4, <1>5, FS_Injection
<1>7. f \in Seq(S) /\ Len(f) = n
  BY <1>1, <1>3
<1> QED
  BY <1>1, <1>3, <1>6, <1>7 DEF Surjection, IsInjective

-----------------------------------------------------------------------------
(***************************************************************************)
(* Lists: s has the cells in order, between two NULLs.                     *)
(***************************************************************************)
Linked(l, s, d) ==
    /\ l.number \in Nat /\ s \in [0..(l.number + 1) -> Nat] /\ s[0] = NULL /\ s[l.number + 1] = NULL
    /\ \A i \in 1..l.number : s[i] # NULL
    /\ \A i, j \in 1..l.number : s[i] = s[j] => i = j
    /\ DOMAIN l.cells = {s[i] : i \in 1..l.number}
    /\ \A i \in 1..l.number : l.cells[s[i]] = [data |-> d[i], previous |-> s[i - 1], next |-> s[i + 1]]
    /\ l.first = s[1] /\ l.last = s[l.number]
    /\ d \in Seq(Nat) /\ Len(d) = l.number
IsList(l) ==
    l = [at |-> l.at, cells |-> l.cells, first |-> l.first, last |-> l.last, number |-> l.number]
Holds(l, d) == IsList(l) /\ \E s : Linked(l, s, d)

\* The contents met from the cell i on, when t has the cells in the other order.
Met(q, i) == [j \in 1..i |-> q[i + 1 - j]]

LEMMA MetFirst == ASSUME NEW q PROVE Met(q, 0) = <<>>
<1>1. 1..0 = {}
  OBVIOUS
<1>2. Met(q, 0) \in [1..0 -> Nat]
  BY <1>1 DEF Met
<1>3. Met(q, 0) \in Seq(Nat) /\ Len(Met(q, 0)) = 0
  BY <1>2
<1> QED
  BY <1>3, EmptySeq

LEMMA MetNext ==
    ASSUME NEW n \in Nat, NEW q \in [1..n -> Nat], NEW i \in 1..n
    PROVE  Met(q, i) = <<q[i]>> \o Met(q, i - 1)
<1>1. \A m \in 0..n : Met(q, m) \in Seq(Nat) /\ Len(Met(q, m)) = m
  <2> TAKE m \in 0..n
  <2>1. \A j \in 1..m : m + 1 - j \in 1..n
    OBVIOUS
  <2>2. Met(q, m) \in [1..m -> Nat]
    BY <2>1 DEF Met
  <2> QED
    BY <2>2
<1>2. i \in 0..n /\ i - 1 \in 0..n /\ q[i] \in Nat
  OBVIOUS
<1> PICK a : a = <<q[i]>>
  OBVIOUS
<1> PICK b : b = Met(q, i - 1)
  OBVIOUS
<1>3. a \in Seq(Nat) /\ Len(a) = 1 /\ a[1] = q[i]
  BY <1>2
<1>4. b \in Seq(Nat) /\ Len(b) = i - 1
  BY <1>1, <1>2
<1>5. /\ a \o b \in Seq(Nat) /\ Len(a \o b) = Len(a) + Len(b)
      /\ \A j \in 1..(Len(a) + Len(b)) : (a \o b)[j] = IF j <= Len(a) THEN a[j] ELSE b[j - Len(a)]
  BY <1>3, <1>4, ConcatProperties
<1>6. Len(a \o b) = i
  BY <1>3, <1>4, <1>5
<1>7. ASSUME NEW j \in 1..i PROVE (a \o b)[j] = Met(q, i)[j]
  <2>1. (a \o b)[j] = IF j <= 1 THEN a[j] ELSE b[j - 1]
    BY <1>3, <1>4, <1>5
  <2>2. Met(q, i)[j] = q[i + 1 - j]
    BY DEF Met
  <2>3. CASE j = 1
    BY <1>3, <2>1, <2>2, <2>3
  <2>4. CASE j # 1
    <3>1. j - 1 \in 1..(i - 1) /\ ~(j <= 1) /\ i - 1 + 1 - (j - 1) = i + 1 - j
      BY <2>4
    <3>2. b[j - 1] = q[i - 1 + 1 - (j - 1)]
      BY <3>1 DEF Met
    <3> QED
      BY <2>1, <2>2, <3>1, <3>2
  <2> QED
    BY <2>3, <2>4
<1>8. a \o b = Met(q, i)
  BY <1>1, <1>2, <1>5, <1>6, <1>7, SeqEqual
<1> QED
  BY <1>8

Following(l, link, f, x) == IF x = NULL THEN <<>> ELSE <<l.cells[x].data>> \o f[l.cells[x][link]]
Leads(l, link, n, t, q) ==
    /\ n \in Nat /\ t \in [0..n -> Nat] /\ q \in [1..n -> Nat] /\ t[0] = NULL
    /\ \A i, j \in 0..n : t[i] = t[j] => i = j
    /\ DOMAIN l.cells = {t[i] : i \in 1..n}
    /\ \A i \in 1..n : l.cells[t[i]][link] = t[i - 1] /\ l.cells[t[i]].data = q[i]
LEMMA Followed ==
    ASSUME NEW l, NEW link, NEW n, NEW t, NEW q, Leads(l, link, n, t, q)
    PROVE  From(l, t[n], link) = Met(q, n)
<1>0. /\ n \in Nat /\ t \in [0..n -> Nat] /\ q \in [1..n -> Nat] /\ t[0] = NULL
      /\ \A i, j \in 0..n : t[i] = t[j] => i = j
      /\ DOMAIN l.cells = {t[i] : i \in 1..n}
      /\ \A i \in 1..n : l.cells[t[i]][link] = t[i - 1] /\ l.cells[t[i]].data = q[i]
  BY DEF Leads
<1> USE <1>0
<1>7. \A i \in 1..n : Met(q, i) = <<q[i]>> \o Met(q, i - 1)
  BY MetNext
<1> PICK D : D = DOMAIN l.cells \cup {NULL}
  OBVIOUS
<1>1. \A i \in 0..n : t[i] \in D /\ (i # 0 => t[i] # NULL)
  <2> TAKE i \in 0..n
  <2>1. CASE i = 0
    BY <2>1
  <2>2. CASE i # 0
    <3>1. i \in 1..n /\ 0 \in 0..n
      BY <2>2
    <3> QED
      BY <2>2, <3>1
  <2> QED
    BY <2>1, <2>2
<1>2. \A x \in D : \E i \in 0..n : t[i] = x
  <2> TAKE x \in D
  <2>1. CASE x = NULL
    <3>1. 0 \in 0..n
      OBVIOUS
    <3> QED
      BY <2>1, <3>1
  <2>2. CASE x # NULL
    <3>1. PICK i \in 1..n : x = t[i]
      BY <2>2
    <3>2. i \in 0..n
      OBVIOUS
    <3> QED
      BY <3>1, <3>2
  <2> QED
    BY <2>1, <2>2
<1>3. \E f : f = [x \in D |-> Following(l, link, f, x)]
  <2>0. PICK g : g = [x \in D |-> Met(q, CHOOSE i \in 0..n : t[i] = x)]
    OBVIOUS
  <2>1. \A i \in 0..n : g[t[i]] = Met(q, i)
    <3> TAKE i \in 0..n
    <3>1. (CHOOSE j \in 0..n : t[j] = t[i]) = i
      OBVIOUS
    <3> QED
      BY <1>1, <2>0, <3>1
  <2>2. ASSUME NEW x \in D PROVE g[x] = Following(l, link, g, x)
    <3>1. PICK i \in 0..n : t[i] = x
      BY <1>2
    <3>2. CASE i = 0
      <4>1. g[x] = Met(q, 0)
        BY <2>1, <3>1, <3>2
      <4> QED
        BY <3>1, <3>2, <4>1, MetFirst DEF Following
    <3>3. CASE i # 0
      <4>1. i \in 1..n /\ i - 1 \in 0..n
        BY <3>3
      <4>2. g[x] = <<q[i]>> \o Met(q, i - 1)
        <5>1. g[x] = Met(q, i)
          BY <2>1, <3>1
        <5>2. Met(q, i) = <<q[i]>> \o Met(q, i - 1)
          BY <1>7, <4>1
        <5> QED
          BY <5>1, <5>2
      <4>3. g[t[i - 1]] = Met(q, i - 1)
        BY <2>1, <4>1
      <4>4. x # NULL /\ l.cells[x].data = q[i] /\ l.cells[x][link] = t[i - 1]
        BY <1>1, <3>1, <3>3, <4>1
      <4> QED
        BY <4>2, <4>3, <4>4 DEF Following
    <3> QED
      BY <3>2, <3>3
  <2>3. g = [x \in D |-> Following(l, link, g, x)]
    <3>1. g = [x \in D |-> g[x]]
      BY <2>0
    <3>2. [x \in D |-> g[x]] = [x \in D |-> Following(l, link, g, x)]
      BY <2>2
    <3> QED
      BY <3>1, <3>2
  <2> QED
    BY <2>3
<1>4. PICK f : f = [x \in D |-> Following(l, link, f, x)] /\ From(l, t[n], link) = f[t[n]]
  BY <1>3 DEF From, Following
<1>5. \A i \in 0..n : f[t[i]] = Met(q, i)
  <2> PICK S : S = {i \in 0..n : f[t[i]] = Met(q, i)}
    OBVIOUS
  <2>1. 0 \in S
    <3>1. 0 \in 0..n /\ f[t[0]] = <<>>
      <4>1. t[0] \in D /\ 0 \in 0..n
        BY <1>1
      <4> QED
        BY <1>4, <4>1 DEF Following
    <3> QED
      BY <3>1, MetFirst
  <2>2. ASSUME NEW i \in 1..n, i - 1 \in S PROVE i \in S
    <3>1. i \in 0..n /\ i # 0 /\ t[i] \in D /\ t[i] # NULL
      <4>1. i \in 0..n /\ i # 0
        OBVIOUS
      <4> QED
        BY <1>1, <4>1
    <3>2. f[t[i]] = <<l.cells[t[i]].data>> \o f[l.cells[t[i]][link]]
      BY <1>4, <3>1 DEF Following
    <3>3. f[t[i]] = <<q[i]>> \o f[t[i - 1]]
      BY <3>2
    <3>4. f[t[i - 1]] = Met(q, i - 1)
      BY <2>2
    <3>5. Met(q, i) = <<q[i]>> \o Met(q, i - 1)
      BY <1>7
    <3> QED
      BY <3>1, <3>3, <3>4, <3>5
  <2> QED
    BY <2>1, <2>2, UpTo
<1>6. n \in 0..n
  OBVIOUS
<1> QED
  BY <1>4, <1>5, <1>6

\* Both directions of a list.
LEMMA HoldsInOrder ==
    ASSUME NEW l, NEW d, Holds(l, d)
    PROVE  Foreach(l) = d /\ Backwards(l) = Reverse(d) /\ l.number = Len(d)
<1> PICK s : Linked(l, s, d)
  BY DEF Holds
<1> PICK n : n = l.number
  OBVIOUS
<1>1. /\ n \in Nat /\ s \in [0..(n + 1) -> Nat] /\ s[0] = NULL /\ s[n + 1] = NULL
      /\ \A i \in 1..n : s[i] # NULL
      /\ \A i, j \in 1..n : s[i] = s[j] => i = j
      /\ DOMAIN l.cells = {s[i] : i \in 1..n}
      /\ \A i \in 1..n : l.cells[s[i]] = [data |-> d[i], previous |-> s[i - 1], next |-> s[i + 1]]
      /\ l.first = s[1] /\ l.last = s[n] /\ d \in Seq(Nat) /\ Len(d) = n
  BY DEF Linked
<1>2. n \in Nat
  BY <1>1
<1>3. d \in [1..n -> Nat]
  BY <1>1, LenProperties
<1>4. From(l, l.last, "previous") = Met(d, n)
  <2> PICK t : t = [i \in 0..n |-> s[i]]
    OBVIOUS
  <2>1. \A i \in 0..n : t[i] = s[i] /\ i \in 0..(n + 1)
    BY <1>2
  <2>2. t \in [0..n -> Nat] /\ t[0] = NULL
    BY <1>1, <2>1
  <2>3. \A i \in 1..n : i \in 0..n /\ t[i] = s[i] /\ t[i - 1] = s[i - 1]
    BY <1>2, <2>1
  <2>4. \A i, j \in 0..n : t[i] = t[j] => i = j
    <3>1. \A i \in 0..n : i = 0 \/ i \in 1..n
      BY <1>2
    <3> QED
      BY <1>1, <2>2, <2>3, <3>1
  <2>5. DOMAIN l.cells = {t[i] : i \in 1..n}
    BY <1>1, <2>3
  <2>6. ASSUME NEW i \in 1..n
        PROVE  l.cells[t[i]]["previous"] = t[i - 1] /\ l.cells[t[i]].data = d[i]
    <3>1. l.cells[s[i]] = [data |-> d[i], previous |-> s[i - 1], next |-> s[i + 1]]
      BY <1>1
    <3>2. t[i] = s[i] /\ t[i - 1] = s[i - 1]
      BY <2>3
    <3> QED
      BY <3>1, <3>2
  <2>7. l.last = t[n]
    BY <1>1, <2>1
  <2> QED
    <3>1. Leads(l, "previous", n, t, d)
      BY <1>2, <1>3, <2>2, <2>4, <2>5, <2>6 DEF Leads
    <3>3. From(l, t[n], "previous") = Met(d, n)
      BY <3>1, Followed
    <3> QED
      BY <2>7, <3>3
<1>5. PICK q : q = [i \in 1..n |-> d[n + 1 - i]]
  OBVIOUS
<1>6. q \in [1..n -> Nat]
  BY <1>2, <1>3, <1>5
<1>7. From(l, l.first, "next") = Met(q, n)
  <2>1. PICK t : t = [i \in 0..n |-> s[n + 1 - i]]
    OBVIOUS
  <2>2. \A i \in 0..n : t[i] = s[n + 1 - i] /\ n + 1 - i \in 1..(n + 1) /\ n + 1 - i \in 0..(n + 1)
    BY <1>2, <2>1
  <2>3. t \in [0..n -> Nat] /\ t[0] = NULL
    <3>1. t \in [0..n -> Nat]
      BY <1>1, <2>1, <2>2
    <3>2. 0 \in 0..n /\ n + 1 - 0 = n + 1
      BY <1>2
    <3> QED
      BY <1>1, <2>2, <3>1, <3>2
  <2>4. \A i \in 1..n : i \in 0..n /\ i - 1 \in 0..n /\ n + 1 - i \in 1..n
    BY <1>2
  <2>5. \A i, j \in 0..n : t[i] = t[j] => i = j
    <3> TAKE i, j \in 0..n
    <3> HAVE t[i] = t[j]
    <3>1. i = 0 \/ i \in 1..n
      BY <1>2
    <3>2. j = 0 \/ j \in 1..n
      BY <1>2
    <3>3. CASE i \in 1..n /\ j \in 1..n
      <4>1. n + 1 - i = n + 1 - j
        <5> PICK a, b : a = n + 1 - i /\ b = n + 1 - j
          OBVIOUS
        <5>1. a \in 1..n /\ b \in 1..n
          BY <2>4, <3>3
        <5>2. s[a] = s[b]
          BY <2>2
        <5> QED
          BY <1>1, <5>1, <5>2
      <4> QED
        BY <1>2, <4>1
    <3>4. CASE i = 0 /\ j \in 1..n
      BY <1>1, <2>2, <2>3, <2>4, <3>4
    <3>5. CASE i \in 1..n /\ j = 0
      BY <1>1, <2>2, <2>3, <2>4, <3>5
    <3> QED
      BY <3>1, <3>2, <3>3, <3>4, <3>5
  <2>6. DOMAIN l.cells = {t[i] : i \in 1..n}
    <3>1. \A i \in 1..n : t[i] = s[n + 1 - i] /\ n + 1 - i \in 1..n
      BY <2>2, <2>4
    <3>2. \A i \in 1..n : s[i] = t[n + 1 - i]
      <4> TAKE i \in 1..n
      <4>1. n + 1 - i \in 0..n /\ n + 1 - (n + 1 - i) = i
        BY <1>2, <2>4
      <4> QED
        BY <2>2, <4>1
    <3>3. ASSUME NEW x \in DOMAIN l.cells PROVE \E i \in 1..n : t[i] = x
      <4>1. PICK i \in 1..n : x = s[i]
        BY <1>1
      <4> QED
        BY <2>4, <3>2, <4>1
    <3>4. ASSUME NEW i \in 1..n PROVE t[i] \in DOMAIN l.cells
      <4> PICK a : a = n + 1 - i
        OBVIOUS
      <4>1. a \in 1..n /\ t[i] = s[a]
        BY <3>1
      <4> QED
        BY <1>1, <4>1
    <3> QED
      BY <3>3, <3>4
  <2>7. \A i \in 1..n : l.cells[t[i]]["next"] = t[i - 1] /\ l.cells[t[i]].data = q[i]
    <3> TAKE i \in 1..n
    <3>1. n + 1 - i \in 1..n /\ n + 1 - i + 1 = n + 1 - (i - 1) /\ i \in 0..n /\ i - 1 \in 0..n
      BY <1>2, <2>4
    <3>2. l.cells[s[n + 1 - i]] =
            [data |-> d[n + 1 - i], previous |-> s[n + 1 - i - 1], next |-> s[n + 1 - i + 1]]
      <4> PICK a : a = n + 1 - i
        OBVIOUS
      <4>1. a \in 1..n
        BY <3>1
      <4>2. l.cells[s[a]] = [data |-> d[a], previous |-> s[a - 1], next |-> s[a + 1]]
        BY <1>1, <4>1
      <4> QED
        BY <1>2, <4>1, <4>2
    <3>3. t[i] = s[n + 1 - i] /\ t[i - 1] = s[n + 1 - (i - 1)] /\ q[i] = d[n + 1 - i]
      BY <1>5, <2>2, <3>1
    <3> QED
      BY <3>1, <3>2, <3>3
  <2>8. l.first = t[n]
    <3>1. n \in 0..n /\ n + 1 - n = 1
      BY <1>2
    <3> QED
      BY <1>1, <2>2, <3>1
  <2> QED
    <3>1. Leads(l, "next", n, t, q)
      BY <1>2, <1>6, <2>3, <2>5, <2>6, <2>7 DEF Leads
    <3>3. From(l, t[n], "next") = Met(q, n)
      BY <3>1, Followed
    <3> QED
      BY <2>8, <3>3
<1>8. Met(q, n) = d
  <2>1. \A j \in 1..n : Met(q, n)[j] = d[j]
    <3> TAKE j \in 1..n
    <3>1. n + 1 - j \in 1..n /\ n + 1 - (n + 1 - j) = j
      BY <1>2
    <3> QED
      BY <1>5, <3>1 DEF Met
  <2>2. \A j \in 1..n : n + 1 - j \in 1..n
    BY <1>2
  <2>3. Met(q, n) \in [1..n -> Nat]
    BY <1>6, <2>2 DEF Met
  <2>4. Met(q, n) \in Seq(Nat) /\ Len(Met(q, n)) = n
    BY <1>2, <2>3
  <2>5. d \in Seq(Nat) /\ Len(d) = n
    BY <1>1
  <2> QED
    BY <2>1, <2>4, <2>5, SeqEqual
<1>9. Met(d, n) = Reverse(d)
  <2>1. \A j \in 1..n : n + 1 - j = (n - j) + 1
    BY <1>2
  <2> QED
    BY <1>1, <2>1 DEF Met, Reverse
<1> QED
  BY <1>1, <1>4, <1>7, <1>8, <1>9 DEF Foreach, Backwards

LEMMA HoldsNew ==
    ASSUME NEW b
    PROVE  Holds(ClistNew(b), <<>>) /\ DOMAIN ClistNew(b).cells = {} /\ ClistNew(b).at = b
<1> PICK s : s = [i \in 0..1 |-> NULL]
  OBVIOUS
<1> PICK l : l = ClistNew(b)
  OBVIOUS
<1>1. l = [at |-> b, cells |-> <<>>, first |-> NULL, last |-> NULL, number |-> 0]
  BY DEF ClistNew
<1>2. DOMAIN l.cells = {}
  BY <1>1
<1>3. Linked(l, s, <<>>)
  BY <1>1, <1>2 DEF Linked, NULL
<1> QED
  BY <1>1, <1>2, <1>3 DEF Holds, IsList

\* clist_append
LEMMA HoldsAppend ==
    ASSUME NEW l, NEW d, Holds(l, d), NEW c \in Nat, c # NULL, c \notin DOMAIN l.cells, NEW v \in Nat
    PROVE  /\ Holds(ClistAppend(l, c, v), Append(d, v))
           /\ DOMAIN ClistAppend(l, c, v).cells = DOMAIN l.cells \cup {c}
           /\ ClistAppend(l, c, v).at = l.at
<1> PICK s : Linked(l, s, d)
  BY DEF Holds
<1> PICK n : n = l.number
  OBVIOUS
<1>1. /\ n \in Nat /\ s \in [0..(n + 1) -> Nat] /\ s[0] = NULL /\ s[n + 1] = NULL
      /\ \A i \in 1..n : s[i] # NULL
      /\ \A i, j \in 1..n : s[i] = s[j] => i = j
      /\ DOMAIN l.cells = {s[i] : i \in 1..n}
      /\ \A i \in 1..n : l.cells[s[i]] = [data |-> d[i], previous |-> s[i - 1], next |-> s[i + 1]]
      /\ l.first = s[1] /\ l.last = s[n] /\ d \in Seq(Nat) /\ Len(d) = n
  BY DEF Linked
<1>2. n \in Nat /\ n + 1 \in Nat /\ (n = 0 \/ n \in 1..n)
  BY <1>1
<1>3. IsEmpty(l) <=> n = 0
  BY <1>1, <1>2 DEF IsEmpty
<1>4. n # 0 => s[n] \in DOMAIN l.cells /\ s[n] # NULL /\ l.cells[s[n]].next = NULL
  <2> SUFFICES ASSUME n \in 1..n
               PROVE  s[n] \in DOMAIN l.cells /\ s[n] # NULL /\ l.cells[s[n]].next = NULL
    BY <1>2
  <2>1. l.cells[s[n]] = [data |-> d[n], previous |-> s[n - 1], next |-> s[n + 1]]
    BY <1>1
  <2> QED
    BY <1>1, <2>1
<1> PICK m : m = ClistAppend(l, c, v)
  OBVIOUS
<1>5. PICK i : i = s[n]
  OBVIOUS
<1>6. /\ m = [at |-> l.at, cells |-> m.cells, first |-> IF n = 0 THEN c ELSE l.first,
              last |-> c, number |-> n + 1]
      /\ m.cells = [x \in DOMAIN l.cells \cup {c} |->
                     CASE x = c -> [data |-> v, previous |-> i, next |-> NULL]
                       [] x # c /\ x = i -> [l.cells[x] EXCEPT !.next = c]
                       [] x # c /\ x # i /\ x = NULL -> [l.cells[x] EXCEPT !.previous = c]
                       [] OTHER -> l.cells[x]]
  <2>1. (IF l.last = NULL THEN l.last ELSE l.last) = i
    BY <1>1, <1>5
  <2>2. (IF i = NULL THEN NULL ELSE l.cells[i].next) = NULL
    BY <1>1, <1>4, <1>5
  <2>3. IsList(l)
    BY DEF Holds
  <2> QED
    BY <1>3, <2>1, <2>2, <2>3 DEF ClistAppend, InsertAfter, IsList
<1>7. DOMAIN m.cells = DOMAIN l.cells \cup {c} /\ m.cells[c] = [data |-> v, previous |-> s[n], next |-> NULL]
  BY <1>5, <1>6
<1>8. PICK t : t = [j \in 0..(n + 2) |-> IF j <= n THEN s[j] ELSE IF j = n + 1 THEN c ELSE NULL]
  OBVIOUS
<1>9. t[n + 1] = c /\ t[n + 2] = NULL /\ \A j \in 0..n : t[j] = s[j]
  <2>1. n + 1 \in 0..(n + 2) /\ ~(n + 1 <= n) /\ n + 2 \in 0..(n + 2) /\ ~(n + 2 <= n) /\ n + 2 # n + 1
    BY <1>2
  <2>2. \A j \in 0..n : j \in 0..(n + 2) /\ j <= n
    BY <1>2
  <2> QED
    BY <1>8, <2>1, <2>2
<1>10. t \in [0..(n + 2) -> Nat]
  <2>1. \A j \in 0..(n + 2) : j <= n => j \in 0..(n + 1)
    BY <1>2
  <2> QED
    BY <1>1, <1>8, <2>1 DEF NULL
<1>11. \A j \in 1..(n + 1) : j = n + 1 \/ (j \in 1..n /\ j # n + 1 /\ j \in 0..n)
  BY <1>2
<1>12. \A j \in 1..n : t[j] = s[j] /\ s[j] \in DOMAIN l.cells /\ s[j] # c /\ j \in 1..(n + 1)
  <2> TAKE j \in 1..n
  <2>1. j \in 0..n /\ j \in 1..(n + 1)
    BY <1>2
  <2> QED
    BY <1>1, <1>9, <2>1
<1>13. ASSUME NEW j \in 1..(n + 1) PROVE t[j] # NULL
  <2>1. CASE j = n + 1
    BY <1>9, <2>1
  <2>2. CASE j \in 1..n
    BY <1>1, <1>12, <2>2
  <2> QED
    BY <1>11, <2>1, <2>2
<1>14. ASSUME NEW j \in 1..(n + 1), NEW k \in 1..(n + 1), t[j] = t[k] PROVE j = k
  <2>1. CASE j = n + 1 /\ k = n + 1
    BY <2>1
  <2>2. CASE j \in 1..n /\ k \in 1..n
    BY <1>1, <1>12, <1>14, <2>2
  <2>3. CASE j = n + 1 /\ k \in 1..n
    BY <1>9, <1>12, <1>14, <2>3
  <2>4. CASE j \in 1..n /\ k = n + 1
    BY <1>9, <1>12, <1>14, <2>4
  <2> QED
    BY <1>11, <2>1, <2>2, <2>3, <2>4
<1>15. DOMAIN m.cells = {t[j] : j \in 1..(n + 1)}
  <2>1. n + 1 \in 1..(n + 1)
    BY <1>2
  <2>2. ASSUME NEW x \in DOMAIN m.cells PROVE \E j \in 1..(n + 1) : t[j] = x
    <3>1. CASE x = c
      BY <1>9, <2>1, <3>1
    <3>2. CASE x # c
      <4>1. PICK j \in 1..n : x = s[j]
        BY <1>1, <1>7, <3>2
      <4> QED
        BY <1>12, <4>1
    <3> QED
      BY <3>1, <3>2
  <2>3. ASSUME NEW j \in 1..(n + 1) PROVE t[j] \in DOMAIN m.cells
    BY <1>7, <1>9, <1>11, <1>12
  <2> QED
    BY <2>2, <2>3
<1>16. Append(d, v) \in Seq(Nat) /\ Len(Append(d, v)) = n + 1 /\ Append(d, v)[n + 1] = v
       /\ \A j \in 1..n : Append(d, v)[j] = d[j]
  BY <1>1, AppendProperties
<1>17. ASSUME NEW j \in 1..(n + 1)
       PROVE  m.cells[t[j]] = [data |-> Append(d, v)[j], previous |-> t[j - 1], next |-> t[j + 1]]
  <2>1. CASE j = n + 1
    <3>1. j - 1 = n /\ n \in 0..n /\ j + 1 = n + 2
      BY <1>2, <2>1
    <3>2. t[j] = c /\ t[j - 1] = s[n] /\ t[j + 1] = NULL /\ Append(d, v)[j] = v
      BY <1>9, <1>16, <2>1, <3>1
    <3> QED
      BY <1>7, <3>2
  <2>2. CASE j # n + 1 /\ j = n
    <3>1. j \in 1..n /\ j - 1 \in 0..n /\ j + 1 = n + 1 /\ n \in 1..n
      BY <1>2, <2>2
    <3>2. t[j] = s[n] /\ t[j - 1] = s[n - 1] /\ t[j + 1] = c /\ Append(d, v)[j] = d[n]
      BY <1>9, <1>12, <1>16, <2>2, <3>1
    <3>3. s[n] \in DOMAIN l.cells /\ s[n] # c
      BY <1>12, <3>1
    <3>4. l.cells[s[n]] = [data |-> d[n], previous |-> s[n - 1], next |-> s[n + 1]]
      BY <1>1, <3>1
    <3>5. m.cells[s[n]] = [l.cells[s[n]] EXCEPT !.next = c]
      BY <1>5, <1>6, <3>3
    <3> QED
      BY <3>2, <3>4, <3>5
  <2>3. CASE j # n + 1 /\ j # n
    <3>1. j \in 1..n /\ j - 1 \in 0..n /\ j + 1 \in 0..n /\ n \in 1..n
      BY <1>2, <2>3
    <3>2. t[j] = s[j] /\ t[j - 1] = s[j - 1] /\ t[j + 1] = s[j + 1] /\ Append(d, v)[j] = d[j]
      BY <1>9, <1>12, <1>16, <3>1
    <3>3. s[j] \in DOMAIN l.cells /\ s[j] # c /\ s[j] # s[n] /\ s[j] # NULL
      BY <1>1, <1>12, <2>3, <3>1
    <3>4. l.cells[s[j]] = [data |-> d[j], previous |-> s[j - 1], next |-> s[j + 1]]
      BY <1>1, <3>1
    <3>5. m.cells[s[j]] = l.cells[s[j]]
      BY <1>5, <1>6, <3>3
    <3> QED
      BY <3>2, <3>4, <3>5
  <2> QED
    BY <2>1, <2>2, <2>3
<1>18. m.first = t[1] /\ m.last = t[n + 1] /\ m.number = n + 1 /\ m.at = l.at /\ IsList(m)
  <2>1. t[1] = IF n = 0 THEN c ELSE s[1]
    <3>1. n # 0 => 1 \in 1..n
      BY <1>2
    <3> QED
      BY <1>9, <1>12, <3>1
  <2> QED
    BY <1>1, <1>6, <1>9, <2>1 DEF IsList
<1>19. t[0] = NULL
  BY <1>1, <1>2, <1>9
<1>20. Linked(m, t, Append(d, v))
  <2>1. n + 1 + 1 = n + 2
    BY <1>2
  <2> QED
    BY <1>2, <1>9, <1>10, <1>13, <1>14, <1>15, <1>16, <1>17, <1>18, <1>19, <2>1 DEF Linked
<1> QED
  BY <1>7, <1>18, <1>20 DEF Holds

-----------------------------------------------------------------------------
(***************************************************************************)
(* The invariant: what every part of the state has of the memory.          *)
(***************************************************************************)
Mem(k) == Blocks[k] \cap heap
Place(k) == Mem(k) \cup {None}
Events == held \cup {event}
TextKind == IF cmd \in Paths THEN "address" ELSE "string"

\* Nothing in a pool is in use.
PoolsInv ==
    /\ Stores(pools)
    /\ \A k \in Kinds : Pooled(k) \subseteq Mem(k) /\ Pooled(k) \cap InUse = {}

\* Every text and every node of an event has one owner.
TextsInv ==
    /\ helo_name \in Place("string") /\ text \in Place(TextKind)
    /\ \A e \in Events : /\ e.node \in Place("event") /\ e.kind \in {"string", "address"}
                         /\ e.text \in Place(e.kind)
    /\ helo_name # None => helo_name # text /\ \A e \in Events : e.text # helo_name
    /\ text # None => \A e \in Events : e.text # text
    /\ \A e, f \in Events : e # f => e.node # f.node /\ (e.text # None => e.text # f.text)

\* An event libnel holds has a node and is not the one that is made.
HeldInv ==
    /\ IsFiniteSet(held) /\ Cardinality(held) <= MaxHeld
    /\ event \notin held /\ \A e \in held : e.node # None

\* No two held events share a name, nor one of them and the command.
NamesInv ==
    /\ name \in Place("atom") /\ \A e \in Events : e.name \in Place("atom")
    /\ \A e \in held : e.name # None =>
          e.name # name /\ \A f \in Events : e # f => e.name # f.name

\* Nothing is in two places of a list.
ListInv ==
    /\ Holds(list, parsed)
    /\ {list.at, value, mb_list} \subseteq Place("list")
    /\ DOMAIN list.cells \subseteq Mem("list") /\ ToSet(parsed) \subseteq Mem("list")
    /\ IsInjective(parsed)
    /\ DOMAIN list.cells \cap ToSet(parsed) = {}
    /\ {list.at, value, mb_list} \cap (DOMAIN list.cells \cup ToSet(parsed)) = {}
    /\ list.at # None => list.at # value /\ list.at # mb_list
    /\ value # None => value # mb_list

\* What the locals of a command are, from one allocation to the next.
NoPath == list = NoList /\ value = None /\ mb_list = None /\ parsed = <<>>
Bare == name = None /\ text = None /\ event = NoEvent
InPath == cmd \in Paths /\ Bare /\ list.at # None
Shape ==
    /\ at \in Points /\ cmd \in Commands \cup {"none"}
    /\ at = "idle" => cmd = "none" /\ Bare /\ NoPath
    /\ at = "name" => cmd \in Greetings /\ name # None /\ text = None /\ event = NoEvent /\ NoPath
    /\ at = "event" =>
         /\ cmd \in Greetings \cup Logins \cup Paths /\ event = NoEvent /\ NoPath
         /\ IF cmd \in Greetings THEN text = None ELSE name = None
    /\ at = "analysis" =>
         /\ cmd \in Greetings \cup Logins \cup Paths /\ event.node # None /\ NoPath
         /\ text = None /\ name = (IF cmd = "HELO" THEN event.name ELSE None)
         /\ IF cmd \in Greetings THEN event.text = None ELSE event.name = None
    /\ at = "free" =>
         /\ cmd \in Greetings \cup Logins \cup Paths /\ NoPath
         /\ IF cmd \in Greetings THEN text = None /\ event.text = None
                                 ELSE name = None /\ event.name = None
    /\ at = "list" => cmd \in Paths /\ Bare /\ list = NoList /\ parsed = <<>> /\ mb_list = None /\ value # None
    /\ at = "append" => InPath /\ value # None /\ mb_list = None
    /\ at \in {"more", "unlist", "wrap"} => InPath /\ value = None /\ mb_list = None
    /\ at = "address" => InPath /\ value = None /\ mb_list # None
    /\ at = "parameters" => cmd \in Paths /\ name = None /\ event = NoEvent /\ NoPath
    /\ FreedOnce

HeapInv == heap \subseteq UNION Range(Blocks)
StorageInv == HeapInv /\ PoolsInv /\ TextsInv /\ HeldInv /\ NamesInv /\ ListInv /\ Shape

-----------------------------------------------------------------------------
(***************************************************************************)
(* The memory.                                                             *)
(***************************************************************************)
BlockKinds == {"string", "address", "event", "atom", "list"}

LEMMA BlockFacts ==
    /\ DOMAIN Blocks = BlockKinds
    /\ \A k \in BlockKinds : Blocks[k] \subseteq Nat \ {None} /\ IsFiniteSet(Blocks[k])
    /\ \A j, k \in BlockKinds : j # k => Blocks[j] \cap Blocks[k] = {}
    /\ Kinds \subseteq BlockKinds /\ {"string", "address", "event", "atom", "list"} \subseteq BlockKinds
    /\ "atom" \notin Kinds /\ "list" \notin Kinds
BY BlocksAssumption DEF BlockKinds, Kinds

LEMMA Grows ==
    ASSUME NEW j \in BlockKinds, NEW X, X \subseteq Blocks[j], heap' = heap \cup X
    PROVE  /\ Mem(j)' = Mem(j) \cup X
           /\ \A k \in BlockKinds \ {j} : Mem(k)' = Mem(k)
           /\ HeapInv => HeapInv'
<1>1. Mem(j)' = Mem(j) \cup X
  BY DEF Mem
<1>2. ASSUME NEW k \in BlockKinds \ {j} PROVE Mem(k)' = Mem(k)
  <2>1. Blocks[j] \cap Blocks[k] = {}
    BY BlockFacts
  <2> QED
    BY <2>1 DEF Mem
<1>3. X \subseteq UNION Range(Blocks)
  <2>1. Blocks[j] \in Range(Blocks)
    BY BlockFacts DEF Range
  <2> QED
    BY <2>1
<1> QED
  BY <1>1, <1>2, <1>3 DEF HeapInv

LEMMA Shrinks ==
    ASSUME NEW j \in BlockKinds, NEW X, X \subseteq Blocks[j], heap' = heap \ X
    PROVE  /\ Mem(j)' = Mem(j) \ X
           /\ \A k \in BlockKinds \ {j} : Mem(k)' = Mem(k)
           /\ HeapInv => HeapInv'
<1>1. Mem(j)' = Mem(j) \ X
  BY DEF Mem
<1>2. ASSUME NEW k \in BlockKinds \ {j} PROVE Mem(k)' = Mem(k)
  <2>1. Blocks[j] \cap Blocks[k] = {}
    BY BlockFacts
  <2> QED
    BY <2>1 DEF Mem
<1> QED
  BY <1>1, <1>2 DEF HeapInv

LEMMA Stays ==
    ASSUME heap' = heap
    PROVE  (\A k \in BlockKinds : Mem(k)' = Mem(k)) /\ (HeapInv => HeapInv')
BY DEF Mem, HeapInv

LEMMA MallocFree ==
    ASSUME NEW k \in BlockKinds, NEW b \in Malloc(k), b # None
    PROVE  b \in Blocks[k] /\ b \notin heap /\ b \in Nat
<1> PICK free : free = Blocks[k] \ heap
  OBVIOUS
<1>1. free \subseteq Nat
  BY BlockFacts
<1>2. free # {} /\ b = Min(free)
  BY DEF Malloc
<1>3. \E x \in free : \A y \in free : x <= y
  BY <1>1, <1>2, Least
<1>4. Min(free) \in free
  BY <1>3 DEF Min
<1> QED
  BY <1>1, <1>2, <1>4

LEMMA InUseInHeap == ASSUME TextsInv PROVE InUse \subseteq heap \cup {None}
BY DEF TextsInv, InUse, Place, Mem, Events

\* What an allocation from a pool does to it and to the memory.
LEMMA AllocStores ==
    ASSUME PoolsInv, TextsInv, NEW k \in Kinds, NEW r \in Alloc(k)
    PROVE  /\ Whole(r.pool) /\ r.got \notin Objects(r.pool) /\ r.got \in Nat
           /\ Objects(r.pool) \cup Set(r.got) \subseteq Blocks[k]
           /\ Pooled(k) \subseteq Objects(r.pool) \cup Set(r.got)
           /\ Objects(r.pool) \cup Set(r.got) \subseteq Pooled(k) \cup (Blocks[k] \ heap)
           /\ Objects(r.pool) \cap InUse = {}
           /\ r.got # None => r.got \notin InUse
<1> PICK free : free = Blocks[k] \ heap
  OBVIOUS
<1>1. k \in BlockKinds /\ Blocks[k] \subseteq Nat \ {None}
  BY BlockFacts
<1>2. Whole(pools[k]) /\ Pooled(k) \subseteq Mem(k) /\ Pooled(k) \cap InUse = {}
  BY DEF PoolsInv, Stores
<1>3. r \in AllocMem(pools[k], free)
  BY DEF Alloc
<1>4. /\ Whole(r.pool) /\ r.got \notin Objects(r.pool)
      /\ Objects(pools[k]) \subseteq Objects(r.pool) \cup {r.got}
      /\ Objects(r.pool) \cup Set(r.got) \subseteq Objects(pools[k]) \cup free
  BY <1>1, <1>2, <1>3, AllocWhole
<1>9. InUse \subseteq heap \cup {None}
  BY InUseInHeap
<1>5. Objects(pools[k]) = Pooled(k) /\ None \notin Pooled(k)
  BY <1>2, NoneOutside DEF Objects, Pooled
<1>6. Set(r.got) \subseteq Blocks[k] /\ Objects(r.pool) \subseteq Blocks[k]
  BY <1>2, <1>4, <1>5 DEF Mem
<1>7. r.got \in Nat
  BY <1>1, <1>6 DEF Set, None
<1>8. Pooled(k) \subseteq Objects(r.pool) \cup Set(r.got)
  BY <1>4, <1>5 DEF Set
<1> QED
  <2>1. free \cap InUse = {}
    BY <1>1, <1>9
  <2>2. Objects(r.pool) \cap InUse = {} /\ Set(r.got) \cap InUse = {}
    BY <1>2, <1>4, <1>5, <2>1
  <2>3. r.got # None => r.got \notin InUse
    BY <2>2 DEF Set
  <2> QED
    BY <1>4, <1>5, <1>6, <1>7, <1>8, <2>2, <2>3

-----------------------------------------------------------------------------
(***************************************************************************)
(* What keeps each part of the invariant.                                  *)
(***************************************************************************)
LEMMA PoolsKept ==
    ASSUME PoolsInv, pools' = pools, \A k \in Kinds : Mem(k) \subseteq Mem(k)',
           \A k \in Kinds : Pooled(k) \cap InUse' = {}
    PROVE  PoolsInv'
BY DEF PoolsInv, Pooled

LEMMA TextsKept ==
    ASSUME TextsInv, UNCHANGED <<helo_name, held, text, event>>, TextKind' = TextKind \/ text = None,
           \A k \in Kinds : Mem(k) \subseteq Mem(k)'
    PROVE  TextsInv'
<1>1. \A k \in Kinds : Place(k) \subseteq Place(k)'
  BY DEF Place
<1>2. /\ Events' = Events /\ helo_name' = helo_name /\ text' = text
      /\ {"string", "address", "event"} = Kinds
  BY DEF Events, Kinds
<1>3. TextKind' \in Kinds /\ TextKind \in Kinds /\ None \in Place(TextKind)'
  BY DEF TextKind, Kinds, Place
<1>4. helo_name' \in Place("string")' /\ text' \in Place(TextKind)'
  BY <1>1, <1>2, <1>3 DEF TextsInv
<1>5. \A e \in Events' : /\ e.node \in Place("event")' /\ e.kind \in {"string", "address"}
                         /\ e.text \in Place(e.kind)'
  BY <1>1, <1>2 DEF TextsInv
<1> QED
  BY <1>2, <1>4, <1>5 DEF TextsInv

LEMMA HeldKept == ASSUME HeldInv, UNCHANGED <<held, event>> PROVE HeldInv'
BY DEF HeldInv

LEMMA NamesKept ==
    ASSUME NamesInv, UNCHANGED <<name, held, event>>, Mem("atom") \subseteq Mem("atom")'
    PROVE  NamesInv'
BY DEF NamesInv, Place, Events

LEMMA ListKept ==
    ASSUME ListInv, UNCHANGED path, Mem("list") \subseteq Mem("list")'
    PROVE  ListInv'
BY DEF ListInv, Place, path

\* The locals of a path that is not parsed, or is freed.
LEMMA NoListInv == ASSUME NoPath PROVE ListInv
<1>1. Holds(list, parsed) /\ DOMAIN list.cells = {} /\ list.at = None
  BY HoldsNew DEF NoPath, NoList
<1>2. ToSet(parsed) = {} /\ IsInjective(parsed)
  BY DEF NoPath, ToSet, IsInjective
<1> QED
  BY <1>1, <1>2 DEF NoPath, ListInv, Place

LEMMA NoListNext == ASSUME NoPath' PROVE ListInv'
<1>1. Holds(list', parsed') /\ DOMAIN list'.cells = {} /\ list'.at = None
  BY HoldsNew DEF NoPath, NoList
<1>2. ToSet(parsed') = {} /\ IsInjective(parsed')
  BY DEF NoPath, ToSet, IsInjective
<1> QED
  BY <1>1, <1>2 DEF NoPath, ListInv, Place

LEMMA NoEventFacts == NoEvent.node = None /\ NoEvent.name = None /\ NoEvent.text = None /\ NoEvent.kind = "string"
BY DEF NoEvent

\* A command that returns.
LEMMA Returned ==
    ASSUME StorageInv, Return, held' = held, helo_name' \in {helo_name, None},
           \A k \in Kinds : Mem(k) \subseteq Mem(k)',
           \A e \in held : e.name \in Place("atom")'
    PROVE  TextsInv' /\ HeldInv' /\ NamesInv' /\ ListInv' /\ Shape'
<1>1. /\ at' = "idle" /\ cmd' = "none" /\ name' = None /\ text' = None /\ event' = NoEvent
      /\ list' = NoList /\ value' = None /\ mb_list' = None /\ parsed' = <<>>
  BY DEF Return
<1>2. \A k \in Kinds : Place(k) \subseteq Place(k)'
  BY DEF Place
<1>3. \A e \in held : e.node # None
  BY DEF StorageInv, HeldInv
<1>4. HeldInv'
  <2>1. NoEvent \notin held
    BY <1>3, NoEventFacts
  <2> QED
    BY <1>1, <2>1 DEF HeldInv, StorageInv
<1>5. TextsInv'
  <2>1. \A e \in held : /\ e.node \in Place("event")' /\ e.kind \in {"string", "address"}
                        /\ e.text \in Place(e.kind)'
    BY <1>2 DEF StorageInv, TextsInv, Events, Kinds
  <2>2. helo_name' \in Place("string")' /\ text' \in Place(TextKind)'
    BY <1>1, <1>2 DEF StorageInv, TextsInv, Place, Kinds
  <2>3. Events' = held \cup {NoEvent}
    BY <1>1 DEF Events
  <2>4. \A e \in Events' : /\ e.node \in Place("event")' /\ e.kind \in {"string", "address"}
                           /\ e.text \in Place(e.kind)'
    BY <2>1, <2>3, NoEventFacts DEF Place
  <2>5. helo_name' # None => helo_name' # text' /\ \A e \in Events' : e.text # helo_name'
    BY <1>1, <2>3, NoEventFacts DEF StorageInv, TextsInv, Events
  <2>6. \A e, f \in Events' : e # f => e.node # f.node /\ (e.text # None => e.text # f.text)
    BY <1>3, <2>3, NoEventFacts DEF StorageInv, TextsInv, Events
  <2> QED
    BY <1>1, <2>2, <2>4, <2>5, <2>6 DEF TextsInv
<1>6. NamesInv'
  <2>1. Events' = held \cup {NoEvent}
    BY <1>1 DEF Events
  <2>2. \A e \in Events' : e.name \in Place("atom")'
    BY <2>1, NoEventFacts DEF Place
  <2>3. \A e \in held : e.name # None => \A f \in Events' : e # f => e.name # f.name
    BY <2>1, NoEventFacts DEF StorageInv, NamesInv, Events
  <2> QED
    BY <1>1, <2>2, <2>3 DEF NamesInv, Place
<1>7. NoPath'
  BY <1>1 DEF NoPath, NoList, ClistNew
<1>8. ListInv'
  BY <1>7, NoListNext
<1>9. Shape'
  <2>1. Bare'
    BY <1>1 DEF Bare, NoEvent
  <2>2. cmd' \in (Commands \cup {"none"}) /\ at' \in Points
    BY <1>1 DEF Points
  <2> QED
    BY <1>1, <1>7, <2>1, <2>2 DEF Shape, FreedOnce
<1> QED
  BY <1>4, <1>5, <1>6, <1>8, <1>9

\* An allocation from the pool of k, with the blocks X of a list freed.
LEMMA AllocatedKeeps ==
    ASSUME PoolsInv, TextsInv, HeapInv, NEW k \in Kinds, NEW r \in Alloc(k),
           NEW X, X \subseteq Blocks["list"],
           pools' = [pools EXCEPT ![k] = r.pool],
           heap' = (heap \cup DOMAIN r.pool.next \cup Set(r.got)) \ X
    PROVE  /\ HeapInv'
           /\ \A j \in BlockKinds \ {"list"} : Mem(j) \subseteq Mem(j)'
           /\ Mem("list")' = Mem("list") \ X
           /\ Mem("atom")' = Mem("atom")
           /\ Stores(pools')
           /\ \A j \in Kinds : Pooled(j)' \subseteq Mem(j)' /\ Pooled(j)' \cap InUse = {}
           /\ \A j \in Kinds : r.got \notin Pooled(j)'
           /\ r.got \in Place(k)'
           /\ r.got # None => r.got \notin InUse
           /\ Pooled(k) \subseteq Pooled(k)' \cup Set(r.got)
           /\ \A j \in Kinds \ {k} : Pooled(j)' = Pooled(j)
<1> PICK G : G = Objects(r.pool) \cup Set(r.got)
  OBVIOUS
<1>1. /\ Whole(r.pool) /\ r.got \notin Objects(r.pool) /\ r.got \in Nat
      /\ G \subseteq Blocks[k]
      /\ Pooled(k) \subseteq G
      /\ G \subseteq Pooled(k) \cup (Blocks[k] \ heap)
      /\ Objects(r.pool) \cap InUse = {}
      /\ r.got # None => r.got \notin InUse
  BY AllocStores
<1>2. heap' = (heap \cup G) \ X
  BY DEF Objects
<1>3. k \in BlockKinds /\ k # "list" /\ k # "atom" /\ "list" \in BlockKinds /\ "atom" \in BlockKinds
  BY BlockFacts
<1>4. \A j \in BlockKinds \ {k} : Blocks[j] \cap G = {}
  BY <1>1, <1>3, BlockFacts
<1>5. \A j \in BlockKinds \ {"list"} : Blocks[j] \cap X = {}
  BY <1>3, BlockFacts
<1>6. /\ \A j \in BlockKinds \ {"list"} : Mem(j) \subseteq Mem(j)'
      /\ Mem("list")' = Mem("list") \ X /\ Mem("atom")' = Mem("atom")
  <2>1. ASSUME NEW j \in BlockKinds \ {"list"} PROVE Mem(j) \subseteq Mem(j)'
    BY <1>2, <1>5 DEF Mem
  <2>2. Mem("list")' = Mem("list") \ X
    BY <1>2, <1>3, <1>4 DEF Mem
  <2>3. Mem("atom")' = Mem("atom")
    BY <1>2, <1>3, <1>4, <1>5 DEF Mem
  <2> QED
    BY <2>1, <2>2, <2>3
<1>7. G \subseteq Mem(k)'
  BY <1>1, <1>2, <1>3, <1>5 DEF Mem
<1>8. HeapInv'
  <2>1. Blocks[k] \in Range(Blocks)
    BY <1>3, BlockFacts DEF Range
  <2> QED
    BY <1>1, <1>2, <2>1 DEF HeapInv
<1>9. /\ Stores(pools) /\ DOMAIN pools = Kinds
      /\ \A j \in Kinds : Pooled(j) \subseteq Mem(j) /\ Pooled(j) \cap InUse = {}
  BY DEF PoolsInv, Stores
<1>10. /\ pools'[k] = r.pool /\ \A j \in Kinds \ {k} : pools'[j] = pools[j]
       /\ pools' = [j \in Kinds |-> pools'[j]]
  BY <1>9
<1>11. Stores(pools')
  BY <1>1, <1>9, <1>10 DEF Stores
<1>12. Pooled(k)' = Objects(r.pool) /\ \A j \in Kinds \ {k} : Pooled(j)' = Pooled(j)
  BY <1>10 DEF Pooled, Objects
<1>13. ASSUME NEW j \in Kinds
       PROVE  Pooled(j)' \subseteq Mem(j)' /\ Pooled(j)' \cap InUse = {} /\ r.got \notin Pooled(j)'
  <2>1. CASE j = k
    BY <1>1, <1>7, <1>12, <2>1
  <2>2. CASE j # k
    <3>1. j \in BlockKinds \ {"list"} /\ j # k
      BY <2>2, BlockFacts
    <3>2. Pooled(j)' = Pooled(j) /\ Pooled(j) \subseteq Mem(j)
      BY <1>9, <1>12, <2>2
    <3>3. None \notin Pooled(j)
      BY <1>9, NoneOutside DEF Stores, Pooled, Objects
    <3>4. r.got = None \/ r.got \in G
      BY DEF Set
    <3>5. r.got \notin Pooled(j)
      BY <1>4, <3>1, <3>2, <3>3, <3>4 DEF Mem
    <3> QED
      BY <1>6, <1>9, <3>1, <3>2, <3>5
  <2> QED
    BY <2>1, <2>2
<1>14. r.got \in Place(k)'
  BY <1>7 DEF Place, Set
<1> QED
  BY <1>1, <1>6, <1>8, <1>11, <1>12, <1>13, <1>14 DEF Objects

\* The pools of the next state.
LEMMA PoolsNext ==
    ASSUME Stores(pools'),
           \A j \in Kinds : Pooled(j)' \subseteq Mem(j)' /\ Pooled(j)' \cap InUse = {},
           NEW b, \A j \in Kinds : b \notin Pooled(j)', InUse' \subseteq InUse \cup {b, None}
    PROVE  PoolsInv'
<1>1. \A j \in Kinds : None \notin Pooled(j)'
  BY NoneOutside DEF Stores, Pooled, Objects
<1> QED
  BY <1>1 DEF PoolsInv

\* An allocation whose object is the only block that comes into use.
LEMMA AllocatedGrows ==
    ASSUME StorageInv, NEW k \in Kinds, NEW r \in Alloc(k), Allocated(k, r),
           InUse' \subseteq InUse \cup {r.got, None}
    PROVE  /\ HeapInv' /\ PoolsInv'
           /\ \A j \in Kinds : Mem(j) \subseteq Mem(j)'
           /\ Mem("atom") \subseteq Mem("atom")' /\ Mem("list") \subseteq Mem("list")'
           /\ r.got \in Place(k)'
           /\ r.got # None => r.got \notin InUse
<1>1. PICK X : X = {}
  OBVIOUS
<1>2. /\ pools' = [pools EXCEPT ![k] = r.pool] /\ X \subseteq Blocks["list"]
      /\ heap' = (heap \cup DOMAIN r.pool.next \cup Set(r.got)) \ X
  BY <1>1 DEF Allocated
<1>3. PoolsInv /\ TextsInv /\ HeapInv
  BY DEF StorageInv
<1>4. /\ HeapInv'
      /\ \A j \in BlockKinds \ {"list"} : Mem(j) \subseteq Mem(j)'
      /\ Mem("list")' = Mem("list") \ X
      /\ Mem("atom")' = Mem("atom")
      /\ Stores(pools')
      /\ \A j \in Kinds : Pooled(j)' \subseteq Mem(j)' /\ Pooled(j)' \cap InUse = {}
      /\ \A j \in Kinds : r.got \notin Pooled(j)'
      /\ r.got \in Place(k)'
      /\ r.got # None => r.got \notin InUse
  BY <1>2, <1>3, AllocatedKeeps
<1>5. PoolsInv'
  BY <1>4, PoolsNext
<1>6. \A j \in Kinds : j \in BlockKinds \ {"list"}
  BY BlockFacts
<1> QED
  BY <1>1, <1>4, <1>5, <1>6

\* No block comes into use and none is freed.
LEMMA HeapStays ==
    ASSUME StorageInv, UNCHANGED <<heap, pools>>, InUse' \subseteq InUse \cup {None}
    PROVE  /\ HeapInv' /\ PoolsInv'
           /\ \A j \in Kinds : Mem(j) \subseteq Mem(j)'
           /\ Mem("atom") \subseteq Mem("atom")' /\ Mem("list") \subseteq Mem("list")'
<1>1. HeapInv' /\ \A k \in BlockKinds : Mem(k)' = Mem(k)
  BY Stays DEF StorageInv
<1>2. \A k \in Kinds : Mem(k) \subseteq Mem(k)'
  BY <1>1, BlockFacts
<1>3. \A k \in Kinds : None \notin Pooled(k)
  BY NoneOutside DEF StorageInv, PoolsInv, Stores, Pooled, Objects
<1>4. \A k \in Kinds : Pooled(k) \cap InUse' = {}
  BY <1>3 DEF StorageInv, PoolsInv
<1>5. PoolsInv'
  BY <1>2, <1>4, PoolsKept DEF StorageInv
<1> QED
  BY <1>1, <1>2, <1>5, BlockFacts

\* Undefined behaviour.
LEMMA Undone ==
    ASSUME StorageInv, Undefined, UNCHANGED session,
           \/ cmd = "HELO" /\ event.name # None
           \/ cmd = "USER" /\ text = None
           \/ cmd \in Paths /\ mb_list # None
    PROVE  StorageInv'
<1>1. /\ UNCHANGED <<heap, pools, helo_name, held, cmd, name, text, event, list, value, mb_list, parsed>>
      /\ at' = "undefined"
  BY DEF Undefined, session, path
<1>2. HeapInv' /\ \A k \in BlockKinds : Mem(k)' = Mem(k)
  BY <1>1, Stays DEF StorageInv
<1>3. \A k \in Kinds : Mem(k) \subseteq Mem(k)'
  BY <1>2, BlockFacts
<1>4. PoolsInv'
  <2>1. \A k \in Kinds : Pooled(k) \cap InUse' = {}
    BY <1>1 DEF StorageInv, PoolsInv, InUse
  <2> QED
    BY <1>1, <1>3, <2>1, PoolsKept DEF StorageInv
<1>5. TextsInv'
  BY <1>1, <1>3, TextsKept DEF StorageInv, TextKind
<1>6. HeldInv' /\ NamesInv' /\ ListInv'
  BY <1>1, <1>2, HeldKept, NamesKept, ListKept, BlockFacts DEF StorageInv, path
<1>7. Shape'
  BY <1>1 DEF StorageInv, Shape, FreedOnce, Points
<1> QED
  BY <1>2, <1>4, <1>5, <1>6, <1>7 DEF StorageInv

-----------------------------------------------------------------------------
(***************************************************************************)
(* The actions.                                                            *)
(***************************************************************************)
LEMMA HostNameKeeps == ASSUME StorageInv, NEW c \in Commands, HostName(c) PROVE StorageInv'
<1>1. PICK b \in Malloc("atom") \ {None} : heap' = heap \cup {b} /\ name' = b
  BY DEF HostName
<1>2. /\ at = "idle" /\ c \in Greetings /\ cmd' = c /\ at' \in {"name", "free"}
      /\ UNCHANGED <<pools, helo_name, held, text, event, list, value, mb_list, parsed>>
  BY DEF HostName, session, path
<1>3. "atom" \in BlockKinds /\ "list" \in BlockKinds /\ "atom" \notin Kinds /\ Kinds \subseteq BlockKinds
  BY BlockFacts
<1>4. b \in Blocks["atom"] /\ b \notin heap /\ b # None
  BY <1>1, <1>3, MallocFree
<1>5. /\ Mem("atom")' = Mem("atom") \cup {b} /\ HeapInv'
      /\ \A k \in BlockKinds \ {"atom"} : Mem(k)' = Mem(k)
  BY <1>1, <1>3, <1>4, Grows DEF StorageInv
<1>6. \A k \in Kinds : Mem(k) \subseteq Mem(k)'
  BY <1>3, <1>5
<1>7. cmd = "none" /\ Bare /\ NoPath
  BY <1>2 DEF StorageInv, Shape
<1>8. PoolsInv'
  <2>1. \A k \in Kinds : Pooled(k) \cap InUse' = {}
    BY <1>2 DEF StorageInv, PoolsInv, InUse
  <2> QED
    BY <1>2, <1>6, <2>1, PoolsKept DEF StorageInv
<1>9. TextsInv'
  BY <1>2, <1>6, <1>7, TextsKept DEF StorageInv, Bare
<1>10. HeldInv' /\ ListInv'
  BY <1>2, <1>3, <1>5, HeldKept, ListKept DEF StorageInv, path
<1>11. NamesInv'
  <2>1. \A e \in Events : e.name \in Place("atom") /\ e.name # b
    BY <1>4 DEF StorageInv, NamesInv, Place, Mem
  <2>2. Events' = Events
    BY <1>2 DEF Events
  <2>3. \A e \in held : e \in Events
    BY DEF Events
  <2>4. \A e \in held : e.name # None => \A f \in Events : e # f => e.name # f.name
    BY DEF StorageInv, NamesInv
  <2> QED
    BY <1>1, <1>2, <1>5, <2>1, <2>2, <2>3, <2>4 DEF NamesInv, Place
<1>12. Shape'
  <2>1. NoPath' /\ text' = None /\ event' = NoEvent /\ name' # None
    BY <1>1, <1>2, <1>4, <1>7 DEF NoPath, Bare, NoList, ClistNew, NoEvent
  <2>2. cmd' \in Greetings /\ event'.text = None /\ at' \in Points
    BY <1>2, <2>1, NoEventFacts DEF Points
  <2>3. cmd' \in Commands \cup {"none"}
    BY <1>2
  <2> QED
    BY <1>2, <2>1, <2>2, <2>3 DEF Shape, FreedOnce
<1> QED
  BY <1>5, <1>8, <1>9, <1>10, <1>11, <1>12 DEF StorageInv

\* A new name of the session, or a new text of the command.
LEMMA NewTexts ==
    ASSUME TextsInv, UNCHANGED <<held, event>>,
           \A k \in Kinds : Mem(k) \subseteq Mem(k)',
           helo_name' \in Place("string")', text' \in Place(TextKind)',
           \/ helo_name' = helo_name /\ (text' # None => text' \notin InUse)
           \/ text' = None /\ (helo_name' # None => helo_name' \notin InUse)
    PROVE  TextsInv'
<1>1. \A k \in Kinds : Place(k) \subseteq Place(k)'
  BY DEF Place
<1>2. Events' = Events /\ {"string", "address", "event"} = Kinds
  BY DEF Events, Kinds
<1>3. /\ \A e \in Events : /\ e.node \in Place("event") /\ e.kind \in {"string", "address"}
                           /\ e.text \in Place(e.kind)
      /\ helo_name # None => \A e \in Events : e.text # helo_name
      /\ \A e, f \in Events : e # f => e.node # f.node /\ (e.text # None => e.text # f.text)
  BY DEF TextsInv
<1>4. \A e \in Events : /\ e.node \in Place("event")' /\ e.kind \in {"string", "address"}
                        /\ e.text \in Place(e.kind)'
  BY <1>1, <1>2, <1>3
<1>5. helo_name \in InUse /\ \A e \in Events : e.text \in InUse
  BY DEF InUse, Events
<1>6. CASE helo_name' = helo_name /\ (text' # None => text' \notin InUse)
  <2>1. helo_name' # None => helo_name' # text' /\ \A e \in Events' : e.text # helo_name'
    BY <1>2, <1>3, <1>5, <1>6
  <2>2. text' # None => \A e \in Events' : e.text # text'
    BY <1>2, <1>5, <1>6
  <2> QED
    BY <1>2, <1>3, <1>4, <2>1, <2>2 DEF TextsInv
<1>7. CASE text' = None /\ (helo_name' # None => helo_name' \notin InUse)
  <2>1. helo_name' # None => helo_name' # text' /\ \A e \in Events' : e.text # helo_name'
    BY <1>2, <1>5, <1>7
  <2> QED
    BY <1>2, <1>3, <1>4, <1>7, <2>1 DEF TextsInv
<1> QED
  BY <1>6, <1>7

LEMMA HeloNameKeeps == ASSUME StorageInv, HeloName PROVE StorageInv'
<1>1. /\ at = "name" /\ at' \in {"free", "event"}
      /\ UNCHANGED <<held, cmd, name, text, event, list, value, mb_list, parsed>>
  BY DEF HeloName, path
<1>2. cmd \in Greetings /\ name # None /\ text = None /\ event = NoEvent /\ NoPath
  BY <1>1 DEF StorageInv, Shape
<1>3. "string" \in Kinds
  BY DEF Kinds
<1>4. /\ HeapInv' /\ PoolsInv' /\ \A k \in Kinds : Mem(k) \subseteq Mem(k)'
      /\ Mem("atom") \subseteq Mem("atom")' /\ Mem("list") \subseteq Mem("list")'
      /\ helo_name' \in Place("string")' /\ (helo_name' # None => helo_name' \notin InUse)
  <2>1. ASSUME NEW r \in Alloc("string"), Allocated("string", r), helo_name' = r.got
        PROVE  <1>4
    <3>1. PICK k \in Kinds : k = "string"
      BY <1>3
    <3>2. InUse' \subseteq InUse \cup {r.got, None}
      BY <1>1, <2>1 DEF InUse
    <3> QED
      BY <2>1, <3>1, <3>2, AllocatedGrows
  <2>2. ASSUME helo_name' = None, UNCHANGED <<heap, pools>>
        PROVE  <1>4
    <3>1. InUse' \subseteq InUse \cup {None}
      BY <1>1, <2>2 DEF InUse
    <3> QED
      BY <2>2, <3>1, HeapStays DEF Place
  <2> QED
    BY <2>1, <2>2 DEF HeloName
<1>5. TextsInv'
  <2>1. text' = None /\ text' \in Place(TextKind)'
    BY <1>1, <1>2 DEF Place
  <2> QED
    BY <1>1, <1>4, <2>1, NewTexts DEF StorageInv
<1>6. HeldInv' /\ NamesInv' /\ ListInv'
  BY <1>1, <1>4, HeldKept, NamesKept, ListKept DEF StorageInv, path
<1>7. Shape'
  <2>1. NoPath' /\ event'.text = None /\ cmd' \in Greetings /\ text' = None /\ event' = NoEvent
    BY <1>1, <1>2, NoEventFacts DEF NoPath, NoList, ClistNew, NoEvent
  <2>2. cmd' \in Commands \cup {"none"} /\ at' \in Points
    BY <1>1 DEF StorageInv, Shape, Points
  <2> QED
    BY <1>1, <2>1, <2>2 DEF Shape, FreedOnce
<1> QED
  BY <1>4, <1>5, <1>6, <1>7 DEF StorageInv

LEMMA LoginKeeps == ASSUME StorageInv, NEW c \in Commands, Login(c) PROVE StorageInv'
<1>1. /\ at = "idle" /\ at' = "event" /\ c \in Logins /\ cmd' = c
      /\ UNCHANGED <<helo_name, held, name, event, list, value, mb_list, parsed>>
  BY DEF Login, session, path
<1>2. name = None /\ text = None /\ event = NoEvent /\ NoPath
  BY <1>1 DEF StorageInv, Shape, Bare
<1>3. "string" \in Kinds
  BY DEF Kinds
<1>4. /\ HeapInv' /\ PoolsInv' /\ \A k \in Kinds : Mem(k) \subseteq Mem(k)'
      /\ Mem("atom") \subseteq Mem("atom")' /\ Mem("list") \subseteq Mem("list")'
      /\ text' \in Place("string")' /\ (text' # None => text' \notin InUse)
  <2>1. ASSUME NEW r \in Alloc("string"), Allocated("string", r), text' = r.got
        PROVE  <1>4
    <3>1. PICK k \in Kinds : k = "string"
      BY <1>3
    <3>2. InUse' \subseteq InUse \cup {r.got, None}
      BY <1>1, <2>1 DEF InUse
    <3> QED
      BY <2>1, <3>1, <3>2, AllocatedGrows
  <2>2. ASSUME text' = None, UNCHANGED <<heap, pools>>
        PROVE  <1>4
    <3>1. InUse' \subseteq InUse \cup {None}
      BY <1>1, <2>2 DEF InUse
    <3> QED
      BY <2>2, <3>1, HeapStays DEF Place
  <2> QED
    BY <2>1, <2>2 DEF Login
<1>5. TextsInv'
  <2>1. text' \in Place(TextKind)' /\ helo_name' \in Place("string")'
    BY <1>1, <1>3, <1>4 DEF TextKind, Logins, Paths, Place, StorageInv, TextsInv
  <2> QED
    BY <1>1, <1>4, <2>1, NewTexts DEF StorageInv
<1>6. HeldInv' /\ NamesInv' /\ ListInv'
  BY <1>1, <1>4, HeldKept, NamesKept, ListKept DEF StorageInv, path
<1>7. Shape'
  <2>1. NoPath' /\ name' = None /\ event' = NoEvent
    BY <1>1, <1>2 DEF NoPath, NoList, ClistNew, NoEvent
  <2>2. cmd' \in Commands \cup {"none"} /\ at' \in Points /\ cmd' \in Logins /\ cmd' \notin Greetings
    BY <1>1 DEF Points, Logins, Greetings
  <2> QED
    BY <1>1, <2>1, <2>2 DEF Shape, FreedOnce
<1> QED
  BY <1>4, <1>5, <1>6, <1>7 DEF StorageInv

-----------------------------------------------------------------------------
\* The parts of the state a path does not touch.
LEMMA AsideGrows ==
    ASSUME StorageInv, NEW b \in Malloc("list"), b # None, heap' = heap \cup {b},
           UNCHANGED <<pools, helo_name, held, name, text, event>>,
           cmd' = cmd \/ text = None
    PROVE  /\ HeapInv' /\ PoolsInv' /\ TextsInv' /\ HeldInv' /\ NamesInv'
           /\ Mem("list")' = Mem("list") \cup {b} /\ b \notin Mem("list") /\ b \in Nat
<1>1. "atom" \in BlockKinds \ {"list"} /\ "list" \in BlockKinds /\ \A k \in Kinds : k \in BlockKinds \ {"list"}
  BY BlockFacts
<1>2. b \in Blocks["list"] /\ b \notin heap /\ b \in Nat
  BY <1>1, MallocFree
<1>3. /\ Mem("list")' = Mem("list") \cup {b} /\ HeapInv'
      /\ \A k \in BlockKinds \ {"list"} : Mem(k)' = Mem(k)
  BY <1>1, <1>2, Grows DEF StorageInv
<1>4. Mem("atom") \subseteq Mem("atom")' /\ \A k \in Kinds : Mem(k) \subseteq Mem(k)'
  BY <1>1, <1>3
<1>5. PoolsInv'
  <2>1. \A k \in Kinds : Pooled(k) \cap InUse' = {}
    BY DEF StorageInv, PoolsInv, InUse
  <2> QED
    BY <1>4, <2>1, PoolsKept DEF StorageInv
<1>6. TextsInv'
  <2>1. TextKind' = TextKind \/ text = None
    BY DEF TextKind
  <2> QED
    BY <1>4, <2>1, TextsKept DEF StorageInv
<1>7. HeldInv' /\ NamesInv'
  BY <1>4, HeldKept, NamesKept DEF StorageInv
<1> QED
  BY <1>2, <1>3, <1>5, <1>6, <1>7 DEF Mem

LEMMA AsideShrinks ==
    ASSUME StorageInv, NEW X, X \subseteq Blocks["list"], heap' = heap \ X,
           UNCHANGED <<pools, helo_name, held, name, text, event, cmd>>
    PROVE  /\ HeapInv' /\ PoolsInv' /\ TextsInv' /\ HeldInv' /\ NamesInv'
           /\ Mem("list")' = Mem("list") \ X
<1>1. "atom" \in BlockKinds \ {"list"} /\ "list" \in BlockKinds /\ \A k \in Kinds : k \in BlockKinds \ {"list"}
  BY BlockFacts
<1>3. /\ Mem("list")' = Mem("list") \ X /\ HeapInv'
      /\ \A k \in BlockKinds \ {"list"} : Mem(k)' = Mem(k)
  BY <1>1, Shrinks DEF StorageInv
<1>4. Mem("atom") \subseteq Mem("atom")' /\ \A k \in Kinds : Mem(k) \subseteq Mem(k)'
  BY <1>1, <1>3
<1>5. PoolsInv'
  <2>1. \A k \in Kinds : Pooled(k) \cap InUse' = {}
    BY DEF StorageInv, PoolsInv, InUse
  <2> QED
    BY <1>4, <2>1, PoolsKept DEF StorageInv
<1>6. TextsInv'
  BY <1>4, TextsKept DEF StorageInv, TextKind
<1>7. HeldInv' /\ NamesInv'
  BY <1>4, HeldKept, NamesKept DEF StorageInv
<1> QED
  BY <1>3, <1>5, <1>6, <1>7

LEMMA AsideStays ==
    ASSUME StorageInv, UNCHANGED <<heap, pools, helo_name, held, name, text, event, cmd>>
    PROVE  /\ HeapInv' /\ PoolsInv' /\ TextsInv' /\ HeldInv' /\ NamesInv'
           /\ Mem("list")' = Mem("list")
<1>1. PICK X : X = {}
  OBVIOUS
<1>2. X \subseteq Blocks["list"] /\ heap' = heap \ X
  BY <1>1
<1> QED
  BY <1>1, <1>2, AsideShrinks

LEMMA FirstMailboxKeeps == ASSUME StorageInv, NEW c \in Commands, FirstMailbox(c) PROVE StorageInv'
<1>1. PICK b \in Malloc("list") \ {None} : heap' = heap \cup {b} /\ value' = b
  BY DEF FirstMailbox, Mailbox
<1>2. /\ at = "idle" /\ at' = "list" /\ c \in Paths /\ cmd' = c
      /\ UNCHANGED <<pools, helo_name, held, name, text, event, list, mb_list, parsed>>
  BY DEF FirstMailbox, session
<1>3. Bare /\ NoPath
  BY <1>2 DEF StorageInv, Shape
<1>4. /\ HeapInv' /\ PoolsInv' /\ TextsInv' /\ HeldInv' /\ NamesInv'
      /\ Mem("list")' = Mem("list") \cup {b} /\ b \notin Mem("list") /\ b \in Nat
  BY <1>1, <1>2, <1>3, AsideGrows DEF Bare
<1>5. list' = NoList /\ parsed' = <<>> /\ mb_list' = None /\ value' = b /\ b # None
  BY <1>1, <1>2, <1>3 DEF NoPath, NoList, ClistNew
<1>6. ListInv'
  <2>1. Holds(list', parsed') /\ DOMAIN list'.cells = {} /\ list'.at = None
    BY <1>5, HoldsNew DEF NoList
  <2>2. ToSet(parsed') = {} /\ IsInjective(parsed')
    BY <1>5 DEF ToSet, IsInjective
  <2> QED
    BY <1>4, <1>5, <2>1, <2>2 DEF ListInv, Place
<1>7. Shape'
  <2>1. Bare' /\ cmd' \in Paths /\ cmd' \in Commands \cup {"none"} /\ at' \in Points
    BY <1>2, <1>3 DEF Bare, NoEvent, Points
  <2>2. list' = NoList /\ NoList' = NoList
    BY <1>5 DEF NoList
  <2> QED
    BY <1>2, <1>5, <2>1, <2>2 DEF Shape, FreedOnce
<1> QED
  BY <1>4, <1>6, <1>7 DEF StorageInv

\* A mailbox that is parsed, or the structure around the list.
LEMMA ListGrows ==
    ASSUME ListInv, UNCHANGED <<list, parsed>>, NEW b \in Nat, b # None,
           Mem("list")' = Mem("list") \cup {b}, b \notin Mem("list"),
           \/ value' = b /\ mb_list' = mb_list
           \/ mb_list' = b /\ value' = None
    PROVE  ListInv'
<1>1. /\ {list.at, mb_list} \subseteq Place("list")'
      /\ DOMAIN list.cells \subseteq Mem("list")' /\ ToSet(parsed) \subseteq Mem("list")'
      /\ b \in Place("list")' /\ b \notin DOMAIN list.cells /\ b \notin ToSet(parsed)
      /\ b # list.at /\ b # mb_list
  BY DEF ListInv, Place
<1>2. None \notin DOMAIN list.cells \cup ToSet(parsed)
  <2>1. None \notin Mem("list")
    BY BlockFacts DEF Mem
  <2> QED
    BY <2>1 DEF ListInv
<1>3. {list.at, value', mb_list'} \cap (DOMAIN list.cells \cup ToSet(parsed)) = {}
  BY <1>1, <1>2 DEF ListInv
<1>4. {list.at, value', mb_list'} \subseteq Place("list")'
  BY <1>1 DEF Place
<1>5. (list.at # None => list.at # value' /\ list.at # mb_list') /\ (value' # None => value' # mb_list')
  BY <1>1 DEF ListInv
<1> QED
  BY <1>1, <1>3, <1>4, <1>5 DEF ListInv

LEMMA NextMailboxKeeps == ASSUME StorageInv, NextMailbox PROVE StorageInv'
<1>1. PICK b \in Malloc("list") \ {None} : heap' = heap \cup {b} /\ value' = b
  BY DEF NextMailbox, Mailbox
<1>2. /\ at = "more" /\ at' = "append"
      /\ UNCHANGED <<pools, helo_name, held, cmd, name, text, event, list, mb_list, parsed>>
  BY DEF NextMailbox, session
<1>3. InPath /\ mb_list = None /\ cmd \in Commands \cup {"none"}
  BY <1>2 DEF StorageInv, Shape
<1>4. /\ HeapInv' /\ PoolsInv' /\ TextsInv' /\ HeldInv' /\ NamesInv'
      /\ Mem("list")' = Mem("list") \cup {b} /\ b \notin Mem("list") /\ b \in Nat
  BY <1>1, <1>2, AsideGrows
<1>5. ListInv'
  BY <1>1, <1>2, <1>4, ListGrows DEF StorageInv
<1>6. Shape'
  <2>1. InPath' /\ value' # None /\ mb_list' = None /\ cmd' \in Commands \cup {"none"} /\ at' \in Points
    BY <1>1, <1>2, <1>3 DEF InPath, Bare, NoEvent, Points
  <2> QED
    BY <1>2, <2>1 DEF Shape, FreedOnce
<1> QED
  BY <1>4, <1>5, <1>6 DEF StorageInv

LEMMA LastMailboxKeeps == ASSUME StorageInv, LastMailbox PROVE StorageInv'
<1>1. /\ at = "more" /\ at' \in {"wrap", "unlist"}
      /\ UNCHANGED <<heap, pools, helo_name, held, cmd, name, text, event, list, value, mb_list, parsed>>
  BY DEF LastMailbox, session, path
<1>2. InPath /\ value = None /\ mb_list = None /\ cmd \in Commands \cup {"none"}
  BY <1>1 DEF StorageInv, Shape
<1>3. HeapInv' /\ PoolsInv' /\ TextsInv' /\ HeldInv' /\ NamesInv' /\ Mem("list")' = Mem("list")
  BY <1>1, AsideStays
<1>4. ListInv'
  BY <1>1, <1>3, ListKept DEF StorageInv, path
<1>5. Shape'
  <2>1. InPath' /\ value' = None /\ mb_list' = None /\ cmd' \in Commands \cup {"none"} /\ at' \in Points
    BY <1>1, <1>2 DEF InPath, Bare, NoEvent, Points
  <2> QED
    BY <1>1, <2>1 DEF Shape, FreedOnce
<1> QED
  BY <1>3, <1>4, <1>5 DEF StorageInv

LEMMA WrapKeeps == ASSUME StorageInv, Wrap PROVE StorageInv'
<1>1. /\ at = "wrap"
      /\ UNCHANGED <<pools, helo_name, held, cmd, name, text, event, list, value, parsed>>
  BY DEF Wrap, session
<1>2. InPath /\ value = None /\ mb_list = None /\ cmd \in Commands \cup {"none"}
  BY <1>1 DEF StorageInv, Shape
<1>3. InPath' /\ value' = None /\ cmd' \in Commands \cup {"none"}
  BY <1>1, <1>2 DEF InPath, Bare, NoEvent
<1>4. CASE at' = "unlist" /\ UNCHANGED <<heap, mb_list>>
  <2>1. HeapInv' /\ PoolsInv' /\ TextsInv' /\ HeldInv' /\ NamesInv' /\ Mem("list")' = Mem("list")
    BY <1>1, <1>4, AsideStays
  <2>2. ListInv'
    BY <1>1, <1>4, <2>1, ListKept DEF StorageInv, path
  <2>3. Shape'
    <3>1. mb_list' = None /\ at' \in Points
      BY <1>2, <1>4 DEF Points
    <3> QED
      BY <1>3, <1>4, <3>1 DEF Shape, FreedOnce
  <2> QED
    BY <2>1, <2>2, <2>3 DEF StorageInv
<1>5. ASSUME NEW b \in Malloc("list"), b # None, mb_list' = b, heap' = heap \cup {b}, at' = "address"
      PROVE  StorageInv'
  <2>1. /\ HeapInv' /\ PoolsInv' /\ TextsInv' /\ HeldInv' /\ NamesInv'
        /\ Mem("list")' = Mem("list") \cup {b} /\ b \notin Mem("list") /\ b \in Nat
    BY <1>1, <1>5, AsideGrows
  <2>2. ListInv'
    BY <1>1, <1>2, <1>5, <2>1, ListGrows DEF StorageInv
  <2>3. Shape'
    <3>1. mb_list' # None /\ at' \in Points
      BY <1>5 DEF Points
    <3> QED
      BY <1>3, <1>5, <3>1 DEF Shape, FreedOnce
  <2> QED
    BY <2>1, <2>2, <2>3 DEF StorageInv
<1> QED
  <2>1. PICK b \in Malloc("list") :
          IF b = None THEN at' = "unlist" /\ UNCHANGED <<heap, mb_list>>
          ELSE mb_list' = b /\ heap' = heap \cup {b} /\ at' = "address"
    BY DEF Wrap
  <2> QED
    BY <1>4, <1>5, <2>1

LEMMA AppendSet ==
    ASSUME NEW q \in Seq(Nat), NEW v \in Nat
    PROVE  /\ ToSet(Append(q, v)) = ToSet(q) \cup {v}
           /\ v \notin ToSet(q) /\ IsInjective(q) => IsInjective(Append(q, v))
<1> PICK n : n = Len(q)
  OBVIOUS
<1>1. n \in Nat /\ DOMAIN q = 1..n /\ DOMAIN Append(q, v) = 1..(n + 1)
  BY LenProperties, AppendProperties
<1>2. Append(q, v)[n + 1] = v /\ \A i \in 1..n : Append(q, v)[i] = q[i]
  BY AppendProperties
<1>3. n + 1 \in 1..(n + 1) /\ \A i \in 1..(n + 1) : i = n + 1 \/ i \in 1..n
  BY <1>1
<1>4. \A i \in 1..n : i \in 1..(n + 1)
  BY <1>1
<1>5. ToSet(Append(q, v)) = ToSet(q) \cup {v}
  BY <1>1, <1>2, <1>3, <1>4 DEF ToSet
<1>6. ASSUME v \notin ToSet(q), IsInjective(q) PROVE IsInjective(Append(q, v))
  <2>1. \A i \in 1..n : q[i] # v
    BY <1>1, <1>6 DEF ToSet
  <2>2. \A i, j \in 1..n : q[i] = q[j] => i = j
    BY <1>1, <1>6 DEF IsInjective
  <2>3. \A i, j \in 1..(n + 1) : Append(q, v)[i] = Append(q, v)[j] => i = j
    BY <1>2, <1>3, <2>1, <2>2
  <2> QED
    BY <1>1, <2>3 DEF IsInjective
<1> QED
  BY <1>5, <1>6

LEMMA AppendMailboxKeeps == ASSUME StorageInv, AppendMailbox PROVE StorageInv'
<1>1. /\ at = "append" /\ value' = None
      /\ UNCHANGED <<pools, helo_name, held, cmd, name, text, event, mb_list>>
  BY DEF AppendMailbox, session
<1>2. InPath /\ value # None /\ mb_list = None /\ cmd \in Commands \cup {"none"}
  BY <1>1 DEF StorageInv, Shape
<1>3. /\ Holds(list, parsed) /\ list.at \in Place("list") /\ value \in Mem("list")
      /\ DOMAIN list.cells \subseteq Mem("list") /\ ToSet(parsed) \subseteq Mem("list")
      /\ IsInjective(parsed) /\ DOMAIN list.cells \cap ToSet(parsed) = {}
      /\ list.at \notin DOMAIN list.cells \cup ToSet(parsed)
      /\ value \notin DOMAIN list.cells \cup ToSet(parsed) /\ list.at # value
  BY <1>2 DEF StorageInv, ListInv, Place, InPath
<1>4. None \notin Mem("list") /\ Mem("list") \subseteq Nat /\ Mem("list") \subseteq Blocks["list"]
  BY BlockFacts DEF Mem
<1>5. ASSUME heap' = heap \ {value}, at' = "unlist", UNCHANGED <<list, parsed>>
      PROVE  StorageInv'
  <2>1. {value} \subseteq Blocks["list"]
    BY <1>3, <1>4
  <2>2. /\ HeapInv' /\ PoolsInv' /\ TextsInv' /\ HeldInv' /\ NamesInv'
        /\ Mem("list")' = Mem("list") \ {value}
    BY <1>1, <1>5, <2>1, AsideShrinks
  <2>3. ListInv'
    BY <1>1, <1>2, <1>3, <1>4, <1>5, <2>2 DEF ListInv, Place
  <2>4. Shape'
    <3>1. InPath' /\ value' = None /\ mb_list' = None /\ cmd' \in Commands \cup {"none"} /\ at' \in Points
      BY <1>1, <1>2, <1>5 DEF InPath, Bare, NoEvent, Points
    <3> QED
      BY <1>5, <3>1 DEF Shape, FreedOnce
  <2> QED
    BY <2>2, <2>3, <2>4 DEF StorageInv
<1>6. ASSUME NEW b \in Malloc("list"), b # None, heap' = heap \cup {b}, at' = "more",
             list' = ClistAppend(list, b, value), parsed' = Append(parsed, value)
      PROVE  StorageInv'
  <2>1. /\ HeapInv' /\ PoolsInv' /\ TextsInv' /\ HeldInv' /\ NamesInv'
        /\ Mem("list")' = Mem("list") \cup {b} /\ b \notin Mem("list") /\ b \in Nat
    BY <1>1, <1>6, AsideGrows
  <2>2. parsed \in Seq(Nat)
    BY <1>3 DEF Holds, Linked
  <2>3. /\ Holds(list', parsed') /\ DOMAIN list'.cells = DOMAIN list.cells \cup {b}
        /\ list'.at = list.at
    <3>1. b # NULL /\ b \notin DOMAIN list.cells /\ value \in Nat
      BY <1>3, <1>4, <1>6, <2>1 DEF None, NULL
    <3> QED
      BY <1>3, <1>6, <2>1, <3>1, HoldsAppend
  <2>4. ToSet(parsed') = ToSet(parsed) \cup {value} /\ IsInjective(parsed')
    BY <1>3, <1>4, <1>6, <2>2, AppendSet
  <2>5. ListInv'
    BY <1>1, <1>2, <1>3, <1>4, <1>6, <2>1, <2>3, <2>4 DEF ListInv, Place
  <2>6. Shape'
    <3>1. InPath' /\ value' = None /\ mb_list' = None /\ cmd' \in Commands \cup {"none"} /\ at' \in Points
      BY <1>1, <1>2, <1>6, <2>3 DEF InPath, Bare, NoEvent, Points
    <3> QED
      BY <1>6, <3>1 DEF Shape, FreedOnce
  <2> QED
    BY <2>1, <2>5, <2>6 DEF StorageInv
<1> QED
  <2>1. PICK b \in Malloc("list") :
          IF b = None
          THEN heap' = heap \ {value} /\ at' = "unlist" /\ UNCHANGED <<list, parsed>>
          ELSE /\ list' = ClistAppend(list, b, value) /\ parsed' = Append(parsed, value)
               /\ heap' = heap \cup {b} /\ at' = "more"
    BY DEF AppendMailbox
  <2> QED
    BY <1>5, <1>6, <2>1

-----------------------------------------------------------------------------
\* Sequences of blocks that are freed one behind the other.
LEMMA ConcatSet ==
    ASSUME NEW q \in Seq(Nat), NEW r \in Seq(Nat)
    PROVE  /\ q \o r \in Seq(Nat) /\ ToSet(q \o r) = ToSet(q) \cup ToSet(r)
           /\ IsInjective(q) /\ IsInjective(r) /\ ToSet(q) \cap ToSet(r) = {} => IsInjective(q \o r)
<1> PICK m, n : m = Len(q) /\ n = Len(r)
  OBVIOUS
<1>1. m \in Nat /\ n \in Nat /\ DOMAIN q = 1..m /\ DOMAIN r = 1..n
  BY LenProperties
<1>2. /\ q \o r \in Seq(Nat) /\ Len(q \o r) = m + n
      /\ \A i \in 1..(m + n) : (q \o r)[i] = IF i <= m THEN q[i] ELSE r[i - m]
  BY ConcatProperties
<1>3. DOMAIN (q \o r) = 1..(m + n)
  BY <1>2, LenProperties
<1>4. \A i \in 1..m : i \in 1..(m + n) /\ (q \o r)[i] = q[i]
  <2>1. \A i \in 1..m : i \in 1..(m + n) /\ i <= m
    BY <1>1
  <2> QED
    BY <1>2, <2>1
<1>5. \A i \in 1..n : m + i \in 1..(m + n) /\ (q \o r)[m + i] = r[i]
  <2> TAKE i \in 1..n
  <2>1. m + i \in 1..(m + n) /\ ~(m + i <= m) /\ m + i - m = i
    BY <1>1
  <2> QED
    BY <1>2, <2>1
<1>6. \A i \in 1..(m + n) : i \in 1..m \/ \E j \in 1..n : i = m + j
  <2> TAKE i \in 1..(m + n)
  <2>1. CASE i <= m
    BY <1>1, <2>1
  <2>2. CASE ~(i <= m)
    <3>1. i - m \in 1..n /\ i = m + (i - m)
      BY <1>1, <2>2
    <3> QED
      BY <3>1
  <2> QED
    BY <2>1, <2>2
<1>7. ToSet(q \o r) = ToSet(q) \cup ToSet(r)
  <2>1. /\ ToSet(q) = {q[i] : i \in 1..m} /\ ToSet(r) = {r[i] : i \in 1..n}
        /\ ToSet(q \o r) = {(q \o r)[i] : i \in 1..(m + n)}
    BY <1>1, <1>3 DEF ToSet
  <2>2. ASSUME NEW x \in ToSet(q \o r) PROVE x \in ToSet(q) \cup ToSet(r)
    <3>1. PICK i \in 1..(m + n) : x = (q \o r)[i]
      BY <2>1
    <3> QED
      BY <1>4, <1>5, <1>6, <2>1, <3>1
  <2>3. \A x \in ToSet(q) : x \in ToSet(q \o r)
    BY <1>4, <2>1
  <2>4. ASSUME NEW x \in ToSet(r) PROVE x \in ToSet(q \o r)
    <3>1. PICK i \in 1..n : x = r[i]
      BY <2>1
    <3>2. m + i \in 1..(m + n) /\ (q \o r)[m + i] = x
      BY <1>5, <3>1
    <3> QED
      BY <2>1, <3>2
  <2> QED
    BY <2>2, <2>3, <2>4
<1>8. ASSUME IsInjective(q), IsInjective(r), ToSet(q) \cap ToSet(r) = {}
      PROVE  IsInjective(q \o r)
  <2>1. \A i, j \in 1..m : q[i] = q[j] => i = j
    BY <1>1, <1>8 DEF IsInjective
  <2>2. \A i, j \in 1..n : r[i] = r[j] => i = j
    BY <1>1, <1>8 DEF IsInjective
  <2>3. \A i \in 1..m : \A j \in 1..n : q[i] # r[j]
    BY <1>1, <1>8 DEF ToSet
  <2>4. ASSUME NEW i \in 1..(m + n), NEW j \in 1..(m + n), (q \o r)[i] = (q \o r)[j] PROVE i = j
    <3>1. CASE i \in 1..m /\ j \in 1..m
      BY <1>4, <2>1, <2>4, <3>1
    <3>2. CASE i \in 1..m /\ \E b \in 1..n : j = m + b
      BY <1>4, <1>5, <2>3, <2>4, <3>2
    <3>3. CASE (\E a \in 1..n : i = m + a) /\ j \in 1..m
      BY <1>4, <1>5, <2>3, <2>4, <3>3
    <3>4. CASE (\E a \in 1..n : i = m + a) /\ (\E b \in 1..n : j = m + b)
      BY <1>5, <2>2, <2>4, <3>4
    <3> QED
      BY <1>6, <3>1, <3>2, <3>3, <3>4
  <2> QED
    BY <1>3, <2>4 DEF IsInjective
<1> QED
  BY <1>2, <1>7, <1>8

LEMMA TwiceFreed == ASSUME NEW q \in Seq(Nat), NEW b \in ToSet(q) PROVE ~IsInjective(q \o q)
<1> PICK m : m = Len(q)
  OBVIOUS
<1>1. m \in Nat /\ DOMAIN q = 1..m
  BY LenProperties
<1>2. PICK i \in 1..m : q[i] = b
  BY <1>1 DEF ToSet
<1>3. /\ q \o q \in Seq(Nat) /\ Len(q \o q) = m + m
      /\ \A j \in 1..(m + m) : (q \o q)[j] = IF j <= m THEN q[j] ELSE q[j - m]
  BY ConcatProperties
<1>4. i \in 1..(m + m) /\ m + i \in 1..(m + m) /\ m + i # i /\ i <= m /\ ~(m + i <= m) /\ m + i - m = i
  BY <1>1
<1>5. (q \o q)[i] = (q \o q)[m + i] /\ DOMAIN (q \o q) = 1..(m + m)
  <2>1. (q \o q)[i] = q[i]
    BY <1>3, <1>4
  <2>2. (q \o q)[m + i] = q[i]
    BY <1>3, <1>4
  <2> QED
    BY <1>3, <2>1, <2>2, LenProperties
<1> QED
  BY <1>4, <1>5 DEF IsInjective

LEMMA OneSet == ASSUME NEW b \in Nat PROVE <<b>> \in Seq(Nat) /\ ToSet(<<b>>) = {b} /\ IsInjective(<<b>>)
BY DEF ToSet, IsInjective

LEMMA NothingFreed == <<>> \in Seq(Nat) /\ ToSet(<<>>) = {} /\ IsInjective(<<>>)
<1>1. <<>> \in Seq(Nat)
  OBVIOUS
<1>2. ToSet(<<>>) = {} /\ IsInjective(<<>>)
  BY DEF ToSet, IsInjective
<1> QED
  BY <1>1, <1>2

\* The elements of a set, one behind the other.
LEMMA SetBlocks ==
    ASSUME NEW S, IsFiniteSet(S), S \subseteq Nat
    PROVE  SetToSeq(S) \in Seq(Nat) /\ ToSet(SetToSeq(S)) = S /\ IsInjective(SetToSeq(S))
<1> PICK q : q = SetToSeq(S)
  OBVIOUS
<1>1. /\ q \in Seq(S)
      /\ \A i, j \in 1..Len(q) : q[i] = q[j] => i = j
      /\ \A i \in 1..Len(q) : q[i] \in S
      /\ \A x \in S : \E i \in 1..Len(q) : q[i] = x
  BY SetSequence
<1>2. Len(q) \in Nat /\ q \in [1..Len(q) -> Nat]
  BY <1>1, LenProperties
<1>3. q \in Seq(Nat)
  BY <1>2
<1>4. ToSet(q) = {q[i] : i \in 1..Len(q)}
  BY <1>2 DEF ToSet
<1>5. ToSet(q) = S
  <2>1. \A x \in ToSet(q) : x \in S
    BY <1>1, <1>4
  <2>2. \A x \in S : x \in ToSet(q)
    <3> TAKE x \in S
    <3>1. PICK i \in 1..Len(q) : q[i] = x
      BY <1>1
    <3> QED
      BY <1>4, <3>1
  <2> QED
    BY <2>1, <2>2
<1> QED
  BY <1>1, <1>2, <1>3, <1>5 DEF IsInjective

LEMMA ListBlocks ==
    ASSUME ListInv, list.at # None
    PROVE  /\ ListFree \in Seq(Nat) /\ IsInjective(ListFree)
           /\ ToSet(ListFree) = ToSet(parsed) \cup DOMAIN list.cells \cup {list.at}
           /\ ToSet(ListFree) \subseteq Mem("list")
<1>1. /\ Holds(list, parsed) /\ list.at \in Mem("list")
      /\ DOMAIN list.cells \subseteq Mem("list") /\ ToSet(parsed) \subseteq Mem("list")
      /\ IsInjective(parsed) /\ DOMAIN list.cells \cap ToSet(parsed) = {}
      /\ list.at \notin DOMAIN list.cells \cup ToSet(parsed)
  BY DEF ListInv, Place
<1>2. Mem("list") \subseteq Nat /\ IsFiniteSet(Mem("list"))
  BY BlockFacts, FS_Subset DEF Mem
<1> PICK q : q = SetToSeq(DOMAIN list.cells)
  OBVIOUS
<1>3. q \in Seq(Nat) /\ ToSet(q) = DOMAIN list.cells /\ IsInjective(q)
  <2>1. IsFiniteSet(DOMAIN list.cells) /\ DOMAIN list.cells \subseteq Nat
    BY <1>1, <1>2, FS_Subset
  <2> QED
    BY <2>1, SetBlocks
<1>4. Foreach(list) = parsed /\ parsed \in Seq(Nat)
  BY <1>1, HoldsInOrder DEF Holds, Linked
<1>5. /\ parsed \o q \in Seq(Nat) /\ ToSet(parsed \o q) = ToSet(parsed) \cup DOMAIN list.cells
      /\ IsInjective(parsed \o q)
  BY <1>1, <1>3, <1>4, ConcatSet
<1>6. /\ <<list.at>> \in Seq(Nat) /\ ToSet(<<list.at>>) = {list.at} /\ IsInjective(<<list.at>>)
  BY <1>1, <1>2, OneSet
<1> PICK h, t : h = parsed \o q /\ t = <<list.at>>
  OBVIOUS
<1>7. ListFree = h \o t
  BY <1>4 DEF ListFree
<1>9. /\ h \in Seq(Nat) /\ t \in Seq(Nat) /\ ToSet(h) = ToSet(parsed) \cup DOMAIN list.cells
      /\ ToSet(t) = {list.at} /\ IsInjective(h) /\ IsInjective(t)
  BY <1>5, <1>6
<1>8. /\ ListFree \in Seq(Nat) /\ IsInjective(ListFree)
      /\ ToSet(ListFree) = (ToSet(parsed) \cup DOMAIN list.cells) \cup {list.at}
  <2>1. ToSet(h) \cap ToSet(t) = {}
    BY <1>1, <1>9
  <2>2. /\ h \o t \in Seq(Nat) /\ ToSet(h \o t) = ToSet(h) \cup ToSet(t) /\ IsInjective(h \o t)
    BY <1>9, <2>1, ConcatSet
  <2> QED
    BY <1>7, <1>9, <2>2
<1> QED
  BY <1>1, <1>8

LEMMA MailboxListBlocks ==
    ASSUME ListInv, list.at # None, mb_list # None
    PROVE  /\ MailboxListFree \in Seq(Nat)
           /\ ToSet(MailboxListFree) = ToSet(parsed) \cup DOMAIN list.cells \cup {list.at, mb_list}
           /\ ToSet(MailboxListFree) \subseteq Mem("list")
<1>1. mb_list \in Mem("list") /\ mb_list \in Nat
  BY BlockFacts DEF ListInv, Place, Mem
<1>2. /\ ListFree \in Seq(Nat) /\ ToSet(ListFree) = ToSet(parsed) \cup DOMAIN list.cells \cup {list.at}
      /\ ToSet(ListFree) \subseteq Mem("list")
  BY ListBlocks
<1>3. <<mb_list>> \in Seq(Nat) /\ ToSet(<<mb_list>>) = {mb_list}
  BY <1>1, OneSet
<1>4. MailboxListFree \in Seq(Nat) /\ ToSet(MailboxListFree) = ToSet(ListFree) \cup {mb_list}
  <2> PICK h, t : h = ListFree /\ t = <<mb_list>>
    OBVIOUS
  <2>1. h \in Seq(Nat) /\ t \in Seq(Nat) /\ ToSet(t) = {mb_list} /\ MailboxListFree = h \o t
    BY <1>2, <1>3 DEF MailboxListFree
  <2> QED
    BY <2>1, ConcatSet
<1> QED
  BY <1>1, <1>2, <1>4

\* A path that fails and frees what it has of the list.
LEMMA LeaveListKeeps ==
    ASSUME StorageInv, NEW X, X \subseteq Blocks["list"], heap' = heap \ X, pools' = pools,
           Return, UNCHANGED session
    PROVE  StorageInv'
<1>1. "atom" \in BlockKinds \ {"list"} /\ "list" \in BlockKinds /\ \A k \in Kinds : k \in BlockKinds \ {"list"}
  BY BlockFacts
<1>2. HeapInv' /\ \A k \in BlockKinds \ {"list"} : Mem(k)' = Mem(k)
  BY <1>1, Shrinks DEF StorageInv
<1>3. Mem("atom")' = Mem("atom") /\ \A k \in Kinds : Mem(k) \subseteq Mem(k)'
  BY <1>1, <1>2
<1>4. held' = held /\ helo_name' = helo_name
  BY DEF session
<1>5. PoolsInv'
  <2>1. InUse' \subseteq InUse \cup {None}
    BY <1>4, NoEventFacts DEF InUse, Return
  <2>2. \A k \in Kinds : None \notin Pooled(k)
    BY NoneOutside DEF StorageInv, PoolsInv, Stores, Pooled, Objects
  <2>3. \A k \in Kinds : Pooled(k) \cap InUse' = {}
    BY <2>1, <2>2 DEF StorageInv, PoolsInv
  <2> QED
    BY <1>3, <2>3, PoolsKept DEF StorageInv
<1>6. \A e \in held : e.name \in Place("atom")'
  BY <1>3 DEF StorageInv, NamesInv, Place, Events
<1>7. TextsInv' /\ HeldInv' /\ NamesInv' /\ ListInv' /\ Shape'
  BY <1>3, <1>4, <1>6, Returned
<1> QED
  BY <1>2, <1>5, <1>7 DEF StorageInv

LEMMA FreeListKeeps == ASSUME StorageInv, FreeList PROVE StorageInv'
<1>1. at = "unlist" /\ Leave(ListFree, pools) /\ UNCHANGED session
  BY DEF FreeList
<1>2. list.at # None
  BY <1>1 DEF StorageInv, Shape, InPath
<1>3. IsInjective(ListFree) /\ ToSet(ListFree) \subseteq Blocks["list"]
  BY <1>2, ListBlocks DEF StorageInv, Mem
<1>4. heap' = heap \ ToSet(ListFree) /\ pools' = pools /\ Return
  BY <1>1, <1>3 DEF Leave
<1> QED
  BY <1>1, <1>3, <1>4, LeaveListKeeps

LEMMA PathFailsKeeps == ASSUME StorageInv, PathFails PROVE StorageInv'
<1>1. at = "address" /\ Leave(MailboxListFree \o MailboxListFree, pools) /\ UNCHANGED session
  BY DEF PathFails
<1>2. list.at # None /\ mb_list # None /\ cmd \in Paths
  BY <1>1 DEF StorageInv, Shape, InPath
<1>3. MailboxListFree \in Seq(Nat) /\ mb_list \in ToSet(MailboxListFree)
  BY <1>2, MailboxListBlocks DEF StorageInv
<1>4. ~IsInjective(MailboxListFree \o MailboxListFree)
  BY <1>3, TwiceFreed
<1>5. Undefined
  BY <1>1, <1>4 DEF Leave
<1> QED
  BY <1>1, <1>2, <1>5, Undone

LEMMA NewListKeeps == ASSUME StorageInv, NewList PROVE StorageInv'
<1>1. at = "list" /\ UNCHANGED session
  BY DEF NewList
<1>2. /\ cmd \in Paths /\ Bare /\ list = NoList /\ parsed = <<>> /\ mb_list = None /\ value # None
      /\ cmd \in Commands \cup {"none"}
  BY <1>1 DEF StorageInv, Shape
<1>3. value \in Mem("list") /\ Mem("list") \subseteq Blocks["list"] /\ Mem("list") \subseteq Nat
  BY <1>2, BlockFacts DEF StorageInv, ListInv, Place, Mem
<1>4. CASE Leave(<<value>>, pools)
  <2>1. ToSet(<<value>>) = {value} /\ IsInjective(<<value>>)
    BY <1>3, OneSet
  <2>2. heap' = heap \ {value} /\ pools' = pools /\ Return
    BY <1>4, <2>1 DEF Leave
  <2>3. {value} \subseteq Blocks["list"]
    BY <1>3
  <2> QED
    BY <1>1, <2>2, <2>3, LeaveListKeeps
<1>5. ASSUME NEW b \in Malloc("list"), b # None,
             list' = ClistNew(b), heap' = heap \cup {b}, at' = "append",
             UNCHANGED <<pools, cmd, name, text, event, value, mb_list, parsed>>
      PROVE  StorageInv'
  <2>1. /\ HeapInv' /\ PoolsInv' /\ TextsInv' /\ HeldInv' /\ NamesInv'
        /\ Mem("list")' = Mem("list") \cup {b} /\ b \notin Mem("list") /\ b \in Nat
    BY <1>1, <1>5, AsideGrows DEF session
  <2>2. Holds(list', parsed') /\ DOMAIN list'.cells = {} /\ list'.at = b
    BY <1>2, <1>5, HoldsNew
  <2>3. ToSet(parsed') = {} /\ IsInjective(parsed')
    BY <1>2, <1>5 DEF ToSet, IsInjective
  <2>4. ListInv'
    BY <1>2, <1>3, <1>5, <2>1, <2>2, <2>3 DEF ListInv, Place
  <2>5. Shape'
    <3>1. InPath' /\ value' # None /\ mb_list' = None /\ cmd' \in Commands \cup {"none"} /\ at' \in Points
      BY <1>2, <1>5, <2>2 DEF InPath, Bare, NoEvent, Points
    <3> QED
      BY <1>5, <3>1 DEF Shape, FreedOnce
  <2> QED
    BY <2>1, <2>4, <2>5 DEF StorageInv
<1> QED
  <2>1. PICK b \in Malloc("list") :
          IF b = None THEN Leave(<<value>>, pools)
          ELSE /\ list' = ClistNew(b) /\ heap' = heap \cup {b} /\ at' = "append"
               /\ UNCHANGED <<pools, cmd, name, text, event, value, mb_list, parsed>>
    BY DEF NewList
  <2> QED
    BY <1>4, <1>5, <2>1

-----------------------------------------------------------------------------
LEMMA PathAddressKeeps == ASSUME StorageInv, PathAddress PROVE StorageInv'
<1>1. /\ at = "address" /\ at' = "parameters"
      /\ list' = NoList /\ mb_list' = None /\ parsed' = <<>>
      /\ UNCHANGED <<helo_name, held, cmd, name, event, value>>
  BY DEF PathAddress, session
<1>2. InPath /\ value = None /\ mb_list # None /\ cmd \in Commands \cup {"none"} /\ cmd \in Paths
  BY <1>1 DEF StorageInv, Shape, InPath
<1>3. PICK k \in Kinds : k = "address"
  BY DEF Kinds
<1>4. PICK r \in Alloc(k) :
          /\ r.got # None /\ text' = r.got
          /\ pools' = [pools EXCEPT ![k] = r.pool]
          /\ heap' = (heap \cup DOMAIN r.pool.next \cup Set(r.got)) \ ToSet(MailboxListFree)
  BY <1>3 DEF PathAddress, Set
<1> PICK X : X = ToSet(MailboxListFree)
  OBVIOUS
<1>5. X \subseteq Blocks["list"]
  BY <1>2, MailboxListBlocks DEF StorageInv, InPath, Mem
<1>6. /\ pools' = [pools EXCEPT ![k] = r.pool]
      /\ heap' = (heap \cup DOMAIN r.pool.next \cup Set(r.got)) \ X
      /\ PoolsInv /\ TextsInv /\ HeapInv
  BY <1>4 DEF StorageInv
<1>7. /\ HeapInv'
      /\ \A j \in BlockKinds \ {"list"} : Mem(j) \subseteq Mem(j)'
      /\ Mem("atom")' = Mem("atom")
      /\ Stores(pools')
      /\ \A j \in Kinds : Pooled(j)' \subseteq Mem(j)' /\ Pooled(j)' \cap InUse = {}
      /\ \A j \in Kinds : r.got \notin Pooled(j)'
      /\ r.got \in Place(k)'
      /\ r.got # None => r.got \notin InUse
  BY <1>5, <1>6, AllocatedKeeps
<1>8. \A j \in Kinds : Mem(j) \subseteq Mem(j)'
  BY <1>7, BlockFacts
<1>9. PoolsInv'
  <2>1. InUse' \subseteq InUse \cup {r.got, None}
    BY <1>1, <1>4 DEF InUse
  <2> QED
    BY <1>7, <2>1, PoolsNext
<1>10. TextsInv'
  <2>1. text' \in Place(TextKind)' /\ helo_name' \in Place("string")'
    <3>1. "string" \in Kinds
      BY DEF Kinds
    <3> QED
      BY <1>1, <1>2, <1>3, <1>4, <1>7, <1>8, <3>1 DEF TextKind, Place, StorageInv, TextsInv
  <2> QED
    BY <1>1, <1>4, <1>6, <1>7, <1>8, <2>1, NewTexts
<1>11. HeldInv' /\ NamesInv'
  BY <1>1, <1>7, HeldKept, NamesKept DEF StorageInv
<1>12. NoPath' /\ ListInv'
  <2>1. NoPath'
    BY <1>1, <1>2 DEF NoPath, NoList, ClistNew
  <2> QED
    BY <2>1, NoListNext
<1>13. Shape'
  <2>1. /\ cmd' \in Paths /\ cmd' \in Commands \cup {"none"} /\ name' = None
        /\ event' = NoEvent /\ NoEvent' = NoEvent /\ at' \in Points
    BY <1>1, <1>2 DEF InPath, Bare, NoEvent, Points
  <2> QED
    BY <1>1, <1>12, <2>1 DEF Shape, FreedOnce
<1> QED
  BY <1>7, <1>9, <1>10, <1>11, <1>12, <1>13 DEF StorageInv

\* Nothing but the point of the command changes.
LEMMA PointKeeps ==
    ASSUME StorageInv, UNCHANGED <<heap, pools, session, cmd, name, text, event, path>>, Shape'
    PROVE  StorageInv'
<1>1. UNCHANGED <<heap, pools, helo_name, held, cmd, name, text, event, path>>
  BY DEF session
<1>2. HeapInv' /\ PoolsInv' /\ TextsInv' /\ HeldInv' /\ NamesInv' /\ Mem("list")' = Mem("list")
  BY <1>1, AsideStays
<1>3. ListInv'
  BY <1>1, <1>2, ListKept DEF StorageInv
<1> QED
  BY <1>2, <1>3 DEF StorageInv

LEMMA NoPathStays == ASSUME NoPath, UNCHANGED path PROVE NoPath'
BY DEF NoPath, path, NoList, ClistNew

LEMMA ParametersKeeps == ASSUME StorageInv, Parameters PROVE StorageInv'
<1>1. /\ at = "parameters" /\ at' \in {"event", "free"}
      /\ UNCHANGED <<heap, pools, session, cmd, name, text, event, path>>
  BY DEF Parameters
<1>2. cmd \in Paths /\ name = None /\ event = NoEvent /\ NoPath /\ cmd \in Commands \cup {"none"}
  BY <1>1 DEF StorageInv, Shape
<1>3. /\ cmd' \in Paths /\ cmd' \notin Greetings /\ name' = None /\ event' = NoEvent /\ NoEvent' = NoEvent
      /\ event'.name = None /\ NoPath' /\ cmd' \in Commands \cup {"none"} /\ at' \in Points
  BY <1>1, <1>2, NoEventFacts, NoPathStays DEF NoEvent, Points, Paths, Greetings
<1>4. Shape'
  BY <1>1, <1>3 DEF Shape, FreedOnce
<1> QED
  BY <1>1, <1>4, PointKeeps

LEMMA EngineFailsKeeps == ASSUME StorageInv, EngineFails PROVE StorageInv'
<1>1. /\ at = "analysis" /\ at' = "free"
      /\ UNCHANGED <<heap, pools, session, cmd, name, text, event, path>>
  BY DEF EngineFails
<1>2. /\ cmd \in Greetings \cup Logins \cup Paths /\ NoPath /\ cmd \in Commands \cup {"none"}
      /\ text = None /\ name = (IF cmd = "HELO" THEN event.name ELSE None)
      /\ IF cmd \in Greetings THEN event.text = None ELSE event.name = None
  BY <1>1 DEF StorageInv, Shape
<1>3. /\ cmd' \in Greetings \cup Logins \cup Paths /\ NoPath' /\ cmd' \in Commands \cup {"none"}
      /\ IF cmd' \in Greetings THEN text' = None /\ event'.text = None
                               ELSE name' = None /\ event'.name = None
      /\ at' \in Points
  <2>1. cmd \notin Greetings => name = None
    BY <1>2 DEF Greetings
  <2> QED
    BY <1>1, <1>2, <2>1, NoPathStays DEF Points
<1>4. Shape'
  BY <1>1, <1>3 DEF Shape, FreedOnce
<1> QED
  BY <1>1, <1>4, PointKeeps

LEMMA NewEventKeeps == ASSUME StorageInv, NewEvent PROVE StorageInv'
<1>1. at = "event" /\ UNCHANGED session
  BY DEF NewEvent
<1>2. /\ cmd \in Greetings \cup Logins \cup Paths /\ event = NoEvent /\ NoPath
      /\ IF cmd \in Greetings THEN text = None ELSE name = None
      /\ cmd \in Commands \cup {"none"}
  BY <1>1 DEF StorageInv, Shape
<1>3. ASSUME Return, UNCHANGED <<heap, pools>> PROVE StorageInv'
  <2>1. PICK X : X = {}
    OBVIOUS
  <2>2. X \subseteq Blocks["list"] /\ heap' = heap \ X
    BY <1>3, <2>1
  <2> QED
    BY <1>1, <1>3, <2>2, LeaveListKeeps
<1>4. ASSUME at' = "free", UNCHANGED <<heap, pools, cmd, name, text, event, path>>
      PROVE  StorageInv'
  <2>1. /\ cmd' \in Greetings \cup Logins \cup Paths /\ NoPath' /\ cmd' \in Commands \cup {"none"}
        /\ IF cmd' \in Greetings THEN text' = None /\ event'.text = None
                                 ELSE name' = None /\ event'.name = None
        /\ at' \in Points
    BY <1>2, <1>4, NoPathStays, NoEventFacts DEF Points
  <2>2. Shape'
    BY <1>4, <2>1 DEF Shape, FreedOnce
  <2> QED
    BY <1>1, <1>4, <2>2, PointKeeps
<1>5. ASSUME cmd = "USER", text = None, Undefined PROVE StorageInv'
  BY <1>1, <1>5, Undone
<1>6. ASSUME NEW r \in Alloc("event"), r.got # None, Allocated("event", r),
             event' = [node |-> r.got, name |-> name, text |-> text,
                       kind |-> IF cmd \in Paths THEN "address" ELSE "string"],
             name' = (IF cmd = "HELO" THEN name ELSE None),
             text' = None, at' = "analysis", UNCHANGED <<cmd, path>>
      PROVE  StorageInv'
  <2>1. PICK k \in Kinds : k = "event"
    BY DEF Kinds
  <2>2. /\ event'.node = r.got /\ event'.name = name /\ event'.text = text
        /\ event'.kind = TextKind
    BY <1>6 DEF TextKind
  <2>3. helo_name' = helo_name /\ held' = held
    BY <1>1 DEF session
  <2>4. InUse' \subseteq InUse \cup {r.got, None}
    BY <1>6, <2>2, <2>3 DEF InUse
  <2>5. /\ HeapInv' /\ PoolsInv'
        /\ \A j \in Kinds : Mem(j) \subseteq Mem(j)'
        /\ Mem("atom") \subseteq Mem("atom")' /\ Mem("list") \subseteq Mem("list")'
        /\ r.got \in Place(k)' /\ r.got \notin InUse
    BY <1>6, <2>1, <2>4, AllocatedGrows
  <2>6. \A j \in Kinds : Place(j) \subseteq Place(j)'
    BY <2>5 DEF Place
  <2>7. \A e \in held : e \in Events /\ e.node \in InUse /\ e.text \in InUse /\ e.node # r.got
    BY <2>5 DEF Events, InUse
  <2>8. Events' = held \cup {event'}
    BY <2>3 DEF Events
  <2>9. text \in Place(TextKind) /\ TextKind \in {"string", "address"} /\ TextKind \in Kinds
    BY DEF StorageInv, TextsInv, TextKind, Kinds
  <2>10. TextsInv'
    <3>1. helo_name' \in Place("string")' /\ text' \in Place(TextKind)'
      BY <1>6, <2>3, <2>6 DEF StorageInv, TextsInv, Place, Kinds
    <3>2. \A e \in held : /\ e.node \in Place("event")' /\ e.kind \in {"string", "address"}
                          /\ e.text \in Place(e.kind)'
      BY <2>6, <2>7 DEF StorageInv, TextsInv, Kinds
    <3>3. /\ event'.node \in Place("event")' /\ event'.kind \in {"string", "address"}
          /\ (event.text \in Place(event.kind))'
      <4> PICK tk \in Kinds : tk = TextKind
        BY <2>9
      <4>1. text \in Place(tk)' /\ event'.text = text /\ event'.kind = tk
        BY <2>2, <2>6, <2>9
      <4>2. (event.text \in Place(event.kind))'
        BY <4>1 DEF Place, Mem
      <4> QED
        BY <2>1, <2>2, <2>5, <2>9, <4>2
    <3>4. helo_name' # None => helo_name' # text' /\ \A e \in Events' : e.text # helo_name'
      BY <1>6, <2>2, <2>3, <2>7, <2>8 DEF StorageInv, TextsInv
    <3>5. \A e, f \in Events' : e # f => e.node # f.node /\ (e.text # None => e.text # f.text)
      BY <2>2, <2>7, <2>8 DEF StorageInv, TextsInv
    <3> QED
      BY <1>6, <2>8, <3>1, <3>2, <3>3, <3>4, <3>5 DEF TextsInv
  <2>11. HeldInv'
    <3>1. event' \notin held
      BY <2>2, <2>7
    <3> QED
      BY <2>3, <3>1 DEF HeldInv, StorageInv
  <2>12. NamesInv'
    <3>1. /\ name \in Place("atom") /\ \A e \in held : e.name \in Place("atom")
          /\ \A e \in held : e.name # None =>
                e.name # name /\ \A f \in Events : e # f => e.name # f.name
      BY <2>7 DEF StorageInv, NamesInv
    <3>2. Place("atom") \subseteq Place("atom")' /\ name' \in {name, None} /\ None \in Place("atom")'
      BY <1>6, <2>5 DEF Place
    <3> QED
      BY <2>2, <2>3, <2>7, <2>8, <3>1, <3>2 DEF NamesInv
  <2>13. ListInv'
    BY <1>6, <2>5, ListKept DEF StorageInv
  <2>14. Shape'
    <3>1. /\ cmd' \in Greetings \cup Logins \cup Paths /\ event'.node # None /\ NoPath'
          /\ text' = None /\ name' = (IF cmd' = "HELO" THEN event'.name ELSE None)
          /\ IF cmd' \in Greetings THEN event'.text = None ELSE event'.name = None
          /\ cmd' \in Commands \cup {"none"} /\ at' \in Points
      BY <1>2, <1>6, <2>2, NoPathStays DEF Points
    <3> QED
      BY <1>6, <3>1 DEF Shape, FreedOnce
  <2> QED
    BY <2>5, <2>10, <2>11, <2>12, <2>13, <2>14 DEF StorageInv
<1> QED
  <2>1. PICK r \in Alloc("event") :
          CASE r.got = None /\ cmd = "USER" -> Return /\ UNCHANGED <<heap, pools>>
            [] r.got = None /\ cmd # "USER" ->
                 at' = "free" /\ UNCHANGED <<heap, pools, cmd, name, text, event, path>>
            [] r.got # None /\ cmd = "USER" /\ text = None -> Undefined
            [] OTHER ->
                 /\ Allocated("event", r)
                 /\ event' = [node |-> r.got, name |-> name, text |-> text,
                              kind |-> IF cmd \in Paths THEN "address" ELSE "string"]
                 /\ name' = IF cmd = "HELO" THEN name ELSE None
                 /\ text' = None /\ at' = "analysis" /\ UNCHANGED <<cmd, path>>
    BY Zenon DEF NewEvent
  <2>2. CASE r.got = None /\ cmd = "USER"
    BY <1>3, <2>1, <2>2
  <2>3. CASE r.got = None /\ cmd # "USER"
    BY <1>4, <2>1, <2>3
  <2>4. CASE r.got # None /\ cmd = "USER" /\ text = None
    BY <1>5, <2>1, <2>4
  <2>5. CASE r.got # None /\ ~(cmd = "USER" /\ text = None)
    BY <1>6, <2>1, <2>5
  <2> QED
    BY <2>2, <2>3, <2>4, <2>5

LEMMA AnalysedKeeps == ASSUME StorageInv, Analysed PROVE StorageInv'
<1>1. /\ at = "analysis" /\ Cardinality(held) < MaxHeld /\ held' = held \cup {event}
      /\ Return /\ UNCHANGED <<heap, pools, helo_name>>
  BY DEF Analysed
<1>2. event.node # None
  BY <1>1 DEF StorageInv, Shape
<1>3. /\ at' = "idle" /\ cmd' = "none" /\ name' = None /\ text' = None /\ event' = NoEvent
      /\ list' = NoList /\ value' = None /\ mb_list' = None /\ parsed' = <<>>
  BY <1>1 DEF Return
<1>4. held' = Events /\ Events' = Events \cup {NoEvent} /\ \A e \in Events : e.node # None
  BY <1>1, <1>2, <1>3 DEF Events, StorageInv, HeldInv
<1>5. /\ HeapInv' /\ PoolsInv' /\ \A j \in Kinds : Mem(j) \subseteq Mem(j)'
      /\ Mem("atom") \subseteq Mem("atom")'
  <2>1. InUse' \subseteq InUse \cup {None}
    BY <1>1, <1>3, NoEventFacts DEF InUse
  <2> QED
    BY <1>1, <2>1, HeapStays
<1>6. \A j \in Kinds : Place(j) \subseteq Place(j)'
  BY <1>5 DEF Place
<1>7. TextsInv'
  <2>1. helo_name' \in Place("string")' /\ text' \in Place(TextKind)'
    BY <1>1, <1>3, <1>6 DEF StorageInv, TextsInv, Place, Kinds
  <2>2. \A e \in Events : /\ e.node \in Place("event")' /\ e.kind \in {"string", "address"}
                          /\ e.text \in Place(e.kind)'
    BY <1>6 DEF StorageInv, TextsInv, Kinds
  <2>3. \A e \in Events' : /\ e.node \in Place("event")' /\ e.kind \in {"string", "address"}
                           /\ e.text \in Place(e.kind)'
    BY <1>4, <2>2, NoEventFacts DEF Place
  <2>4. helo_name' # None => helo_name' # text' /\ \A e \in Events' : e.text # helo_name'
    BY <1>1, <1>3, <1>4, NoEventFacts DEF StorageInv, TextsInv
  <2>5. \A e, f \in Events' : e # f => e.node # f.node /\ (e.text # None => e.text # f.text)
    BY <1>4, NoEventFacts DEF StorageInv, TextsInv
  <2> QED
    BY <1>3, <2>1, <2>3, <2>4, <2>5 DEF TextsInv
<1>8. HeldInv'
  <2>1. IsFiniteSet(held) /\ event \notin held
    BY DEF StorageInv, HeldInv
  <2>2. IsFiniteSet(held') /\ Cardinality(held') = Cardinality(held) + 1 /\ Cardinality(held) \in Nat
    BY <1>1, <2>1, FS_AddElement, FS_CardinalityType
  <2>3. Cardinality(held') <= MaxHeld
    BY <1>1, <2>2, MaxHeldAssumption
  <2>4. event' \notin held'
    BY <1>3, <1>4, NoEventFacts
  <2> QED
    BY <1>4, <2>2, <2>3, <2>4 DEF HeldInv
<1>9. NamesInv'
  <2>1. \A e \in Events : e.name \in Place("atom")'
    BY <1>5 DEF StorageInv, NamesInv, Place
  <2>2. \A e, f \in Events : e.name # None /\ e # f => e.name # f.name
    BY DEF StorageInv, NamesInv, Events
  <2> QED
    BY <1>3, <1>4, <2>1, <2>2, NoEventFacts DEF NamesInv, Place
<1>10. NoPath'
  BY <1>3 DEF NoPath, NoList, ClistNew
<1>11. ListInv'
  BY <1>10, NoListNext
<1>12. Shape'
  <2>1. Bare'
    BY <1>3 DEF Bare, NoEvent
  <2>2. cmd' \in (Commands \cup {"none"}) /\ at' \in Points
    BY <1>3 DEF Points
  <2> QED
    BY <1>3, <1>10, <2>1, <2>2 DEF Shape, FreedOnce
<1> QED
  BY <1>5, <1>7, <1>8, <1>9, <1>11, <1>12 DEF StorageInv

-----------------------------------------------------------------------------
\* Pools of blocks of H none of which is in U: what free_mem keeps.
Keeping(ps, H, U) ==
    /\ Stores(ps)
    /\ \A k \in Kinds : Objects(ps[k]) \subseteq Blocks[k] \cap H /\ Objects(ps[k]) \cap U = {}

AllPooled(ps) == UNION {Objects(ps[k]) : k \in Kinds}

LEMMA GiveKeeping ==
    ASSUME NEW ps, NEW H, NEW U, NEW k \in Kinds, NEW b, Keeping(ps, H, U), b \in U,
           b \in (Blocks[k] \cap H) \cup {None}
    PROVE  /\ Keeping(Give(ps, k, b), H, U \ Set(b))
           /\ AllPooled(Give(ps, k, b)) = AllPooled(ps) \cup Set(b)
<1>1. b \in Nat
  BY BlockFacts DEF None
<1>2. Stores(ps) /\ b \notin Objects(ps[k])
  BY DEF Keeping
<1>3. /\ Stores(Give(ps, k, b))
      /\ Objects(Give(ps, k, b)[k]) = Objects(ps[k]) \cup Set(b)
      /\ \A j \in Kinds \ {k} : Give(ps, k, b)[j] = ps[j]
  BY <1>1, <1>2, GiveStores
<1>4. Set(b) \subseteq Blocks[k] \cap H
  BY DEF Set
<1>5. ASSUME NEW j \in Kinds
      PROVE  /\ Objects(Give(ps, k, b)[j]) \subseteq Blocks[j] \cap H
             /\ Objects(Give(ps, k, b)[j]) \cap (U \ Set(b)) = {}
  <2>1. CASE j = k
    BY <1>3, <1>4, <2>1 DEF Keeping
  <2>2. CASE j # k
    BY <1>3, <2>2 DEF Keeping
  <2> QED
    BY <2>1, <2>2
<1>6. AllPooled(Give(ps, k, b)) = AllPooled(ps) \cup Set(b)
  <2>1. ASSUME NEW x \in AllPooled(Give(ps, k, b)) PROVE x \in AllPooled(ps) \cup Set(b)
    <3>1. PICK j \in Kinds : x \in Objects(Give(ps, k, b)[j])
      BY DEF AllPooled
    <3> QED
      BY <1>3, <3>1 DEF AllPooled
  <2>2. ASSUME NEW x \in AllPooled(ps) PROVE x \in AllPooled(Give(ps, k, b))
    <3>1. PICK j \in Kinds : x \in Objects(ps[j])
      BY DEF AllPooled
    <3>2. x \in Objects(Give(ps, k, b)[j])
      BY <1>3, <3>1
    <3> QED
      BY <3>2 DEF AllPooled
  <2>3. Set(b) \subseteq AllPooled(Give(ps, k, b))
    BY <1>3 DEF AllPooled
  <2> QED
    BY <2>1, <2>2, <2>3
<1> QED
  BY <1>3, <1>5, <1>6 DEF Keeping

LEMMA PoolsKeeping == ASSUME StorageInv PROVE Keeping(pools, heap, InUse)
BY DEF StorageInv, PoolsInv, Keeping, Pooled, Objects, Mem

LEMMA KeepingPools ==
    ASSUME NEW V, Keeping(pools', heap, V), InUse' \subseteq V \cup {None},
           \A k \in Kinds : Mem(k) \subseteq Mem(k)'
    PROVE  PoolsInv'
<1>1. Stores(pools')
  BY DEF Keeping
<1>2. \A k \in Kinds : None \notin Objects(pools'[k])
  BY <1>1, NoneOutside DEF Stores
<1>3. ASSUME NEW k \in Kinds PROVE Pooled(k)' \subseteq Mem(k)' /\ Pooled(k)' \cap InUse' = {}
  <2>1. Pooled(k)' = Objects(pools'[k])
    BY DEF Pooled, Objects
  <2>2. Objects(pools'[k]) \subseteq Mem(k) /\ Objects(pools'[k]) \cap V = {}
    BY DEF Keeping, Mem
  <2> QED
    BY <1>2, <2>1, <2>2
<1> QED
  BY <1>1, <1>3 DEF PoolsInv

\* Nodes are no texts.
LEMMA Apart ==
    ASSUME StorageInv
    PROVE  /\ \A e \in Events : Set(e.node) \subseteq Blocks["event"] /\ Set(e.text) \cap Blocks["event"] = {}
           /\ Set(helo_name) \cap Blocks["event"] = {} /\ Set(text) \cap Blocks["event"] = {}
<1>1. \A k \in {"string", "address"} : Blocks[k] \cap Blocks["event"] = {}
  BY BlockFacts
<1>2. TextKind \in {"string", "address"}
  BY DEF TextKind
<1> QED
  BY <1>1, <1>2 DEF StorageInv, TextsInv, Place, Mem, Set

\* What is in use when a command has returned.
LEMMA InUseReturned ==
    ASSUME Return, held' = held
    PROVE  \A b \in InUse' : b \in {helo_name', None} \/ \E e \in held : b \in {e.node, e.text}
<1>1. event' = NoEvent /\ text' = None
  BY DEF Return
<1> QED
  BY <1>1, NoEventFacts DEF InUse

LEMMA GreetingGiven ==
    ASSUME StorageInv, pools' = Give(Give(pools, "string", helo_name), "event", event.node)
    PROVE  /\ Keeping(pools', heap, (InUse \ Set(helo_name)) \ Set(event.node))
           /\ AllPooled(pools') = AllPooled(pools) \cup Set(helo_name) \cup Set(event.node)
<1>1. PICK ks, ke \in Kinds : ks = "string" /\ ke = "event"
  BY DEF Kinds
<1>2. helo_name \in InUse /\ event.node \in InUse /\ event \in Events
  BY DEF InUse, Events
<1>3. /\ helo_name \in (Blocks[ks] \cap heap) \cup {None}
      /\ event.node \in (Blocks[ke] \cap heap) \cup {None}
  BY <1>1, <1>2 DEF StorageInv, TextsInv, Place, Mem
<1> PICK U1, ps : U1 = InUse \ Set(helo_name) /\ ps = Give(pools, ks, helo_name)
  OBVIOUS
<1>4. Keeping(ps, heap, U1) /\ AllPooled(ps) = AllPooled(pools) \cup Set(helo_name)
  BY <1>2, <1>3, PoolsKeeping, GiveKeeping
<1>5. event.node \in U1
  BY <1>2, Apart DEF Set
<1>6. pools' = Give(ps, ke, event.node)
  BY <1>1
<1>7. /\ Keeping(pools', heap, U1 \ Set(event.node))
      /\ AllPooled(pools') = AllPooled(ps) \cup Set(event.node)
  BY <1>3, <1>4, <1>5, <1>6, GiveKeeping
<1> QED
  BY <1>4, <1>7

LEMMA FreeHeloKeeps == ASSUME StorageInv, FreeHelo PROVE StorageInv'
<1> PICK qn, qe : /\ qn = SetToSeq(Set(name))
                  /\ qe = IF cmd = "HELO" THEN SetToSeq(Set(event.name)) ELSE <<>>
  OBVIOUS
<1>1. /\ at = "free" /\ cmd \in Greetings /\ held' = held
      /\ Leave(qn \o qe, Give(Give(pools, "string", helo_name), "event", event.node))
      /\ helo_name' = (IF at' = "undefined" THEN helo_name ELSE None)
  BY DEF FreeHelo
<1>2. /\ name \in Place("atom") /\ \A e \in Events : e.name \in Place("atom")
      /\ \A e \in held : e.name # None => e.name # name /\ e.name # event.name
  BY DEF StorageInv, NamesInv, Events, HeldInv
<1>3. Set(name) \subseteq Mem("atom") /\ Set(event.name) \subseteq Mem("atom")
  BY <1>2 DEF Place, Set, Events
<1>4. /\ qn \in Seq(Nat) /\ ToSet(qn) = Set(name) /\ IsInjective(qn)
      /\ qe \in Seq(Nat) /\ ToSet(qe) \subseteq Set(event.name) /\ IsInjective(qe)
  <2>1. /\ IsFiniteSet(Set(name)) /\ Set(name) \subseteq Nat
        /\ IsFiniteSet(Set(event.name)) /\ Set(event.name) \subseteq Nat
    BY <1>3, BlockFacts, FS_Subset DEF Mem
  <2>2. qn \in Seq(Nat) /\ ToSet(qn) = Set(name) /\ IsInjective(qn)
    BY <2>1, SetBlocks
  <2>3. CASE cmd = "HELO"
    BY <2>1, <2>2, <2>3, SetBlocks
  <2>4. CASE cmd # "HELO"
    <3>1. qe = <<>>
      BY <2>4
    <3>2. qe \in Seq(Nat) /\ ToSet(qe) = {} /\ IsInjective(qe)
      BY <3>1, NothingFreed
    <3> QED
      BY <2>2, <3>2
  <2> QED
    BY <2>3, <2>4
<1>5. /\ qn \o qe \in Seq(Nat) /\ ToSet(qn \o qe) = ToSet(qn) \cup ToSet(qe)
      /\ ToSet(qn) \cap ToSet(qe) = {} => IsInjective(qn \o qe)
  BY <1>4, ConcatSet
<1>6. CASE ~IsInjective(qn \o qe)
  <2>1. Undefined /\ at' = "undefined"
    BY <1>1, <1>6 DEF Leave, Undefined
  <2>2. event.name # None
    BY <1>4, <1>5, <1>6 DEF Set
  <2>3. cmd = "HELO"
    <3> SUFFICES ASSUME cmd # "HELO" PROVE FALSE
      OBVIOUS
    <3>1. ToSet(qe) = {}
      BY DEF ToSet
    <3> QED
      BY <1>5, <1>6, <3>1
  <2>4. UNCHANGED session
    BY <1>1, <2>1 DEF session
  <2> QED
    BY <2>1, <2>2, <2>3, <2>4, Undone
<1>7. CASE IsInjective(qn \o qe)
  <2>1. /\ heap' = heap \ ToSet(qn \o qe) /\ Return
        /\ pools' = Give(Give(pools, "string", helo_name), "event", event.node)
    BY <1>1, <1>7 DEF Leave
  <2>2. at' = "idle" /\ helo_name' = None
    BY <1>1, <2>1 DEF Return
  <2>3. "atom" \in BlockKinds /\ \A k \in Kinds : k \in BlockKinds \ {"atom"}
    BY BlockFacts
  <2>4. ToSet(qn \o qe) \subseteq Set(name) \cup Set(event.name)
    BY <1>4, <1>5
  <2>5. /\ Mem("atom")' = Mem("atom") \ ToSet(qn \o qe) /\ HeapInv'
        /\ \A k \in Kinds : Mem(k) \subseteq Mem(k)'
    <3>1. ToSet(qn \o qe) \subseteq Blocks["atom"]
      BY <1>3, <2>4 DEF Mem
    <3> QED
      BY <2>1, <2>3, <3>1, Shrinks DEF StorageInv
  <2>6. \A e \in held : e.name \in Place("atom")'
    BY <1>2, <2>4, <2>5 DEF Place, Set, Events
  <2>7. PoolsInv'
    <3>2. event \in Events
      BY DEF Events
    <3>6. Keeping(pools', heap, (InUse \ Set(helo_name)) \ Set(event.node))
      BY <2>1, GreetingGiven
    <3>7. \A e \in held : /\ e \in Events /\ e.node \in InUse /\ e.text \in InUse
                          /\ e.node # event.node /\ (helo_name # None => e.text # helo_name)
      BY DEF StorageInv, TextsInv, HeldInv, Events, InUse
    <3>8. InUse' \subseteq ((InUse \ Set(helo_name)) \ Set(event.node)) \cup {None}
      <4> SUFFICES ASSUME NEW b \in InUse', b # None
                   PROVE  b \in InUse /\ b \notin Set(helo_name) /\ b \notin Set(event.node)
        OBVIOUS
      <4>1. PICK e \in held : b \in {e.node, e.text}
        BY <1>1, <2>1, <2>2, InUseReturned
      <4>2. CASE b = e.node
        BY <3>7, <4>2, Apart DEF Set
      <4>3. CASE b = e.text
        BY <3>2, <3>7, <4>3, Apart DEF Set
      <4> QED
        BY <4>1, <4>2, <4>3
    <3> QED
      BY <2>5, <3>6, <3>8, KeepingPools
  <2>8. TextsInv' /\ HeldInv' /\ NamesInv' /\ ListInv' /\ Shape'
    BY <1>1, <2>1, <2>2, <2>5, <2>6, Returned
  <2> QED
    BY <2>5, <2>7, <2>8 DEF StorageInv
<1> QED
  BY <1>6, <1>7

LEMMA TextGiven ==
    ASSUME StorageInv, pools' = GiveEvent(Give(pools, TextKind, text), event)
    PROVE  /\ Keeping(pools', heap, ((InUse \ Set(text)) \ Set(event.text)) \ Set(event.node))
           /\ AllPooled(pools') = AllPooled(pools) \cup Set(text) \cup Set(event.text) \cup Set(event.node)
<1>1. PICK kt, ks, ke \in Kinds : kt = TextKind /\ ks = event.kind /\ ke = "event"
  BY DEF Kinds, StorageInv, TextsInv, TextKind, Events
<1>2. text \in InUse /\ event.node \in InUse /\ event.text \in InUse /\ event \in Events
  BY DEF InUse, Events
<1>3. /\ text \in (Blocks[kt] \cap heap) \cup {None}
      /\ event.text \in (Blocks[ks] \cap heap) \cup {None}
      /\ event.node \in (Blocks[ke] \cap heap) \cup {None}
  BY <1>1, <1>2 DEF StorageInv, TextsInv, Place, Mem
<1> PICK U1, p1 : U1 = InUse \ Set(text) /\ p1 = Give(pools, kt, text)
  OBVIOUS
<1> PICK U2, p2 : U2 = U1 \ Set(event.text) /\ p2 = Give(p1, ks, event.text)
  OBVIOUS
<1>4. Keeping(p1, heap, U1) /\ AllPooled(p1) = AllPooled(pools) \cup Set(text)
  BY <1>2, <1>3, PoolsKeeping, GiveKeeping
<1>5. event.text \in U1
  BY <1>2 DEF Set, StorageInv, TextsInv
<1>6. Keeping(p2, heap, U2) /\ AllPooled(p2) = AllPooled(p1) \cup Set(event.text)
  BY <1>3, <1>4, <1>5, GiveKeeping
<1>7. event.node \in U2
  BY <1>2, Apart DEF Set
<1>8. pools' = Give(p2, ke, event.node)
  BY <1>1 DEF GiveEvent
<1>9. /\ Keeping(pools', heap, U2 \ Set(event.node))
      /\ AllPooled(pools') = AllPooled(p2) \cup Set(event.node)
  BY <1>3, <1>6, <1>7, <1>8, GiveKeeping
<1> QED
  BY <1>4, <1>6, <1>9

LEMMA FreeTextKeeps == ASSUME StorageInv, FreeText PROVE StorageInv'
<1>1. /\ at = "free" /\ cmd \in Logins \cup Paths /\ held' = held /\ helo_name' = helo_name
      /\ Leave(<<>>, GiveEvent(Give(pools, TextKind, text), event))
  <2>1. TextKind = IF cmd \in Paths THEN "address" ELSE "string"
    BY DEF TextKind
  <2> QED
    BY <2>1 DEF FreeText, session
<1>2. name = None /\ event.name = None
  <2>1. cmd \notin Greetings
    BY <1>1 DEF Logins, Paths, Greetings
  <2> QED
    BY <1>1, <2>1 DEF StorageInv, Shape
<1>3. heap' = heap /\ Return /\ pools' = GiveEvent(Give(pools, TextKind, text), event)
  BY <1>1, NothingFreed DEF Leave
<1>4. HeapInv' /\ \A k \in BlockKinds : Mem(k)' = Mem(k)
  BY <1>3, Stays DEF StorageInv
<1>5. \A k \in Kinds : Mem(k) \subseteq Mem(k)'
  BY <1>4, BlockFacts
<1>6. \A e \in held : e.name \in Place("atom")'
  BY <1>4, BlockFacts DEF StorageInv, NamesInv, Place, Events
<1>7. PoolsInv'
  <2> PICK U3 : U3 = ((InUse \ Set(text)) \ Set(event.text)) \ Set(event.node)
    OBVIOUS
  <2>2. event \in Events
    BY DEF Events
  <2>9. Keeping(pools', heap, U3)
    BY <1>3, TextGiven
  <2>10. \A e \in held : /\ e \in Events /\ e.node \in InUse /\ e.text \in InUse
                         /\ e.node # event.node /\ (text # None => e.text # text)
                         /\ (event.text # None => e.text # event.text)
    BY DEF StorageInv, TextsInv, HeldInv, Events, InUse
  <2>11. InUse' \subseteq U3 \cup {None}
    <3> SUFFICES ASSUME NEW b \in InUse', b # None
                 PROVE  b \in InUse /\ b \notin Set(text) /\ b \notin Set(event.text) /\ b \notin Set(event.node)
      OBVIOUS
    <3>1. CASE b = helo_name
      <4>1. b \in InUse /\ b # text /\ b # event.text
        BY <2>2, <3>1 DEF InUse, StorageInv, TextsInv
      <4> QED
        BY <2>2, <3>1, <4>1, Apart DEF Set
    <3>2. ASSUME NEW e \in held, b = e.node PROVE b \in InUse /\ b \notin Set(text) /\ b \notin Set(event.text) /\ b \notin Set(event.node)
      BY <2>2, <2>10, <3>2, Apart DEF Set
    <3>3. ASSUME NEW e \in held, b = e.text PROVE b \in InUse /\ b \notin Set(text) /\ b \notin Set(event.text) /\ b \notin Set(event.node)
      BY <2>2, <2>10, <3>3, Apart DEF Set
    <3> QED
      BY <1>1, <1>3, <3>1, <3>2, <3>3, InUseReturned
  <2> QED
    BY <1>5, <2>9, <2>11, KeepingPools
<1>8. TextsInv' /\ HeldInv' /\ NamesInv' /\ ListInv' /\ Shape'
  BY <1>1, <1>3, <1>5, <1>6, Returned
<1> QED
  BY <1>4, <1>7, <1>8 DEF StorageInv

-----------------------------------------------------------------------------
\* Between two commands.
LEMMA IdleKeeps ==
    ASSUME StorageInv, at = "idle", UNCHANGED <<cmd, at, name, text, event, path>>,
           held' \subseteq held, helo_name' \in {helo_name, None}, HeapInv', PoolsInv',
           \A k \in Kinds : Mem(k) \subseteq Mem(k)', Mem("list") \subseteq Mem("list")',
           \A e \in held' : e.name \in Place("atom")'
    PROVE  StorageInv'
<1>1. cmd = "none" /\ name = None /\ text = None /\ event = NoEvent /\ NoPath
  BY DEF StorageInv, Shape, Bare
<1>2. Events' = held' \cup {NoEvent} /\ event' = NoEvent /\ Events' \subseteq Events
  BY <1>1 DEF Events
<1>3. \A k \in Kinds : Place(k) \subseteq Place(k)'
  BY DEF Place
<1>4. TextsInv'
  <2>1. helo_name' \in Place("string")' /\ text' \in Place(TextKind)'
    BY <1>1, <1>3 DEF StorageInv, TextsInv, Place, Kinds
  <2>2. \A e \in Events : /\ e.node \in Place("event")' /\ e.kind \in {"string", "address"}
                          /\ e.text \in Place(e.kind)'
    BY <1>3 DEF StorageInv, TextsInv, Kinds
  <2>3. \A e \in Events' : /\ e.node \in Place("event")' /\ e.kind \in {"string", "address"}
                           /\ e.text \in Place(e.kind)'
    BY <1>2, <2>2
  <2>4. helo_name' # None => helo_name' # text' /\ \A e \in Events' : e.text # helo_name'
    BY <1>2 DEF StorageInv, TextsInv
  <2>5. \A e, f \in Events' : e # f => e.node # f.node /\ (e.text # None => e.text # f.text)
    BY <1>2 DEF StorageInv, TextsInv
  <2> QED
    BY <1>1, <2>1, <2>3, <2>4, <2>5 DEF TextsInv
<1>5. HeldInv'
  <2>1. IsFiniteSet(held) /\ Cardinality(held) <= MaxHeld /\ event \notin held
        /\ \A e \in held : e.node # None
    BY DEF StorageInv, HeldInv
  <2>2. IsFiniteSet(held') /\ Cardinality(held') <= Cardinality(held)
        /\ Cardinality(held') \in Nat /\ Cardinality(held) \in Nat
    BY <2>1, FS_Subset, FS_CardinalityType
  <2>3. Cardinality(held') <= MaxHeld
    BY <2>1, <2>2, MaxHeldAssumption
  <2> QED
    BY <2>1, <2>2, <2>3 DEF HeldInv
<1>6. NamesInv'
  <2>1. \A e \in Events' : e.name \in Place("atom")'
    BY <1>2, NoEventFacts DEF Place
  <2>2. \A e \in held' : e.name # None => \A f \in Events' : e # f => e.name # f.name
    BY <1>2 DEF StorageInv, NamesInv
  <2> QED
    BY <1>1, <2>1, <2>2 DEF NamesInv, Place
<1>7. ListInv'
  BY ListKept DEF StorageInv
<1>8. Shape'
  <2>1. Bare' /\ NoPath' /\ cmd' = "none" /\ at' = "idle"
    BY <1>1, NoPathStays DEF Bare, NoEvent
  <2>2. at' \in Points /\ cmd' \in Commands \cup {"none"}
    BY <2>1 DEF Points
  <2> QED
    BY <2>1, <2>2 DEF Shape, FreedOnce
<1> QED
  BY <1>4, <1>5, <1>6, <1>7, <1>8 DEF StorageInv

LEMMA InUseIdle ==
    ASSUME StorageInv, at = "idle", UNCHANGED <<text, event>>
    PROVE  \A b \in InUse' : b \in {helo_name', None} \/ \E e \in held' : b \in {e.node, e.text}
<1>1. event' = NoEvent /\ text' = None
  BY DEF StorageInv, Shape, Bare
<1> QED
  BY <1>1, NoEventFacts DEF InUse

LEMMA HeloGiven ==
    ASSUME StorageInv
    PROVE  /\ Keeping(Give(pools, "string", helo_name), heap, InUse \ Set(helo_name))
           /\ AllPooled(Give(pools, "string", helo_name)) = AllPooled(pools) \cup Set(helo_name)
<1>1. PICK ks \in Kinds : ks = "string"
  BY DEF Kinds
<1>2. helo_name \in InUse /\ helo_name \in (Blocks[ks] \cap heap) \cup {None}
  BY <1>1 DEF InUse, StorageInv, TextsInv, Place, Mem
<1> QED
  BY <1>1, <1>2, PoolsKeeping, GiveKeeping

LEMMA HeloResetKeeps == ASSUME StorageInv, HeloReset PROVE StorageInv'
<1>1. /\ at = "idle" /\ helo_name # None /\ helo_name' = None
      /\ pools' = Give(pools, "string", helo_name)
      /\ UNCHANGED <<heap, held, cmd, at, name, text, event, path>>
  BY DEF HeloReset
<1>2. HeapInv' /\ \A k \in BlockKinds : Mem(k)' = Mem(k)
  BY <1>1, Stays DEF StorageInv
<1>3. (\A k \in Kinds : Mem(k) \subseteq Mem(k)') /\ Mem("list") \subseteq Mem("list")'
  BY <1>2, BlockFacts
<1>4. \A e \in held' : e.name \in Place("atom")'
  BY <1>1, <1>2, BlockFacts DEF StorageInv, NamesInv, Place, Events
<1>5. PoolsInv'
  <2>3. Keeping(pools', heap, InUse \ Set(helo_name))
    BY <1>1, HeloGiven
  <2>4. \A e \in held : /\ e \in Events /\ e.node \in InUse /\ e.text \in InUse /\ e.text # helo_name
    BY <1>1 DEF StorageInv, TextsInv, Events, InUse
  <2>5. InUse' \subseteq (InUse \ Set(helo_name)) \cup {None}
    <3> SUFFICES ASSUME NEW b \in InUse', b # None PROVE b \in InUse /\ b \notin Set(helo_name)
      OBVIOUS
    <3>1. PICK e \in held : b \in {e.node, e.text}
      BY <1>1, InUseIdle
    <3> QED
      BY <2>4, <3>1, Apart DEF Set
  <2> QED
    BY <1>3, <2>3, <2>5, KeepingPools
<1> QED
  BY <1>1, <1>2, <1>3, <1>4, <1>5, IdleKeeps

LEMMA EventGiven ==
    ASSUME StorageInv, NEW e \in held, pools' = GiveEvent(pools, e)
    PROVE  /\ Keeping(pools', heap, (InUse \ Set(e.text)) \ Set(e.node))
           /\ AllPooled(pools') = AllPooled(pools) \cup Set(e.text) \cup Set(e.node)
<1>1. e \in Events /\ e.node \in InUse /\ e.text \in InUse
  BY DEF Events, InUse
<1>2. PICK ks, ke \in Kinds : ks = e.kind /\ ke = "event"
  BY <1>1 DEF Kinds, StorageInv, TextsInv
<1>3. /\ e.text \in (Blocks[ks] \cap heap) \cup {None}
      /\ e.node \in (Blocks[ke] \cap heap) \cup {None}
  BY <1>1, <1>2 DEF StorageInv, TextsInv, Place, Mem
<1> PICK U1, ps : U1 = InUse \ Set(e.text) /\ ps = Give(pools, ks, e.text)
  OBVIOUS
<1>4. Keeping(ps, heap, U1) /\ AllPooled(ps) = AllPooled(pools) \cup Set(e.text)
  BY <1>1, <1>3, PoolsKeeping, GiveKeeping
<1>5. e.node \in U1
  BY <1>1, Apart DEF Set
<1>6. pools' = Give(ps, ke, e.node)
  BY <1>2 DEF GiveEvent
<1>7. /\ Keeping(pools', heap, U1 \ Set(e.node))
      /\ AllPooled(pools') = AllPooled(ps) \cup Set(e.node)
  BY <1>3, <1>4, <1>5, <1>6, GiveKeeping
<1> QED
  BY <1>4, <1>7

LEMMA ReleaseKeeps == ASSUME StorageInv, Release PROVE StorageInv'
<1>1. /\ at = "idle" /\ UNCHANGED <<helo_name, cmd, at, name, text, event, path>>
  BY DEF Release
<1>2. PICK e \in held : held' = held \ {e} /\ heap' = heap \ Set(e.name) /\ pools' = GiveEvent(pools, e)
  BY DEF Release
<1>3. e \in Events /\ e.node \in InUse /\ e.text \in InUse /\ e.node # None
  BY DEF Events, InUse, StorageInv, HeldInv
<1>4. /\ HeapInv' /\ Mem("atom")' = Mem("atom") \ Set(e.name)
      /\ \A k \in BlockKinds \ {"atom"} : Mem(k)' = Mem(k)
  <2>1. Set(e.name) \subseteq Blocks["atom"] /\ "atom" \in BlockKinds
    BY <1>3, BlockFacts DEF StorageInv, NamesInv, Place, Mem, Set
  <2> QED
    BY <1>2, <2>1, Shrinks DEF StorageInv
<1>5. (\A k \in Kinds : Mem(k) \subseteq Mem(k)') /\ Mem("list") \subseteq Mem("list")'
  BY <1>4, BlockFacts
<1>6. \A f \in held' : f.name \in Place("atom")'
  <2> SUFFICES ASSUME NEW f \in held, f # e PROVE f.name \in Place("atom")'
    BY <1>2
  <2>1. f.name \in Place("atom") /\ (e.name # None => e.name # f.name)
    BY DEF StorageInv, NamesInv, Events
  <2> QED
    BY <1>4, <2>1 DEF Place, Set
<1>7. PoolsInv'
  <2> PICK U2 : U2 = (InUse \ Set(e.text)) \ Set(e.node)
    OBVIOUS
  <2>5. Keeping(pools', heap, U2)
    BY <1>2, EventGiven
  <2>6. \A f \in held' : /\ f \in Events /\ f.node \in InUse /\ f.text \in InUse
                         /\ f.node # e.node /\ (e.text # None => f.text # e.text)
    BY <1>2, <1>3 DEF StorageInv, TextsInv, Events, InUse
  <2>7. InUse' \subseteq U2 \cup {None}
    <3> SUFFICES ASSUME NEW b \in InUse', b # None
                 PROVE  b \in InUse /\ b \notin Set(e.text) /\ b \notin Set(e.node)
      OBVIOUS
    <3>1. CASE b = helo_name
      <4>1. b \in InUse /\ b # e.text
        BY <1>3, <3>1 DEF InUse, StorageInv, TextsInv
      <4> QED
        BY <1>3, <3>1, <4>1, Apart DEF Set
    <3>2. ASSUME NEW f \in held', b = f.node PROVE b \in InUse /\ b \notin Set(e.text) /\ b \notin Set(e.node)
      BY <1>3, <2>6, <3>2, Apart DEF Set
    <3>3. ASSUME NEW f \in held', b = f.text PROVE b \in InUse /\ b \notin Set(e.text) /\ b \notin Set(e.node)
      BY <1>3, <2>6, <3>3, Apart DEF Set
    <3> QED
      BY <1>1, <3>1, <3>2, <3>3, InUseIdle
  <2> QED
    BY <1>5, <2>5, <2>7, KeepingPools
<1> QED
  BY <1>1, <1>2, <1>4, <1>5, <1>6, <1>7, IdleKeeps

LEMMA AllGiven ==
    ASSUME StorageInv, pools' = GiveEvents(Give(pools, "string", helo_name), SetToSeq(held))
    PROVE  /\ Stores(pools')
           /\ \A k \in Kinds : Objects(pools'[k]) \subseteq Mem(k)
           /\ AllPooled(pools') = AllPooled(pools) \cup Set(helo_name)
                                 \cup UNION {Set(e.text) \cup Set(e.node) : e \in held}
<1> PICK ps, es : ps = Give(pools, "string", helo_name) /\ es = SetToSeq(held)
  OBVIOUS
<1>1. Keeping(ps, heap, InUse \ Set(helo_name))
  BY HeloGiven
<1>2. /\ Len(es) \in Nat /\ \A i \in 1..Len(es) : es[i] \in held
      /\ \A i, j \in 1..Len(es) : es[i] = es[j] => i = j
  BY SetSequence DEF StorageInv, HeldInv
<1>3. \A e \in held : \A k \in Kinds :
         /\ Gift(e, k) \subseteq Blocks[k] \cap heap
         /\ Gift(e, k) \subseteq InUse \ Set(helo_name)
         /\ IsEvent(e)
  <2> TAKE e \in held
  <2> TAKE k \in Kinds
  <2>1. /\ e \in Events /\ e.node \in InUse /\ e.text \in InUse
        /\ e.node \in Place("event") /\ e.kind \in {"string", "address"} /\ e.text \in Place(e.kind)
        /\ (helo_name # None => e.text # helo_name)
    BY DEF StorageInv, TextsInv, Events, InUse
  <2>2. e.node \notin Set(helo_name) /\ Set(e.text) \cap Set(helo_name) = {}
    BY <2>1, Apart DEF Set
  <2>3. Gift(e, k) \subseteq Blocks[k] \cap heap
    BY <2>1 DEF Gift, Place, Mem, Set
  <2>4. Gift(e, k) \subseteq InUse \ Set(helo_name)
    BY <2>1, <2>2, Apart DEF Gift, Set
  <2>5. IsEvent(e)
    BY <2>1, BlockFacts DEF IsEvent, Place, Mem, None
  <2> QED
    BY <2>3, <2>4, <2>5
<1>4. \A e, f \in held : \A k \in Kinds : e # f => Gift(e, k) \cap Gift(f, k) = {}
  <2> TAKE e, f \in held
  <2> TAKE k \in Kinds
  <2> HAVE e # f
  <2>1. e.node # f.node /\ (e.text # None => e.text # f.text)
    BY DEF StorageInv, TextsInv, Events
  <2>2. Set(e.node) \cap Set(f.node) = {} /\ Set(e.text) \cap Set(f.text) = {}
    BY <2>1 DEF Set
  <2>3. e.kind # "event" /\ f.kind # "event"
    BY DEF StorageInv, TextsInv, Events
  <2> QED
    BY <2>2, <2>3 DEF Gift
<1>5. /\ Stores(pools')
      /\ \A k \in Kinds : Objects(pools'[k]) = Objects(ps[k]) \cup Gifts(es, k, Len(es))
  <2>1. Stores(ps) /\ \A i \in 1..Len(es) : IsEvent(es[i])
    BY <1>1, <1>2, <1>3 DEF Keeping, Kinds
  <2>2. ASSUME NEW k \in Kinds, NEW i \in 1..Len(es)
        PROVE  /\ Gift(es[i], k) \cap Objects(ps[k]) = {}
               /\ \A j \in 1..Len(es) : i # j => Gift(es[i], k) \cap Gift(es[j], k) = {}
    <3>1. Gift(es[i], k) \cap Objects(ps[k]) = {}
      BY <1>1, <1>2, <1>3 DEF Keeping
    <3> QED
      BY <1>2, <1>4, <3>1
  <2>3. PICK p : p = GiveEvents(ps, es)
    OBVIOUS
  <2>4. /\ Stores(p)
        /\ \A k \in Kinds : Objects(p[k]) = Objects(ps[k]) \cup Gifts(es, k, Len(es))
    BY <1>2, <2>1, <2>2, <2>3, GiveEventsStores
  <2> QED
    BY <2>3, <2>4
<1>6. ASSUME NEW k \in Kinds PROVE Objects(pools'[k]) \subseteq Mem(k)
  <2>1. Gifts(es, k, Len(es)) \subseteq Mem(k)
    BY <1>2, <1>3 DEF Gifts, Mem
  <2>2. Objects(ps[k]) \subseteq Mem(k)
    BY <1>1 DEF Keeping, Mem
  <2> QED
    BY <1>5, <2>1, <2>2
<1>7. AllPooled(pools') = AllPooled(ps) \cup UNION {Set(e.text) \cup Set(e.node) : e \in held}
  <2>1. ASSUME NEW x \in AllPooled(pools')
        PROVE  x \in AllPooled(ps) \cup UNION {Set(e.text) \cup Set(e.node) : e \in held}
    <3>1. PICK k \in Kinds : x \in Objects(ps[k]) \cup Gifts(es, k, Len(es))
      BY <1>5 DEF AllPooled
    <3>2. CASE x \in Gifts(es, k, Len(es))
      <4>1. PICK i \in 1..Len(es) : x \in Gift(es[i], k)
        BY <3>2 DEF Gifts
      <4> QED
        BY <1>2, <4>1 DEF Gift
    <3> QED
      BY <3>1, <3>2 DEF AllPooled
  <2>2. ASSUME NEW x \in AllPooled(ps) PROVE x \in AllPooled(pools')
    BY <1>5 DEF AllPooled
  <2>3. ASSUME NEW e \in held, NEW x \in Set(e.text) \cup Set(e.node) PROVE x \in AllPooled(pools')
    <3>1. PICK i \in 1..Len(es) : es[i] = e
      BY SetSequence DEF StorageInv, HeldInv
    <3>2. PICK k \in Kinds : x \in Gift(e, k)
      BY <2>3 DEF Gift, Kinds, StorageInv, TextsInv, Events
    <3>3. x \in Gifts(es, k, Len(es))
      BY <3>1, <3>2 DEF Gifts
    <3> QED
      BY <1>5, <3>3 DEF AllPooled
  <2> QED
    BY <2>1, <2>2, <2>3
<1>8. AllPooled(ps) = AllPooled(pools) \cup Set(helo_name)
  BY HeloGiven
<1> QED
  BY <1>5, <1>6, <1>7, <1>8

LEMMA CloseKeeps == ASSUME StorageInv, Close PROVE StorageInv'
<1>1. /\ at = "idle" /\ helo_name' = None /\ held' = {}
      /\ heap' = heap \ UNION {Set(e.name) : e \in held}
      /\ pools' = GiveEvents(Give(pools, "string", helo_name), SetToSeq(held))
      /\ UNCHANGED <<cmd, at, name, text, event, path>>
  BY DEF Close
<1>2. /\ HeapInv'
      /\ \A k \in BlockKinds \ {"atom"} : Mem(k)' = Mem(k)
  <2>1. UNION {Set(e.name) : e \in held} \subseteq Blocks["atom"] /\ "atom" \in BlockKinds
    BY BlockFacts DEF StorageInv, NamesInv, Place, Mem, Set, Events
  <2>2. PICK X : X = UNION {Set(e.name) : e \in held}
    OBVIOUS
  <2> QED
    BY <1>1, <2>1, <2>2, Shrinks DEF StorageInv
<1>3. (\A k \in Kinds : Mem(k)' = Mem(k)) /\ Mem("list") \subseteq Mem("list")'
  BY <1>2, BlockFacts
<1>4. PoolsInv'
  <2>7. /\ Stores(pools')
        /\ \A k \in Kinds : Objects(pools'[k]) \subseteq Mem(k)
    BY <1>1, AllGiven
  <2>8. InUse' = {None}
    BY <1>1, NoEventFacts DEF InUse, StorageInv, Shape, Bare
  <2>9. ASSUME NEW k \in Kinds PROVE Pooled(k)' \subseteq Mem(k)' /\ Pooled(k)' \cap InUse' = {}
    <3>1. Pooled(k)' = Objects(pools'[k])
      BY DEF Pooled, Objects
    <3>4. None \notin Mem(k)
      BY BlockFacts DEF Mem
    <3> QED
      BY <1>3, <2>7, <2>8, <3>1, <3>4
  <2> QED
    BY <2>7, <2>9 DEF PoolsInv
<1> QED
  BY <1>1, <1>2, <1>3, <1>4, IdleKeeps

-----------------------------------------------------------------------------
LEMMA InitStorage == Init => StorageInv
<1> SUFFICES ASSUME Init PROVE StorageInv
  OBVIOUS
<1>1. /\ heap = UNION {DOMAIN pools[k].next : k \in Kinds}
      /\ helo_name = None /\ held = {} /\ at = "idle" /\ cmd = "none"
      /\ name = None /\ text = None /\ event = NoEvent
      /\ list = NoList /\ value = None /\ mb_list = None /\ parsed = <<>>
      /\ pools = [k \in Kinds |-> pools[k]]
      /\ \A k \in Kinds : pools[k] \in Filled(EmptyPool, PoolLen, Blocks[k])
  BY DEF Init
<1>2. ASSUME NEW k \in Kinds PROVE Whole(pools[k]) /\ Pooled(k) \subseteq Blocks[k]
  <2>1. Blocks[k] \subseteq Nat \ {None} /\ PoolLen \in Nat
    BY BlockFacts, PoolLenAssumption
  <2> QED
    BY <1>1, <2>1, EmptyWhole, FilledWhole DEF Pooled, Objects
<1>3. HeapInv
  <2>1. \A k \in Kinds : Blocks[k] \in Range(Blocks)
    BY BlockFacts DEF Range
  <2> QED
    BY <1>1, <1>2, <2>1 DEF HeapInv, Pooled
<1>4. PoolsInv
  <2>1. InUse = {None}
    BY <1>1, NoEventFacts DEF InUse
  <2>2. \A k \in Kinds : None \notin Pooled(k) /\ Pooled(k) \subseteq heap
    BY <1>1, <1>2, NoneOutside DEF Pooled, Objects
  <2> QED
    BY <1>1, <1>2, <2>1, <2>2 DEF PoolsInv, Stores, Mem
<1>5. TextsInv /\ NamesInv
  BY <1>1, NoEventFacts DEF TextsInv, NamesInv, Events, Place
<1>6. HeldInv
  BY <1>1, MaxHeldAssumption, FS_EmptySet DEF HeldInv
<1>7. NoPath /\ ListInv
  BY <1>1, NoListInv DEF NoPath
<1>8. Shape
  BY <1>1, <1>7 DEF Shape, Bare, FreedOnce, Points
<1> QED
  BY <1>3, <1>4, <1>5, <1>6, <1>7, <1>8 DEF StorageInv

LEMMA StorageKept == StorageInv /\ [Next]_vars => StorageInv'
<1> SUFFICES ASSUME StorageInv, [Next]_vars PROVE StorageInv'
  OBVIOUS
<1>1. ASSUME NEW c \in Commands, HostName(c) PROVE StorageInv'
  BY <1>1, HostNameKeeps
<1>2. ASSUME NEW c \in Commands, Login(c) PROVE StorageInv'
  BY <1>2, LoginKeeps
<1>3. ASSUME NEW c \in Commands, FirstMailbox(c) PROVE StorageInv'
  BY <1>3, FirstMailboxKeeps
<1>4. CASE HeloName
  BY <1>4, HeloNameKeeps
<1>5. CASE NewList
  BY <1>5, NewListKeeps
<1>6. CASE AppendMailbox
  BY <1>6, AppendMailboxKeeps
<1>7. CASE NextMailbox
  BY <1>7, NextMailboxKeeps
<1>8. CASE LastMailbox
  BY <1>8, LastMailboxKeeps
<1>9. CASE FreeList
  BY <1>9, FreeListKeeps
<1>10. CASE Wrap
  BY <1>10, WrapKeeps
<1>11. CASE PathFails
  BY <1>11, PathFailsKeeps
<1>12. CASE PathAddress
  BY <1>12, PathAddressKeeps
<1>13. CASE Parameters
  BY <1>13, ParametersKeeps
<1>14. CASE NewEvent
  BY <1>14, NewEventKeeps
<1>15. CASE Analysed
  BY <1>15, AnalysedKeeps
<1>16. CASE EngineFails
  BY <1>16, EngineFailsKeeps
<1>17. CASE FreeHelo
  BY <1>17, FreeHeloKeeps
<1>18. CASE FreeText
  BY <1>18, FreeTextKeeps
<1>19. CASE Release
  BY <1>19, ReleaseKeeps
<1>20. CASE HeloReset
  BY <1>20, HeloResetKeeps
<1>21. CASE Close
  BY <1>21, CloseKeeps
<1>22. CASE UNCHANGED vars
  <2>1. UNCHANGED <<heap, pools, session, cmd, name, text, event, path>> /\ UNCHANGED at
    BY <1>22 DEF vars, session
  <2>2. Shape'
    BY <2>1 DEF StorageInv, Shape, Bare, NoPath, InPath, FreedOnce, NoList, NoEvent, ClistNew, path
  <2> QED
    BY <2>1, <2>2, PointKeeps
<1> QED
  BY <1>1, <1>2, <1>3, <1>4, <1>5, <1>6, <1>7, <1>8, <1>9, <1>10, <1>11, <1>12, <1>13, <1>14,
     <1>15, <1>16, <1>17, <1>18, <1>19, <1>20, <1>21, <1>22 DEF Next

LEMMA StorageAlways == Spec => []StorageInv
<1>1. Init => StorageInv
  BY InitStorage
<1>2. StorageInv /\ [Next]_vars => StorageInv'
  BY StorageKept
<1> QED
  BY <1>1, <1>2, PTL DEF Spec

-----------------------------------------------------------------------------
\* The state has its types: every name, text, mailbox and event the program
\* holds is memory that is allocated, whatever was refused before.
THEOREM StorageTypes == Spec => []TypeOK
<1>1. StorageInv => TypeOK
  <2> SUFFICES ASSUME StorageInv PROVE TypeOK
    OBVIOUS
  <2>1. heap \subseteq UNION Range(Blocks)
    BY DEF StorageInv, HeapInv
  <2>2. {helo_name, name, text, value, mb_list} \subseteq heap \cup {None}
    BY DEF StorageInv, TextsInv, NamesInv, ListInv, Place, Mem
  <2>3. at \in Points /\ cmd \in Commands \cup {"none"} /\ Cardinality(held) <= MaxHeld
    BY DEF StorageInv, Shape, HeldInv
  <2>4. \A e \in held \cup {event} : {e.node, e.name, e.text} \subseteq heap \cup {None}
    BY DEF StorageInv, TextsInv, NamesInv, Events, Place, Mem
  <2>5. \A kind \in Kinds : Pooled(kind) \subseteq heap
    BY DEF StorageInv, PoolsInv, Mem
  <2> QED
    BY <2>1, <2>2, <2>3, <2>4, <2>5 DEF TypeOK
<1> QED
  BY <1>1, StorageAlways, PTL

\* The pools stay whole (mem_pool.c:76-110): after any allocations, refusals and
\* frees each is a chain without repetition as long as its count, none shares an
\* object with another, and none holds an object that is in use.
THEOREM StoragePoolsSound == Spec => []PoolsSound
<1>1. StorageInv => PoolsSound
  <2> SUFFICES ASSUME StorageInv PROVE PoolsSound
    OBVIOUS
  <2>1. /\ \A k \in Kinds : Whole(pools[k])
        /\ \A k \in Kinds : Pooled(k) \subseteq Mem(k) /\ Pooled(k) \cap InUse = {}
    BY DEF StorageInv, PoolsInv, Stores
  <2>2. \A k \in Kinds : Sound(pools[k])
    BY <2>1, StackedSound
  <2>3. \A j, k \in Kinds : j # k => Pooled(j) \cap Pooled(k) = {}
    BY <2>1, BlockFacts DEF Mem
  <2> QED
    BY <2>1, <2>2, <2>3 DEF PoolsSound
<1> QED
  BY <1>1, StorageAlways, PTL

\* The list of a path (clist.c:137) has the mailboxes in the order of the text,
\* from either end, at every step of the parsing.
THEOREM StorageListInOrder == Spec => []ListInOrder
<1>1. StorageInv => ListInOrder
  BY HoldsInOrder DEF StorageInv, ListInv, ListInOrder
<1> QED
  BY <1>1, StorageAlways, PTL

\* Blocks are freed once and no NULL is read but where helo.re:360, user.re:200
\* and path.c:249 do it.
THEOREM StorageFreedOnce == Spec => []FreedOnce
<1>1. StorageInv => FreedOnce
  BY DEF StorageInv, Shape
<1> QED
  BY <1>1, StorageAlways, PTL

-----------------------------------------------------------------------------
(***************************************************************************)
(* What a step loses: of the blocks of heap' those that were known and are *)
(* known no more, and those that malloc gave and nobody kept.              *)
(***************************************************************************)
Owned(b, e) == b \in Set(e.name) \cup Set(e.text) \cup {e.node}

LEMMA KnownIs ==
    \A b : b \in Known <=> \/ b \in AllPooled(pools)
                           \/ b \in {helo_name, name, text, value, mb_list, list.at}
                           \/ b \in DOMAIN list.cells \/ b \in ToSet(parsed)
                           \/ \E e \in Events : Owned(b, e)
<1> PICK P, Q : /\ P = UNION {Pooled(k) : k \in Kinds}
                /\ Q = UNION {Texts(e) \cup {e.node} : e \in Events}
  OBVIOUS
<1>1. AllPooled(pools) = P
  BY DEF AllPooled, Objects, Pooled
<1>2. \A b : b \in Q <=> \E e \in Events : Owned(b, e)
  BY DEF Owned, Texts
<1>3. Known = P \cup {helo_name, name, text, value, mb_list, list.at}
          \cup DOMAIN list.cells \cup ToSet(parsed) \cup Q
  BY DEF Known, Events
<1>4. ASSUME NEW b
      PROVE  b \in Known <=> \/ b \in P
                            \/ b \in {helo_name, name, text, value, mb_list, list.at}
                            \/ b \in DOMAIN list.cells \/ b \in ToSet(parsed) \/ b \in Q
  BY <1>3
<1> QED
  BY <1>1, <1>2, <1>4

LEMMA KnownNext ==
    \A b : b \in Known' <=> \/ b \in AllPooled(pools')
                            \/ b \in {helo_name', name', text', value', mb_list', list'.at}
                            \/ b \in DOMAIN list'.cells \/ b \in ToSet(parsed')
                            \/ \E e \in Events' : Owned(b, e)
<1> PICK P, Q : /\ P = UNION {Pooled(k)' : k \in Kinds}
                /\ Q = UNION {Texts(e) \cup {e.node} : e \in Events'}
  OBVIOUS
<1>1. AllPooled(pools') = P
  BY DEF AllPooled, Objects, Pooled
<1>2. \A b : b \in Q <=> \E e \in Events' : Owned(b, e)
  BY DEF Owned, Texts
<1>3. Known' = P \cup {helo_name', name', text', value', mb_list', list'.at}
          \cup DOMAIN list'.cells \cup ToSet(parsed') \cup Q
  BY DEF Known, Events
<1>4. ASSUME NEW b
      PROVE  b \in Known' <=> \/ b \in P
                            \/ b \in {helo_name', name', text', value', mb_list', list'.at}
                            \/ b \in DOMAIN list'.cells \/ b \in ToSet(parsed') \/ b \in Q
  BY <1>3
<1> QED
  BY <1>1, <1>2, <1>4

LEMMA NoneLost == ASSUME HeapInv' PROVE None \notin heap'
BY BlockFacts DEF HeapInv, Range

LEMMA Loss ==
    ASSUME NEW A, \A b \in heap' : b \in heap \cup Known' /\ (b \in Known => b \in Known' \cup A)
    PROVE  Lost' \ Lost \subseteq A
BY DEF Lost

LEMMA NoLoss ==
    ASSUME \A b \in heap' : b \in heap \cup Known' /\ (b \in Known => b \in Known')
    PROVE  Lost' \subseteq Lost
BY DEF Lost

\* Nothing changes that is known.
LEMMA PointLoses ==
    ASSUME UNCHANGED <<heap, pools, session, name, text, event, path>> PROVE Lost' \subseteq Lost
<1>1. UNCHANGED <<heap, pools, helo_name, held, name, text, event, list, value, mb_list, parsed>>
  BY DEF session, path
<1>2. Known' = Known
  BY <1>1 DEF Known, Pooled, Texts
<1> QED
  BY <1>1, <1>2 DEF Lost

LEMMA NoEventOwns == \A b : Owned(b, NoEvent) <=> b = None
BY NoEventFacts DEF Owned, Set

LEMMA NoListFacts == NoList.at = None /\ DOMAIN NoList.cells = {} /\ ToSet(<<>>) = {}
BY HoldsNew, NothingFreed DEF NoList

LEMMA HostNameLoses == ASSUME StorageInv, HeapInv', NEW c, HostName(c) PROVE Lost' \subseteq Lost
<1>1. PICK b \in Malloc("atom") \ {None} : heap' = heap \cup {b} /\ name' = b
  BY DEF HostName
<1>2. UNCHANGED <<pools, helo_name, held, text, event, list, value, mb_list, parsed>>
  BY DEF HostName, session, path
<1>3. name = None
  BY DEF StorageInv, Shape, Bare, HostName
<1>4. Events' = Events
  BY <1>2 DEF Events
<1>5. \A x \in heap' : x \in heap \cup Known' /\ (x \in Known => x \in Known')
  BY <1>1, <1>2, <1>3, <1>4, KnownIs, KnownNext, NoneLost
<1> QED
  BY <1>5, NoLoss

\* An allocation from a pool.
LEMMA AllocatedKnown ==
    ASSUME StorageInv, NEW k \in Kinds, NEW r \in Alloc(k), pools' = [pools EXCEPT ![k] = r.pool]
    PROVE  /\ AllPooled(pools) \subseteq AllPooled(pools') \cup Set(r.got)
           /\ DOMAIN r.pool.next \subseteq AllPooled(pools')
<1>1. Pooled(k) \subseteq Objects(r.pool) \cup Set(r.got)
  BY AllocStores DEF StorageInv
<1>2. DOMAIN pools = Kinds
  BY DEF StorageInv, PoolsInv, Stores
<1>3. pools'[k] = r.pool /\ \A j \in Kinds \ {k} : pools'[j] = pools[j]
  BY <1>2
<1>4. DOMAIN r.pool.next \subseteq AllPooled(pools')
  BY <1>3 DEF AllPooled, Objects
<1>5. ASSUME NEW x \in AllPooled(pools) PROVE x \in AllPooled(pools') \cup Set(r.got)
  <2>1. PICK j \in Kinds : x \in Objects(pools[j])
    BY DEF AllPooled
  <2>2. CASE j = k
    BY <1>1, <1>4, <2>1, <2>2 DEF Objects, Pooled
  <2>3. CASE j # k
    BY <1>3, <2>1, <2>3 DEF AllPooled
  <2> QED
    BY <2>2, <2>3
<1> QED
  BY <1>4, <1>5

LEMMA HeloNameLoses ==
    ASSUME StorageInv, HeapInv', HeloName PROVE Lost' \ Lost \subseteq {helo_name}
<1>1. /\ UNCHANGED <<held, cmd, name, text, event, list, value, mb_list, parsed>>
  BY DEF HeloName, path
<1>2. Events' = Events
  BY <1>1 DEF Events
<1>3. ASSUME NEW r \in Alloc("string"), Allocated("string", r), helo_name' = r.got
      PROVE  \A x \in heap' : x \in heap \cup Known' /\ (x \in Known => x \in Known' \cup {helo_name})
  <2>1. PICK k \in Kinds : k = "string"
    BY DEF Kinds
  <2>2. /\ AllPooled(pools) \subseteq AllPooled(pools') \cup Set(r.got)
        /\ DOMAIN r.pool.next \subseteq AllPooled(pools')
    BY <1>3, <2>1, AllocatedKnown DEF Allocated
  <2>3. heap' = heap \cup DOMAIN r.pool.next \cup Set(r.got)
    BY <1>3 DEF Allocated
  <2> QED
    BY <1>1, <1>2, <1>3, <2>2, <2>3, KnownIs, KnownNext, NoneLost DEF Set
<1>4. ASSUME helo_name' = None, UNCHANGED <<heap, pools>>
      PROVE  \A x \in heap' : x \in heap \cup Known' /\ (x \in Known => x \in Known' \cup {helo_name})
  BY <1>1, <1>2, <1>4, KnownIs, KnownNext, NoneLost
<1> QED
  <2>1. PICK A : A = {helo_name}
    OBVIOUS
  <2> QED
    BY <1>3, <1>4, <2>1, Loss DEF HeloName

LEMMA LoginLoses == ASSUME StorageInv, HeapInv', NEW c, Login(c) PROVE Lost' \subseteq Lost
<1>1. UNCHANGED <<helo_name, held, name, event, list, value, mb_list, parsed>>
  BY DEF Login, session, path
<1>2. Events' = Events /\ text = None
  BY <1>1 DEF Events, StorageInv, Shape, Bare, Login
<1>3. ASSUME NEW r \in Alloc("string"), Allocated("string", r), text' = r.got
      PROVE  \A x \in heap' : x \in heap \cup Known' /\ (x \in Known => x \in Known')
  <2>1. PICK k \in Kinds : k = "string"
    BY DEF Kinds
  <2>2. /\ AllPooled(pools) \subseteq AllPooled(pools') \cup Set(r.got)
        /\ DOMAIN r.pool.next \subseteq AllPooled(pools')
    BY <1>3, <2>1, AllocatedKnown DEF Allocated
  <2>3. heap' = heap \cup DOMAIN r.pool.next \cup Set(r.got)
    BY <1>3 DEF Allocated
  <2> QED
    BY <1>1, <1>2, <1>3, <2>2, <2>3, KnownIs, KnownNext, NoneLost DEF Set
<1>4. ASSUME text' = None, UNCHANGED <<heap, pools>>
      PROVE  \A x \in heap' : x \in heap \cup Known' /\ (x \in Known => x \in Known')
  BY <1>1, <1>2, <1>4, KnownIs, KnownNext, NoneLost
<1> QED
  BY <1>3, <1>4, NoLoss DEF Login

LEMMA MailboxLoses ==
    ASSUME StorageInv, HeapInv', Mailbox, value = None,
           UNCHANGED <<pools, helo_name, held, name, text, event, list, mb_list, parsed>>
    PROVE  Lost' \subseteq Lost
<1>1. PICK b : heap' = heap \cup {b} /\ value' = b
  BY DEF Mailbox
<1>2. Events' = Events
  BY DEF Events
<1>3. \A x \in heap' : x \in heap \cup Known' /\ (x \in Known => x \in Known')
  BY <1>1, <1>2, KnownIs, KnownNext, NoneLost
<1> QED
  BY <1>3, NoLoss

LEMMA NewListLoses == ASSUME StorageInv, HeapInv', NewList PROVE Lost' \subseteq Lost
<1>1. /\ at = "list" /\ UNCHANGED <<helo_name, held>>
      /\ Bare /\ list = NoList /\ parsed = <<>> /\ mb_list = None /\ value # None
  BY DEF NewList, session, StorageInv, Shape
<1>2. CASE Leave(<<value>>, pools)
  <2>1. value \in Nat
    BY BlockFacts DEF StorageInv, ListInv, Place, Mem, None
  <2>2. ToSet(<<value>>) = {value} /\ IsInjective(<<value>>)
    BY <2>1, OneSet
  <2>3. heap' = heap \ {value} /\ pools' = pools /\ Return
    BY <1>2, <2>2 DEF Leave
  <2>4. /\ Events' = Events /\ name = None /\ text = None /\ list.at = None /\ DOMAIN list.cells = {}
        /\ ToSet(parsed) = {}
    BY <1>1, <2>3, NoListFacts DEF Events, Return, Bare
  <2>5. \A x \in heap' : x \in heap \cup Known' /\ (x \in Known => x \in Known')
    BY <1>1, <2>3, <2>4, KnownIs, KnownNext, NoneLost
  <2> QED
    BY <2>5, NoLoss
<1>3. ASSUME NEW b, list' = ClistNew(b), heap' = heap \cup {b},
             UNCHANGED <<pools, name, text, event, value, mb_list, parsed>>
      PROVE  Lost' \subseteq Lost
  <2>1. list'.at = b /\ list.at = None /\ DOMAIN list.cells = {} /\ Events' = Events
    BY <1>1, <1>3, HoldsNew, NoListFacts DEF Events
  <2>2. \A x \in heap' : x \in heap \cup Known' /\ (x \in Known => x \in Known')
    BY <1>1, <1>3, <2>1, KnownIs, KnownNext, NoneLost
  <2> QED
    BY <2>2, NoLoss
<1> QED
  <2>1. PICK b \in Malloc("list") :
          IF b = None THEN Leave(<<value>>, pools)
          ELSE /\ list' = ClistNew(b) /\ heap' = heap \cup {b} /\ at' = "append"
               /\ UNCHANGED <<pools, cmd, name, text, event, value, mb_list, parsed>>
    BY DEF NewList
  <2> QED
    BY <1>2, <1>3, <2>1

LEMMA AppendMailboxLoses == ASSUME StorageInv, HeapInv', AppendMailbox PROVE Lost' \subseteq Lost
<1>1. /\ at = "append" /\ value' = None
      /\ UNCHANGED <<pools, helo_name, held, name, text, event, mb_list>>
  BY DEF AppendMailbox, session
<1>2. Events' = Events
  BY <1>1 DEF Events
<1>3. ASSUME heap' = heap \ {value}, UNCHANGED <<list, parsed>>
      PROVE  \A x \in heap' : x \in heap \cup Known' /\ (x \in Known => x \in Known')
  BY <1>1, <1>2, <1>3, KnownIs, KnownNext, NoneLost
<1>4. ASSUME NEW b \in Malloc("list"), b # None, heap' = heap \cup {b},
             list' = ClistAppend(list, b, value), parsed' = Append(parsed, value)
      PROVE  \A x \in heap' : x \in heap \cup Known' /\ (x \in Known => x \in Known')
  <2>1. b \in Nat /\ b \notin heap
    BY <1>4, MallocFree, BlockFacts
  <2>2. Holds(list, parsed) /\ b \notin DOMAIN list.cells /\ value \in Nat
    BY <2>1, BlockFacts DEF StorageInv, ListInv, Place, Mem, None
  <2>3. DOMAIN list'.cells = DOMAIN list.cells \cup {b} /\ list'.at = list.at
    BY <1>4, <2>1, <2>2, HoldsAppend DEF None, NULL
  <2>4. ToSet(parsed') = ToSet(parsed) \cup {value}
    <3>1. parsed \in Seq(Nat)
      BY <2>2 DEF Holds, Linked
    <3> QED
      BY <1>4, <2>2, <3>1, AppendSet
  <2> QED
    BY <1>1, <1>2, <1>4, <2>3, <2>4, KnownIs, KnownNext
<1> QED
  <2>1. PICK b \in Malloc("list") :
          IF b = None
          THEN heap' = heap \ {value} /\ at' = "unlist" /\ UNCHANGED <<list, parsed>>
          ELSE /\ list' = ClistAppend(list, b, value) /\ parsed' = Append(parsed, value)
               /\ heap' = heap \cup {b} /\ at' = "more"
    BY DEF AppendMailbox
  <2> QED
    BY <1>3, <1>4, <2>1, NoLoss

LEMMA FreeListLoses == ASSUME StorageInv, HeapInv', FreeList PROVE Lost' \subseteq Lost
<1>1. /\ at = "unlist" /\ Leave(ListFree, pools) /\ UNCHANGED <<helo_name, held>>
      /\ Bare /\ list.at # None /\ value = None /\ mb_list = None
  BY DEF FreeList, session, StorageInv, Shape, InPath
<1>2. /\ IsInjective(ListFree)
      /\ ToSet(ListFree) = ToSet(parsed) \cup DOMAIN list.cells \cup {list.at}
  BY <1>1, ListBlocks DEF StorageInv
<1>3. heap' = heap \ ToSet(ListFree) /\ pools' = pools /\ Return
  BY <1>1, <1>2 DEF Leave
<1>4. Events' = Events /\ name = None /\ text = None
  BY <1>1, <1>3 DEF Events, Return, Bare
<1>5. \A x \in heap' : x \in heap \cup Known' /\ (x \in Known => x \in Known')
  BY <1>1, <1>2, <1>3, <1>4, KnownIs, KnownNext, NoneLost
<1> QED
  BY <1>5, NoLoss

LEMMA WrapLoses == ASSUME StorageInv, HeapInv', Wrap PROVE Lost' \subseteq Lost
<1>1. /\ UNCHANGED <<pools, helo_name, held, cmd, name, text, event, list, value, parsed>>
      /\ mb_list = None
  BY DEF Wrap, session, StorageInv, Shape
<1>2. Events' = Events
  BY <1>1 DEF Events
<1>3. PICK b : \/ UNCHANGED <<heap, mb_list>>
               \/ mb_list' = b /\ heap' = heap \cup {b}
  BY DEF Wrap
<1>4. \A x \in heap' : x \in heap \cup Known' /\ (x \in Known => x \in Known')
  BY <1>1, <1>2, <1>3, KnownIs, KnownNext, NoneLost
<1> QED
  BY <1>4, NoLoss

LEMMA PathFailsLoses == ASSUME StorageInv, PathFails PROVE Lost' \subseteq Lost
<1>1. list.at # None /\ mb_list # None
  BY DEF PathFails, StorageInv, Shape, InPath
<1>2. MailboxListFree \in Seq(Nat) /\ mb_list \in ToSet(MailboxListFree)
  BY <1>1, MailboxListBlocks DEF StorageInv
<1>3. Undefined /\ UNCHANGED session
  BY <1>2, TwiceFreed DEF PathFails, Leave
<1> QED
  BY <1>3, PointLoses DEF Undefined

LEMMA PathAddressLoses == ASSUME StorageInv, HeapInv', PathAddress PROVE Lost' \subseteq Lost
<1>1. /\ list' = NoList /\ mb_list' = None /\ parsed' = <<>>
      /\ UNCHANGED <<helo_name, held, name, event, value>>
      /\ list.at # None /\ mb_list # None /\ text = None
  BY DEF PathAddress, session, StorageInv, Shape, InPath, Bare
<1>2. PICK k \in Kinds : k = "address"
  BY DEF Kinds
<1>3. PICK r \in Alloc(k) :
          /\ text' = r.got /\ pools' = [pools EXCEPT ![k] = r.pool]
          /\ heap' = (heap \cup DOMAIN r.pool.next \cup {r.got}) \ ToSet(MailboxListFree)
  BY <1>2 DEF PathAddress
<1>4. /\ AllPooled(pools) \subseteq AllPooled(pools') \cup Set(r.got)
      /\ DOMAIN r.pool.next \subseteq AllPooled(pools')
  BY <1>3, AllocatedKnown
<1>5. ToSet(MailboxListFree) = ToSet(parsed) \cup DOMAIN list.cells \cup {list.at, mb_list}
  BY <1>1, MailboxListBlocks DEF StorageInv
<1>6. Events' = Events
  BY <1>1 DEF Events
<1>7. \A x \in heap' : x \in heap \cup Known' /\ (x \in Known => x \in Known')
  BY <1>1, <1>3, <1>4, <1>5, <1>6, KnownIs, KnownNext, NoneLost DEF Set
<1> QED
  BY <1>7, NoLoss

LEMMA NewEventLoses ==
    ASSUME StorageInv, HeapInv', NewEvent
    PROVE  (cmd = "USER" /\ Lost' \ Lost \subseteq {text}) \/ Lost' \subseteq Lost
<1>1. /\ at = "event" /\ UNCHANGED session /\ helo_name' = helo_name /\ held' = held
      /\ cmd \in Greetings \cup Logins \cup Paths /\ event = NoEvent /\ NoPath
      /\ IF cmd \in Greetings THEN text = None ELSE name = None
  BY DEF NewEvent, session, StorageInv, Shape
<1>2. ASSUME cmd = "USER", Return, UNCHANGED <<heap, pools>> PROVE Lost' \ Lost \subseteq {text}
  <2>1. name = None /\ value = None /\ mb_list = None /\ list = NoList /\ parsed = <<>>
    BY <1>1, <1>2 DEF Greetings, NoPath
  <2>2. Events' = Events /\ list.at = None /\ DOMAIN list.cells = {} /\ ToSet(parsed) = {}
    BY <1>1, <1>2, <2>1, NoListFacts DEF Events, Return
  <2>3. \A x \in heap' : x \in heap \cup Known' /\ (x \in Known => x \in Known' \cup {text})
    BY <1>1, <1>2, <2>1, <2>2, KnownIs, KnownNext, NoneLost
  <2>4. PICK A : A = {text}
    OBVIOUS
  <2> QED
    BY <2>3, <2>4, Loss
<1>3. ASSUME UNCHANGED <<heap, pools, name, text, event, path>> PROVE Lost' \subseteq Lost
  BY <1>1, <1>3, PointLoses
<1>4. ASSUME NEW r \in Alloc("event"), Allocated("event", r),
             event' = [node |-> r.got, name |-> name, text |-> text,
                       kind |-> IF cmd \in Paths THEN "address" ELSE "string"],
             UNCHANGED path
      PROVE  Lost' \subseteq Lost
  <2>1. PICK k \in Kinds : k = "event"
    BY DEF Kinds
  <2>2. /\ AllPooled(pools) \subseteq AllPooled(pools') \cup Set(r.got)
        /\ DOMAIN r.pool.next \subseteq AllPooled(pools')
    BY <1>4, <2>1, AllocatedKnown DEF Allocated
  <2>3. heap' = heap \cup DOMAIN r.pool.next \cup Set(r.got)
    BY <1>4 DEF Allocated
  <2>4. \A b : Owned(b, event') <=> b \in Set(name) \cup Set(text) \cup {r.got}
    BY <1>4 DEF Owned
  <2>5. Events' = held \cup {event'} /\ Events = held \cup {NoEvent}
    BY <1>1 DEF Events
  <2>6. UNCHANGED <<list, value, mb_list, parsed>>
    BY <1>4 DEF path
  <2>7. ASSUME NEW x \in heap' PROVE x \in heap \cup Known' /\ (x \in Known => x \in Known')
    <3>1. x # None
      BY NoneLost
    <3>2. x \in {r.got, name, text} => x \in Known'
      BY <2>4, <2>5, <3>1, KnownNext DEF Set
    <3>3. (\E e \in held : Owned(x, e)) => x \in Known'
      BY <2>5, KnownNext
    <3>4. x \in Known => x \in Known'
      BY <1>1, <2>2, <2>5, <2>6, <3>1, <3>2, <3>3, KnownIs, KnownNext, NoEventOwns DEF Set
    <3> QED
      BY <2>2, <2>3, <3>2, <3>4, KnownNext DEF Set
  <2> QED
    BY <2>7, NoLoss
<1> QED
  <2>1. PICK r \in Alloc("event") :
          CASE r.got = None /\ cmd = "USER" -> Return /\ UNCHANGED <<heap, pools>>
            [] r.got = None /\ cmd # "USER" ->
                 at' = "free" /\ UNCHANGED <<heap, pools, cmd, name, text, event, path>>
            [] r.got # None /\ cmd = "USER" /\ text = None -> Undefined
            [] OTHER ->
                 /\ Allocated("event", r)
                 /\ event' = [node |-> r.got, name |-> name, text |-> text,
                              kind |-> IF cmd \in Paths THEN "address" ELSE "string"]
                 /\ name' = IF cmd = "HELO" THEN name ELSE None
                 /\ text' = None /\ at' = "analysis" /\ UNCHANGED <<cmd, path>>
    BY Zenon DEF NewEvent
  <2>2. CASE r.got = None /\ cmd = "USER"
    BY <1>2, <2>1, <2>2
  <2>3. CASE r.got = None /\ cmd # "USER"
    BY <1>3, <2>1, <2>3
  <2>4. CASE r.got # None /\ cmd = "USER" /\ text = None
    BY <1>3, <2>1, <2>4 DEF Undefined
  <2>5. CASE r.got # None /\ ~(cmd = "USER" /\ text = None)
    BY <1>4, <2>1, <2>5
  <2> QED
    BY <2>2, <2>3, <2>4, <2>5

\* A command that returns with no path in hand: only the name, the text and the
\* event of the command are known no more.
LEMMA ReturnLoses ==
    ASSUME StorageInv, HeapInv', Return, NoPath, held' = held, heap' \subseteq heap,
           NEW A, AllPooled(pools) \subseteq AllPooled(pools'),
           \A b \in heap' : b \in {helo_name, name, text} \/ Owned(b, event) => b \in Known' \cup A
    PROVE  Lost' \ Lost \subseteq A
<1>1. /\ value = None /\ mb_list = None /\ list.at = None /\ DOMAIN list.cells = {} /\ ToSet(parsed) = {}
  BY NoListFacts DEF NoPath
<1>2. Events' = held \cup {NoEvent} /\ Events = held \cup {event}
  BY DEF Return, Events
<1>3. ASSUME NEW x \in heap', x \in Known PROVE x \in Known' \cup A
  <2>1. x # None
    BY NoneLost
  <2>2. (\E e \in held : Owned(x, e)) => x \in Known'
    BY <1>2, KnownNext
  <2>3. x \in AllPooled(pools) => x \in Known'
    BY KnownNext
  <2> QED
    BY <1>1, <1>2, <1>3, <2>1, <2>2, <2>3, KnownIs
<1> QED
  BY <1>3, Loss

LEMMA AnalysedLoses == ASSUME StorageInv, HeapInv', Analysed PROVE Lost' \subseteq Lost
<1>1. /\ held' = held \cup {event} /\ Return /\ UNCHANGED <<heap, pools, helo_name>>
      /\ NoPath /\ text = None /\ name \in {event.name, None}
  BY DEF Analysed, StorageInv, Shape
<1>2. /\ value = None /\ mb_list = None /\ list.at = None /\ DOMAIN list.cells = {} /\ ToSet(parsed) = {}
  BY <1>1, NoListFacts DEF NoPath
<1>3. Events \subseteq Events'
  BY <1>1 DEF Events
<1>4. ASSUME NEW x \in heap', x \in Known PROVE x \in Known'
  <2>1. x # None
    BY NoneLost
  <2>2. (\E e \in Events : Owned(x, e)) => x \in Known'
    BY <1>3, KnownNext
  <2>3. event \in Events /\ (x = event.name => Owned(x, event))
    BY <2>1 DEF Events, Owned, Set
  <2>4. x \in AllPooled(pools) \cup {helo_name} => x \in Known'
    BY <1>1, KnownNext
  <2> QED
    BY <1>1, <1>2, <1>4, <2>1, <2>2, <2>3, <2>4, KnownIs
<1> QED
  BY <1>1, <1>4, NoLoss

LEMMA FreeHeloLoses ==
    ASSUME StorageInv, HeapInv', FreeHelo
    PROVE  (cmd = "EHLO" /\ Lost' \ Lost \subseteq {event.name}) \/ Lost' \subseteq Lost
<1> PICK qs : qs = SetToSeq(Set(name)) \o (IF cmd = "HELO" THEN SetToSeq(Set(event.name)) ELSE <<>>)
  OBVIOUS
<1>1. /\ at = "free" /\ cmd \in Greetings /\ held' = held
      /\ Leave(qs, Give(Give(pools, "string", helo_name), "event", event.node))
      /\ helo_name' = (IF at' = "undefined" THEN helo_name ELSE None)
  BY DEF FreeHelo
<1>2. CASE ~IsInjective(qs)
  <2>1. Undefined /\ at' = "undefined"
    BY <1>1, <1>2 DEF Leave, Undefined
  <2>2. UNCHANGED session
    BY <1>1, <2>1 DEF session
  <2> QED
    BY <2>1, <2>2, PointLoses DEF Undefined
<1>3. CASE IsInjective(qs)
  <2>1. /\ heap' = heap \ ToSet(qs) /\ Return
        /\ pools' = Give(Give(pools, "string", helo_name), "event", event.node)
    BY <1>1, <1>3 DEF Leave
  <2>2. text = None /\ event.text = None /\ NoPath
    BY <1>1 DEF StorageInv, Shape
  <2>3. AllPooled(pools') = AllPooled(pools) \cup Set(helo_name) \cup Set(event.node)
    BY <2>1, GreetingGiven
  <2>4. Set(name) \subseteq ToSet(qs) /\ (cmd = "HELO" => Set(event.name) \subseteq ToSet(qs))
    <3>1. Set(name) \subseteq Mem("atom") /\ Set(event.name) \subseteq Mem("atom")
      BY DEF StorageInv, NamesInv, Place, Set, Events
    <3>2. /\ IsFiniteSet(Set(name)) /\ Set(name) \subseteq Nat
          /\ IsFiniteSet(Set(event.name)) /\ Set(event.name) \subseteq Nat
      BY <3>1, BlockFacts, FS_Subset DEF Mem
    <3> PICK qn, qe : /\ qn = SetToSeq(Set(name))
                      /\ qe = IF cmd = "HELO" THEN SetToSeq(Set(event.name)) ELSE <<>>
      OBVIOUS
    <3>3. qn \in Seq(Nat) /\ ToSet(qn) = Set(name)
      BY <3>2, SetBlocks
    <3>4. qe \in Seq(Nat) /\ (cmd = "HELO" => ToSet(qe) = Set(event.name))
      BY <3>2, SetBlocks, NothingFreed
    <3>5. qs = qn \o qe /\ ToSet(qn \o qe) = ToSet(qn) \cup ToSet(qe)
      BY <3>3, <3>4, ConcatSet
    <3> QED
      BY <3>3, <3>4, <3>5
  <2>5. ASSUME NEW b \in heap', b \in {helo_name, name, text} \/ Owned(b, event)
        PROVE  b \in Known' \/ (b = event.name /\ cmd # "HELO")
    <3>1. b # None /\ b \notin ToSet(qs)
      BY <2>1, NoneLost
    <3>2. b \in AllPooled(pools') => b \in Known'
      BY KnownNext
    <3> QED
      BY <2>2, <2>3, <2>4, <2>5, <3>1, <3>2 DEF Owned, Set
  <2>6. AllPooled(pools) \subseteq AllPooled(pools') /\ heap' \subseteq heap
    BY <2>1, <2>3
  <2>7. PICK A : A = IF cmd = "HELO" THEN {} ELSE {event.name}
    OBVIOUS
  <2>8. \A b \in heap' : b \in {helo_name, name, text} \/ Owned(b, event) => b \in Known' \cup A
    BY <2>5, <2>7
  <2>9. Lost' \ Lost \subseteq A
    BY <1>1, <2>1, <2>2, <2>6, <2>8, ReturnLoses
  <2> QED
    BY <1>1, <2>7, <2>9 DEF Greetings
<1> QED
  BY <1>2, <1>3

LEMMA FreeTextLoses == ASSUME StorageInv, HeapInv', FreeText PROVE Lost' \subseteq Lost
<1>1. /\ at = "free" /\ cmd \in Logins \cup Paths /\ held' = held /\ helo_name' = helo_name
      /\ Leave(<<>>, GiveEvent(Give(pools, TextKind, text), event))
  <2>1. TextKind = IF cmd \in Paths THEN "address" ELSE "string"
    BY DEF TextKind
  <2> QED
    BY <2>1 DEF FreeText, session
<1>2. name = None /\ event.name = None /\ NoPath
  <2>1. cmd \notin Greetings
    BY <1>1 DEF Logins, Paths, Greetings
  <2> QED
    BY <1>1, <2>1 DEF StorageInv, Shape
<1>3. heap' = heap /\ Return /\ pools' = GiveEvent(Give(pools, TextKind, text), event)
  BY <1>1, NothingFreed DEF Leave
<1>4. AllPooled(pools') = AllPooled(pools) \cup Set(text) \cup Set(event.text) \cup Set(event.node)
  BY <1>3, TextGiven
<1> PICK A : A = {}
  OBVIOUS
<1>5. ASSUME NEW b \in heap', b \in {helo_name, name, text} \/ Owned(b, event)
      PROVE  b \in Known'
  <2>1. b # None
    BY NoneLost
  <2>2. b \in AllPooled(pools') \cup {helo_name} => b \in Known'
    BY <1>1, KnownNext
  <2> QED
    BY <1>2, <1>4, <1>5, <2>1, <2>2 DEF Owned, Set
<1>6. AllPooled(pools) \subseteq AllPooled(pools') /\ heap' \subseteq heap
  BY <1>3, <1>4
<1>7. \A b \in heap' : b \in {helo_name, name, text} \/ Owned(b, event) => b \in Known' \cup A
  BY <1>5
<1>8. Lost' \ Lost \subseteq A
  BY <1>1, <1>2, <1>3, <1>6, <1>7, ReturnLoses
<1> QED
  BY <1>8

\* Between two commands: only the name of the session and what the released
\* events had are known no more.
LEMMA IdleLoses ==
    ASSUME StorageInv, HeapInv', UNCHANGED <<name, text, event, path>>, held' \subseteq held,
           heap' \subseteq heap, AllPooled(pools) \subseteq AllPooled(pools'),
           \A b \in heap' : b = helo_name => b \in Known',
           \A b \in heap' : \A e \in held \ held' : Owned(b, e) => b \in Known'
    PROVE  Lost' \subseteq Lost
<1>1. UNCHANGED <<list, value, mb_list, parsed>>
  BY DEF path
<1>2. ASSUME NEW x \in heap', x \in Known PROVE x \in Known'
  <2>1. (\E e \in Events : Owned(x, e)) => x \in Known'
    <3> SUFFICES ASSUME NEW e \in Events, Owned(x, e) PROVE x \in Known'
      OBVIOUS
    <3>1. e \in Events' \/ e \in held \ held'
      BY DEF Events
    <3> QED
      BY <3>1, KnownNext
  <2>2. x \in AllPooled(pools) => x \in Known'
    BY KnownNext
  <2>3. x = helo_name => x \in Known'
    OBVIOUS
  <2> QED
    BY <1>1, <1>2, <2>1, <2>2, <2>3, KnownIs, KnownNext
<1> QED
  BY <1>2, NoLoss

LEMMA ReleaseLoses == ASSUME StorageInv, HeapInv', Release PROVE Lost' \subseteq Lost
<1>1. UNCHANGED <<helo_name, name, text, event, path>>
  BY DEF Release
<1>2. PICK e \in held : held' = held \ {e} /\ heap' = heap \ Set(e.name) /\ pools' = GiveEvent(pools, e)
  BY DEF Release
<1>3. AllPooled(pools') = AllPooled(pools) \cup Set(e.text) \cup Set(e.node)
  BY <1>2, EventGiven
<1>4. ASSUME NEW b \in heap', Owned(b, e) PROVE b \in Known'
  <2>1. b # None /\ b \notin Set(e.name)
    BY <1>2, NoneLost
  <2>2. b \in AllPooled(pools')
    BY <1>3, <1>4, <2>1 DEF Owned, Set
  <2> QED
    BY <2>2, KnownNext
<1>5. \A b \in heap' : \A f \in held \ held' : Owned(b, f) => b \in Known'
  BY <1>2, <1>4
<1>6. \A b \in heap' : b = helo_name => b \in Known'
  BY <1>1, KnownNext
<1> QED
  BY <1>1, <1>2, <1>3, <1>5, <1>6, IdleLoses

LEMMA HeloResetLoses == ASSUME StorageInv, HeapInv', HeloReset PROVE Lost' \subseteq Lost
<1>1. /\ pools' = Give(pools, "string", helo_name)
      /\ UNCHANGED <<heap, held, name, text, event, path>>
  BY DEF HeloReset
<1>2. AllPooled(pools') = AllPooled(pools) \cup Set(helo_name)
  BY <1>1, HeloGiven
<1>3. \A b \in heap' : b = helo_name => b \in Known'
  BY <1>2, KnownNext, NoneLost DEF Set
<1>4. held \ held' = {}
  BY <1>1
<1> QED
  BY <1>1, <1>2, <1>3, <1>4, IdleLoses

LEMMA CloseLoses == ASSUME StorageInv, HeapInv', Close PROVE Lost' \subseteq Lost
<1>1. /\ held' = {} /\ heap' = heap \ UNION {Set(e.name) : e \in held}
      /\ pools' = GiveEvents(Give(pools, "string", helo_name), SetToSeq(held))
      /\ UNCHANGED <<name, text, event, path>>
  BY DEF Close
<1>2. AllPooled(pools') = AllPooled(pools) \cup Set(helo_name)
                            \cup UNION {Set(e.text) \cup Set(e.node) : e \in held}
  BY <1>1, AllGiven
<1>3. \A b \in heap' : b = helo_name => b \in Known'
  BY <1>2, KnownNext, NoneLost DEF Set
<1>4. ASSUME NEW b \in heap', NEW e \in held, Owned(b, e) PROVE b \in Known'
  <2>1. b # None /\ b \notin Set(e.name)
    BY <1>1, NoneLost
  <2>2. b \in Set(e.text) \cup Set(e.node)
    BY <1>4, <2>1 DEF Owned, Set
  <2>3. b \in AllPooled(pools')
    BY <1>2, <2>2
  <2> QED
    BY <2>3, KnownNext
<1>5. held' \subseteq held /\ heap' \subseteq heap
  BY <1>1
<1>6. AllPooled(pools) \subseteq AllPooled(pools')
  BY <1>2
<1> QED
  BY <1>1, <1>3, <1>4, <1>5, <1>6, IdleLoses

LEMMA StorageLoses == StorageInv /\ [Next]_vars => [LosesOnly]_vars
<1> SUFFICES ASSUME StorageInv, Next PROVE LosesOnly
  OBVIOUS
<1>1. HeapInv'
  BY StorageKept DEF StorageInv
<1>2. ASSUME NEW c \in Commands, HostName(c) PROVE LosesOnly
  BY <1>1, <1>2, HostNameLoses DEF LosesOnly
<1>3. ASSUME NEW c \in Commands, Login(c) PROVE LosesOnly
  BY <1>1, <1>3, LoginLoses DEF LosesOnly
<1>4. ASSUME NEW c \in Commands, FirstMailbox(c) PROVE LosesOnly
  <2>1. /\ Mailbox /\ value = None
        /\ UNCHANGED <<pools, helo_name, held, name, text, event, list, mb_list, parsed>>
    BY <1>4 DEF FirstMailbox, session, StorageInv, Shape, NoPath
  <2> QED
    BY <1>1, <2>1, MailboxLoses DEF LosesOnly
<1>5. CASE HeloName
  <2>1. at = "name" /\ cmd \in Greetings
    BY <1>5 DEF HeloName, StorageInv, Shape
  <2> QED
    BY <1>1, <1>5, <2>1, HeloNameLoses DEF LosesOnly
<1>6. CASE NewList
  BY <1>1, <1>6, NewListLoses DEF LosesOnly
<1>7. CASE AppendMailbox
  BY <1>1, <1>7, AppendMailboxLoses DEF LosesOnly
<1>8. CASE NextMailbox
  <2>1. /\ Mailbox /\ value = None
        /\ UNCHANGED <<pools, helo_name, held, name, text, event, list, mb_list, parsed>>
    BY <1>8 DEF NextMailbox, session, StorageInv, Shape
  <2> QED
    BY <1>1, <2>1, MailboxLoses DEF LosesOnly
<1>9. CASE LastMailbox \/ Parameters \/ EngineFails
  BY <1>9, PointLoses DEF LosesOnly, LastMailbox, Parameters, EngineFails
<1>10. CASE FreeList
  BY <1>1, <1>10, FreeListLoses DEF LosesOnly
<1>11. CASE Wrap
  BY <1>1, <1>11, WrapLoses DEF LosesOnly
<1>12. CASE PathFails
  BY <1>12, PathFailsLoses DEF LosesOnly
<1>13. CASE PathAddress
  BY <1>1, <1>13, PathAddressLoses DEF LosesOnly
<1>14. CASE NewEvent
  BY <1>1, <1>14, NewEventLoses DEF LosesOnly, NewEvent
<1>15. CASE Analysed
  BY <1>1, <1>15, AnalysedLoses DEF LosesOnly
<1>16. CASE FreeHelo
  BY <1>1, <1>16, FreeHeloLoses DEF LosesOnly, FreeHelo
<1>17. CASE FreeText
  BY <1>1, <1>17, FreeTextLoses DEF LosesOnly
<1>18. CASE Release
  BY <1>1, <1>18, ReleaseLoses DEF LosesOnly
<1>19. CASE HeloReset
  BY <1>1, <1>19, HeloResetLoses DEF LosesOnly
<1>20. CASE Close
  BY <1>1, <1>20, CloseLoses DEF LosesOnly
<1> QED
  BY <1>2, <1>3, <1>4, <1>5, <1>6, <1>7, <1>8, <1>9, <1>10, <1>11, <1>12, <1>13, <1>14, <1>15,
     <1>16, <1>17, <1>18, <1>19, <1>20 DEF Next

\* No step loses memory but three: a greeting over an earlier one (helo.re:315,
\* ehlo.re:1052), a user name without an event (user.re:236), and an EHLO whose
\* analysis fails (ehlo.re:1108), each one block.
THEOREM StorageLostOnly == Spec => LostOnly
<1>1. StorageInv /\ [Next]_vars => [LosesOnly]_vars
  BY StorageLoses
<1> QED
  BY <1>1, StorageAlways, PTL DEF Spec, LostOnly
=============================================================================

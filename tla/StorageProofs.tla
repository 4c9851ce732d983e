---------------------------- MODULE StorageProofs ----------------------------
(***************************************************************************)
(* The storage lists for any keys, values, lengths and quotas: they are    *)
(* maps whose readable bytes are the usage, and an eviction takes no more  *)
(* than it has to.                                                         *)
(***************************************************************************)
EXTENDS Storage, DataLemmas

----------------------------------------------------------------------------
(* Sums of lists that are changed in one place.                            *)

LEMMA SumUpdate ==
  ASSUME NEW q \in Seq(Int), NEW t \in Seq(Int), Len(t) = Len(q), NEW i \in 1 .. Len(q),
         NEW e \in Int, \A k \in 1 .. Len(q) : t[k] = IF k = i THEN e ELSE q[k]
  PROVE  SumOf(t) = SumOf(q) - q[i] + e
<1>1. PICK g \in [0 .. Len(q) -> Int] :
        /\ g[0] = 0 /\ \A k \in 1 .. Len(q) : g[k] = g[k - 1] + q[k]
        /\ SumOf(q) = g[Len(q)]
  BY SumRecursive
<1>2. Len(q) \in Nat /\ i \in Nat /\ \A k \in 1 .. Len(q) : q[k] \in Int
  BY ElementOfSeq
<1> DEFINE f == [k \in 0 .. Len(q) |-> IF k < i THEN g[k] ELSE g[k] - q[i] + e]
<1>3. f[0] = 0 /\ f[Len(q)] = g[Len(q)] - q[i] + e
  BY <1>1, <1>2
<1>4. ASSUME NEW k \in 1 .. Len(t) PROVE f[k] = f[k - 1] + t[k]
  <2>0. k \in Nat /\ k \in 0 .. Len(q) /\ k - 1 \in 0 .. Len(q) /\ k \in 1 .. Len(q)
    BY <1>2
  <2>1. g[k] \in Int /\ g[k - 1] \in Int /\ q[k] \in Int /\ q[i] \in Int
    BY <2>0, <1>1, <1>2
  <2>2. g[k] = g[k - 1] + q[k] /\ t[k] = IF k = i THEN e ELSE q[k]
    BY <2>0, <1>1
  <2>3. /\ f[k] = IF k < i THEN g[k] ELSE g[k] - q[i] + e
        /\ f[k - 1] = IF k - 1 < i THEN g[k - 1] ELSE g[k - 1] - q[i] + e
    BY <2>0
  <2> HIDE DEF f
  <2>4. i \in Nat /\ k \in Nat /\ e \in Int
    BY <2>0, <1>2
  <2>5. CASE k < i
    <3>1. k - 1 < i /\ k # i
      BY ONLY <2>4, <2>5
    <3> QED BY ONLY <3>1, <2>2, <2>3, <2>5
  <2>6. CASE k = i
    <3>1. k - 1 < i /\ ~ (k < i)
      BY ONLY <2>4, <2>6
    <3>2. f[k] = g[k] - q[k] + e /\ f[k - 1] = g[k - 1] /\ t[k] = e
      BY ONLY <3>1, <2>2, <2>3, <2>6
    <3> DEFINE a == g[k - 1]
               b == q[k]
    <3>3. a \in Int /\ b \in Int /\ f[k - 1] = a /\ f[k] = (a + b) - b + e
      BY ONLY <3>2, <2>1, <2>2
    <3> HIDE DEF a, b
    <3>4. (a + b) - b + e = a + e
      BY ONLY <3>3, <2>4
    <3> QED BY ONLY <3>2, <3>3, <3>4
  <2>7. CASE i < k
    <3>1. ~ (k - 1 < i) /\ ~ (k < i) /\ k # i
      BY ONLY <2>4, <2>7
    <3>2. f[k] = g[k] - q[i] + e /\ f[k - 1] = g[k - 1] - q[i] + e /\ t[k] = q[k]
      BY ONLY <3>1, <2>2, <2>3
    <3> DEFINE a == g[k - 1]
               b == q[k]
               c == q[i]
    <3>3. /\ a \in Int /\ b \in Int /\ c \in Int /\ t[k] = b
          /\ f[k - 1] = a - c + e /\ f[k] = (a + b) - c + e
      BY ONLY <3>2, <2>1, <2>2, q \in Seq(Int), i \in 1 .. Len(q)
    <3> HIDE DEF a, b, c
    <3>4. (a + b) - c + e = (a - c + e) + b
      BY ONLY <3>3, <2>4
    <3> QED BY ONLY <3>3, <3>4
  <2> QED BY ONLY <2>4, <2>5, <2>6, <2>7
<1> HIDE DEF f
<1>5. SumOf(t) = f[Len(t)]
  BY <1>3, <1>4, SumBy
<1> QED BY <1>1, <1>3, <1>5

LEMMA SumInFront ==
  ASSUME NEW q \in Seq(Int), NEW e \in Int
  PROVE  SumOf(<<e>> \o q) = e + SumOf(q)
<1> DEFINE t == <<e>> \o q
<1>1. PICK g \in [0 .. Len(q) -> Int] :
        /\ g[0] = 0 /\ \A k \in 1 .. Len(q) : g[k] = g[k - 1] + q[k]
        /\ SumOf(q) = g[Len(q)]
  BY SumRecursive
<1>2. /\ t \in Seq(Int) /\ Len(q) \in Nat /\ Len(t) = Len(q) + 1 /\ t[1] = e
      /\ \A k \in 2 .. Len(q) + 1 : t[k] = q[k - 1]
  BY InFront
<1> HIDE DEF t
<1> DEFINE f == [k \in 0 .. Len(q) + 1 |-> IF k = 0 THEN 0 ELSE e + g[k - 1]]
<1>3. f[0] = 0 /\ f[Len(q) + 1] = e + g[Len(q)]
  BY <1>1, <1>2
<1>4. ASSUME NEW k \in 1 .. Len(t) PROVE f[k] = f[k - 1] + t[k]
  <2>1. k \in 1 .. Len(q) + 1 /\ k \in Nat /\ k - 1 \in 0 .. Len(q) + 1 /\ k # 0
    BY <1>2
  <2>2. f[k] = e + g[k - 1] /\ f[k - 1] = IF k - 1 = 0 THEN 0 ELSE e + g[(k - 1) - 1]
    BY <2>1, <1>2
  <2> HIDE DEF f
  <2>3. CASE k = 1
    BY <2>2, <2>3, <1>1, <1>2
  <2>4. CASE k # 1
    <3>1. k - 1 \in 1 .. Len(q) /\ k \in 2 .. Len(q) + 1 /\ (k - 1) - 1 \in 0 .. Len(q)
      BY <2>1, <2>4, <1>2
    <3>2. /\ g[k - 1] = g[(k - 1) - 1] + q[k - 1] /\ t[k] = q[k - 1]
          /\ g[(k - 1) - 1] \in Int /\ q[k - 1] \in Int
      BY <3>1, <1>1, <1>2, ElementOfSeq
    <3> QED BY <2>2, <2>4, <3>1, <3>2
  <2> QED BY <2>3, <2>4
<1> HIDE DEF f
<1>5. SumOf(t) = f[Len(t)]
  BY <1>2, <1>3, <1>4, SumBy
<1> QED BY <1>1, <1>2, <1>3, <1>5 DEF t

LEMMA SumTakenOut ==
  ASSUME NEW q \in Seq(Int), NEW i \in 1 .. Len(q)
  PROVE  SumOf(RemoveAt(q, i)) = SumOf(q) - q[i]
<1> DEFINE t == RemoveAt(q, i)
<1>1. PICK g \in [0 .. Len(q) -> Int] :
        /\ g[0] = 0 /\ \A k \in 1 .. Len(q) : g[k] = g[k - 1] + q[k]
        /\ SumOf(q) = g[Len(q)]
  BY SumRecursive
<1>2. /\ t \in Seq(Int) /\ Len(q) \in Nat /\ i \in Nat /\ Len(t) = Len(q) - 1
      /\ \A k \in 1 .. Len(q) - 1 : t[k] = IF k < i THEN q[k] ELSE q[k + 1]
      /\ \A k \in 1 .. Len(q) : q[k] \in Int
  BY TakenOut, ElementOfSeq
<1> HIDE DEF t
<1> DEFINE f == [k \in 0 .. Len(q) - 1 |-> IF k < i THEN g[k] ELSE g[k + 1] - q[i]]
<1>3. f[0] = 0 /\ f[Len(q) - 1] = g[Len(q)] - q[i]
  <2>1. f[0] = 0
    BY <1>1, <1>2
  <2>2. f[Len(q) - 1] = IF Len(q) - 1 < i THEN g[Len(q) - 1] ELSE g[(Len(q) - 1) + 1] - q[i]
    BY <1>2
  <2>3. Len(q) - 1 < i => i = Len(q) /\ g[i] = g[i - 1] + q[i] /\ g[i - 1] \in Int /\ q[i] \in Int
    <3>1. i \in 0 .. Len(q) /\ i - 1 \in 0 .. Len(q)
      BY <1>2
    <3>2. g[i] = g[i - 1] + q[i] /\ g[i - 1] \in Int /\ q[i] \in Int
      BY <3>1, <1>1, <1>2
    <3> HIDE DEF f
    <3> QED BY <3>2, <1>2
  <2> HIDE DEF f
  <2> QED BY <2>1, <2>2, <2>3, <1>2
<1>4. ASSUME NEW k \in 1 .. Len(t) PROVE f[k] = f[k - 1] + t[k]
  <2>1. /\ k \in 1 .. Len(q) - 1 /\ k \in Nat /\ k - 1 \in 0 .. Len(q) - 1 /\ k \in 0 .. Len(q) - 1
        /\ k + 1 \in 1 .. Len(q) /\ (k + 1) - 1 = k /\ k \in 1 .. Len(q) /\ (k - 1) + 1 = k
        /\ k - 1 \in 0 .. Len(q) /\ k \in 0 .. Len(q) /\ k + 1 \in 0 .. Len(q)
    BY <1>2
  <2>2. /\ g[k] = g[k - 1] + q[k] /\ g[k + 1] = g[k] + q[k + 1]
        /\ g[k] \in Int /\ g[k - 1] \in Int /\ g[k + 1] \in Int
        /\ q[k] \in Int /\ q[k + 1] \in Int /\ q[i] \in Int
    BY <2>1, <1>1, <1>2
  <2>3. t[k] = IF k < i THEN q[k] ELSE q[k + 1]
    BY <2>1, <1>2
  <2>4. /\ f[k] = IF k < i THEN g[k] ELSE g[k + 1] - q[i]
        /\ f[k - 1] = IF k - 1 < i THEN g[k - 1] ELSE g[k] - q[i]
    BY <2>1
  <2> HIDE DEF f
  <2>5. CASE k < i
    BY <2>1, <2>2, <2>3, <2>4, <2>5, <1>2
  <2>6. CASE k = i
    <3>1. ~ (k < i) /\ k - 1 < i /\ q[i] = q[k]
      BY <2>6, <2>1, <1>2
    <3>2. t[k] = q[k + 1] /\ f[k] = g[k + 1] - q[k] /\ f[k - 1] = g[k - 1]
      BY <3>1, <2>3, <2>4
    <3> DEFINE a == g[k - 1]
               b == g[k]
               c == g[k + 1]
               d == q[k]
               e == q[k + 1]
    <3>3. b = a + d /\ c = b + e /\ a \in Int /\ b \in Int /\ c \in Int /\ d \in Int /\ e \in Int
      BY <2>2
    <3>4. c - d = a + e
      <4> HIDE DEF a, b, c, d, e
      <4> QED BY <3>3
    <3> QED BY <3>2, <3>4
  <2>7. CASE k > i
    <3>1. ~ (k < i) /\ ~ (k - 1 < i)
      BY <2>7, <2>1, <1>2
    <3> QED BY <3>1, <2>2, <2>3, <2>4
  <2> QED BY <2>1, <2>5, <2>6, <2>7, <1>2
<1> HIDE DEF f
<1>5. SumOf(t) = f[Len(t)]
  BY <1>2, <1>3, <1>4, SumBy
<1> QED BY <1>1, <1>2, <1>3, <1>5 DEF t

LEMMA SumAtLeast ==
  ASSUME NEW q \in Seq(Nat), NEW i \in 1 .. Len(q)
  PROVE  SumOf(q) \in Nat /\ q[i] <= SumOf(q)
<1>1. RemoveAt(q, i) \in Seq(Nat) /\ q[i] \in Nat /\ q \in Seq(Int)
  <2>1. RemoveAt(q, i) \in Seq(Nat)
    BY TakenOut
  <2>2. \A k \in 1 .. Len(q) : q[k] \in Nat
    BY ElementOfSeq
  <2> QED BY <2>1, <2>2
<1>2. SumOf(RemoveAt(q, i)) \in Nat /\ SumOf(q) \in Nat
  BY <1>1, SumNat
<1>3. SumOf(RemoveAt(q, i)) = SumOf(q) - q[i]
  BY <1>1, SumTakenOut
<1> QED BY <1>1, <1>2, <1>3

\* A function on the first n numbers with values in S is a list.
LEMMA ListBy ==
  ASSUME NEW S, NEW n \in Nat, NEW f, f = [i \in 1 .. n |-> f[i]], \A i \in 1 .. n : f[i] \in S
  PROVE  f \in Seq(S) /\ Len(f) = n /\ DOMAIN f = 1 .. n
<1>1. f \in [1 .. n -> S]
  OBVIOUS
<1> QED BY <1>1, IsASeq

----------------------------------------------------------------------------
(* A union of sets that are apart has as many members as they have.        *)

LEMMA UnionOfApart ==
  ASSUME NEW q \in Seq(Nat), NEW P,
         \A i \in 1 .. Len(q) : IsFiniteSet(P[i]) /\ Cardinality(P[i]) = q[i],
         \A i, j \in 1 .. Len(q) : i # j => P[i] \intersect P[j] = {}
  PROVE  LET U == UNION {P[i] : i \in 1 .. Len(q)} IN
         IsFiniteSet(U) /\ Cardinality(U) = SumOf(q)
<1> DEFINE n == Len(q)
           Up(k) == UNION {P[i] : i \in 1 .. k}
<1>1. PICK g \in [0 .. n -> Int] :
        /\ g[0] = 0 /\ \A k \in 1 .. n : g[k] = g[k - 1] + q[k]
        /\ SumOf(q) = g[n]
  <2>1. q \in Seq(Int)
    <3>1. \A i \in 1 .. n : q[i] \in Int
      BY ElementOfSeq
    <3> QED BY <3>1
  <2> QED BY <2>1, SumRecursive
<1>2. n \in Nat
  OBVIOUS
<1> HIDE DEF n
<1> DEFINE S == {k \in Nat : k <= n => IsFiniteSet(Up(k)) /\ Cardinality(Up(k)) = g[k]}
<1>3. 0 \in S
  <2>1. Up(0) = {}
    OBVIOUS
  <2> QED BY <2>1, <1>1, FS_EmptySet
<1>4. ASSUME NEW k \in Nat, k \in S PROVE k + 1 \in S
  <2>1. CASE k + 1 <= n
    <3>0. k + 1 \in 1 .. n /\ (k + 1) - 1 = k /\ k <= n
      BY <2>1, <1>2
    <3>1. 1 .. k + 1 = 1 .. k \union {k + 1} /\ 1 .. k \subseteq 1 .. n /\ k + 1 \notin 1 .. k
      BY <2>1, <1>2
    <3>2. IsFiniteSet(Up(k)) /\ Cardinality(Up(k)) = g[k]
      BY <3>0, <1>4
    <3>3. IsFiniteSet(P[k + 1]) /\ Cardinality(P[k + 1]) = q[k + 1]
      BY <3>0 DEF n
    <3>4. Up(k + 1) = Up(k) \union P[k + 1]
      BY <3>1
    <3>5. Up(k) \intersect P[k + 1] = {}
      <4>1. \A i \in 1 .. k : P[i] \intersect P[k + 1] = {}
        BY <3>0, <3>1 DEF n
      <4> QED BY <4>1
    <3>6. /\ Cardinality(Up(k)) \in Nat /\ Cardinality(P[k + 1]) \in Nat
          /\ Cardinality(Up(k) \intersect P[k + 1]) = 0
      BY <3>2, <3>3, <3>5, FS_CardinalityType, FS_EmptySet
    <3> HIDE DEF Up
    <3>7. /\ IsFiniteSet(Up(k) \union P[k + 1])
          /\ Cardinality(Up(k) \union P[k + 1])
               = Cardinality(Up(k)) + Cardinality(P[k + 1]) - Cardinality(Up(k) \intersect P[k + 1])
      BY <3>2, <3>3, FS_Union
    <3>8. g[k + 1] = g[k] + q[k + 1]
      BY <3>0, <1>1
    <3>9. Cardinality(Up(k) \union P[k + 1]) = g[k] + q[k + 1]
      BY <3>2, <3>3, <3>6, <3>7
    <3>10. IsFiniteSet(Up(k + 1)) /\ Cardinality(Up(k + 1)) = g[k + 1]
      BY <3>4, <3>7, <3>8, <3>9
    <3> QED BY <3>10
  <2>2. CASE ~ (k + 1 <= n)
    BY <2>2
  <2> QED BY <2>1, <2>2
<1>5. \A k \in Nat : k \in S
  <2> HIDE DEF S
  <2> QED BY <1>3, <1>4, Induction
<1>6. IsFiniteSet(Up(n)) /\ Cardinality(Up(n)) = g[n]
  <2> HIDE DEF Up
  <2> QED BY <1>2, <1>5
<1> QED BY <1>1, <1>6 DEF n

\* Pairs with one and the same first part.
LEMMA Tagged ==
  ASSUME NEW S, IsFiniteSet(S), NEW k
  PROVE  /\ IsFiniteSet({<<k, x>> : x \in S})
         /\ Cardinality({<<k, x>> : x \in S}) = Cardinality(S)
<1> DEFINE T == {<<k, x>> : x \in S}
           f == [x \in S |-> <<k, x>>]
<1>1. f \in Bijection(S, T)
  BY DEF Bijection, Injection, IsInjective, Surjection
<1> HIDE DEF f, T
<1>2. IsFiniteSet(T) /\ Cardinality(T) = Cardinality(S)
  <2>1. ExistsBijection(S, T)
    BY <1>1 DEF ExistsBijection
  <2> QED BY <2>1, FS_Bijection
<1> QED BY <1>2 DEF T

----------------------------------------------------------------------------
(* Lists of records with keys.                                             *)

Unique(list) == \A i, j \in DOMAIN list : list[i].key = list[j].key => i = j

\* What a reading call finds.
Find(list, k) == IF KeyAt(list, k) = 0 THEN None ELSE list[KeyAt(list, k)].value

LEMMA KeyAtIs ==
  ASSUME NEW S, NEW list \in Seq(S), NEW k
  PROVE  /\ KeyAt(list, k) = 0 => \A i \in DOMAIN list : list[i].key # k
         /\ KeyAt(list, k) # 0 => /\ KeyAt(list, k) \in DOMAIN list
                                 /\ list[KeyAt(list, k)].key = k
<1> DEFINE I == {i \in 1 .. Len(list) : list[i].key = k}
<1>1. KeyAt(list, k) = IF I # {} THEN Min(I) ELSE 0
  BY DEF KeyAt, SelectInSeq
<1>2. Len(list) \in Nat /\ DOMAIN list = 1 .. Len(list) /\ I \in SUBSET Nat
  OBVIOUS
<1>3. I # {} => Min(I) \in I
  BY <1>2, MinOf
<1> QED BY <1>1, <1>2, <1>3

LEMMA FindIs ==
  ASSUME NEW S, NEW list \in Seq(S), Unique(list)
  PROVE  /\ \A i \in DOMAIN list : /\ Find(list, list[i].key) = list[i].value
                                   /\ KeyAt(list, list[i].key) = i
         /\ \A k : (\A i \in DOMAIN list : list[i].key # k) => Find(list, k) = None
<1>1. \A i \in DOMAIN list : i # 0
  OBVIOUS
<1>2. ASSUME NEW i \in DOMAIN list
      PROVE  Find(list, list[i].key) = list[i].value /\ KeyAt(list, list[i].key) = i
  <2> DEFINE a == KeyAt(list, list[i].key)
  <2>1. a # 0 /\ a \in DOMAIN list /\ list[a].key = list[i].key
    BY KeyAtIs
  <2>2. a = i
    BY <2>1 DEF Unique
  <2> QED BY <2>1, <2>2 DEF Find
<1>3. ASSUME NEW k, \A i \in DOMAIN list : list[i].key # k PROVE Find(list, k) = None
  <2>1. KeyAt(list, k) = 0
    BY <1>3, KeyAtIs
  <2> QED BY <2>1 DEF Find
<1> QED BY <1>2, <1>3

LEMMA PutIs ==
  ASSUME NEW S, NEW list \in Seq(S), Unique(list), NEW record \in S
  PROVE  /\ Put(list, record) \in Seq(S) /\ Unique(Put(list, record))
         /\ \A i \in DOMAIN Put(list, record) :
              \/ Put(list, record)[i] = record
              \/ \E j \in DOMAIN list : Put(list, record)[i] = list[j]
         /\ \A k : Find(Put(list, record), k)
                     = IF k = record.key THEN record.value ELSE Find(list, k)
<1> DEFINE t == Put(list, record)
           a == KeyAt(list, record.key)
<1>1. Len(list) \in Nat /\ DOMAIN list = 1 .. Len(list)
  OBVIOUS
<1>2. CASE a # 0
  <2>1. a \in DOMAIN list /\ list[a].key = record.key
    BY <1>2, KeyAtIs
  <2>2. t = [list EXCEPT ![a] = record]
    BY <1>2 DEF Put
  <2> HIDE DEF t, a
  <2>3. t \in Seq(S) /\ DOMAIN t = DOMAIN list
        /\ \A i \in DOMAIN list : t[i] = IF i = a THEN record ELSE list[i]
    BY <2>1, <2>2, ExceptSeq
  <2>4. \A i \in DOMAIN list : t[i].key = list[i].key
    BY <2>1, <2>3
  <2>5. Unique(t)
    BY <2>3, <2>4 DEF Unique
  <2>6. ASSUME NEW k PROVE Find(t, k) = IF k = record.key THEN record.value ELSE Find(list, k)
    <3>1. CASE \E i \in DOMAIN list : list[i].key = k
      <4>1. PICK i \in DOMAIN list : list[i].key = k
        BY <3>1
      <4>2. Find(t, k) = t[i].value /\ Find(list, k) = list[i].value
        BY <4>1, <2>3, <2>4, <2>5, FindIs
      <4>3. k = record.key <=> i = a
        BY <4>1, <2>1 DEF Unique
      <4> QED BY <4>2, <4>3, <2>3
    <3>2. CASE ~ \E i \in DOMAIN list : list[i].key = k
      <4>1. Find(t, k) = None /\ Find(list, k) = None
        BY <3>2, <2>3, <2>4, <2>5, FindIs
      <4>2. k # record.key
        BY <3>2, <2>1
      <4> QED BY <4>1, <4>2
    <3> QED BY <3>1, <3>2
  <2>7. \A i \in DOMAIN t : t[i] = record \/ \E j \in DOMAIN list : t[i] = list[j]
    BY <2>3
  <2> QED BY <2>3, <2>5, <2>6, <2>7 DEF t
<1>3. CASE a = 0
  <2>1. \A i \in DOMAIN list : list[i].key # record.key
    BY <1>3, KeyAtIs
  <2>2. t = <<record>> \o list
    BY <1>3 DEF Put
  <2> HIDE DEF t, a
  <2>3. /\ t \in Seq(S) /\ DOMAIN t = 1 .. Len(list) + 1 /\ t[1] = record
        /\ \A i \in 2 .. Len(list) + 1 : t[i] = list[i - 1]
    BY <2>2, InFront
  <2>4. \A i \in 2 .. Len(list) + 1 : i - 1 \in DOMAIN list /\ t[i] = list[i - 1]
    BY <2>3, <1>1
  <2>5. \A i \in DOMAIN t : i = 1 \/ i \in 2 .. Len(list) + 1
    BY <2>3, <1>1
  <2>6. Unique(t)
    <3>1. ASSUME NEW i \in DOMAIN t, NEW j \in DOMAIN t, t[i].key = t[j].key PROVE i = j
      <4>1. CASE i = 1 /\ j # 1
        BY <4>1, <3>1, <2>1, <2>3, <2>4, <2>5
      <4>2. CASE i # 1 /\ j = 1
        BY <4>2, <3>1, <2>1, <2>3, <2>4, <2>5
      <4>3. CASE i # 1 /\ j # 1
        <5>1. /\ i \in 2 .. Len(list) + 1 /\ j \in 2 .. Len(list) + 1
              /\ i - 1 \in DOMAIN list /\ j - 1 \in DOMAIN list
              /\ list[i - 1].key = list[j - 1].key
          BY <4>3, <3>1, <2>4, <2>5
        <5>2. i - 1 = j - 1
          BY <5>1 DEF Unique
        <5> QED BY <5>1, <5>2
      <4> QED BY <4>1, <4>2, <4>3
    <3> QED BY <3>1 DEF Unique
  <2>7. ASSUME NEW k PROVE Find(t, k) = IF k = record.key THEN record.value ELSE Find(list, k)
    <3>1. CASE k = record.key
      <4>1. 1 \in DOMAIN t
        BY <2>3, <1>1
      <4> QED BY <4>1, <3>1, <2>3, <2>6, FindIs
    <3>2. CASE k # record.key /\ \E i \in DOMAIN list : list[i].key = k
      <4>1. PICK i \in DOMAIN list : list[i].key = k
        BY <3>2
      <4>2. i + 1 \in 2 .. Len(list) + 1 /\ i + 1 \in DOMAIN t /\ (i + 1) - 1 = i
        BY <1>1, <2>3
      <4>3. t[i + 1] = list[i]
        BY <4>2, <2>3
      <4> QED BY <4>1, <4>2, <4>3, <3>2, <2>3, <2>6, FindIs
    <3>3. CASE k # record.key /\ ~ \E i \in DOMAIN list : list[i].key = k
      <4>1. \A i \in DOMAIN t : t[i].key # k
        BY <3>3, <2>3, <2>4, <2>5
      <4>2. Find(t, k) = None /\ Find(list, k) = None
        BY <4>1, <3>3, <2>3, <2>6, FindIs
      <4> QED BY <4>2, <3>3
    <3> QED BY <3>1, <3>2, <3>3
  <2>8. \A i \in DOMAIN t : t[i] = record \/ \E j \in DOMAIN list : t[i] = list[j]
    BY <2>3, <2>4, <2>5
  <2> QED BY <2>3, <2>6, <2>7, <2>8 DEF t
<1> QED BY <1>2, <1>3

LEMMA RemovedIs ==
  ASSUME NEW S, NEW list \in Seq(S), Unique(list), NEW a \in DOMAIN list
  PROVE  /\ RemoveAt(list, a) \in Seq(S) /\ Unique(RemoveAt(list, a))
         /\ \A i \in DOMAIN RemoveAt(list, a) :
              \E j \in DOMAIN list : RemoveAt(list, a)[i] = list[j]
         /\ \A k : Find(RemoveAt(list, a), k)
                     = IF k = list[a].key THEN None ELSE Find(list, k)
<1> DEFINE t == RemoveAt(list, a)
           n == Len(list)
<1>1. n \in Nat /\ DOMAIN list = 1 .. n /\ a \in 1 .. n
  OBVIOUS
<1>2. /\ t \in Seq(S) /\ DOMAIN t = 1 .. n - 1
      /\ \A i \in 1 .. n - 1 : t[i] = IF i < a THEN list[i] ELSE list[i + 1]
  BY <1>1, TakenOut
<1> HIDE DEF t
<1> DEFINE At(i) == IF i < a THEN i ELSE i + 1
<1>3. \A i \in 1 .. n - 1 : At(i) \in 1 .. n /\ At(i) # a
  BY <1>1
<1>4. \A i \in 1 .. n - 1 : t[i] = list[At(i)]
  BY <1>2
<1>5. \A i, j \in 1 .. n - 1 : At(i) = At(j) => i = j
  BY <1>1
<1>6. \A m \in 1 .. n : m # a => \E i \in 1 .. n - 1 : At(i) = m
  <2>1. ASSUME NEW m \in 1 .. n, m < a PROVE \E i \in 1 .. n - 1 : At(i) = m
    <3>1. m \in 1 .. n - 1 /\ At(m) = m
      BY <2>1, <1>1
    <3> HIDE DEF At
    <3> QED BY <3>1
  <2>2. ASSUME NEW m \in 1 .. n, m > a PROVE \E i \in 1 .. n - 1 : At(i) = m
    <3>1. m - 1 \in 1 .. n - 1 /\ At(m - 1) = m
      BY <2>2, <1>1
    <3> HIDE DEF At
    <3> QED BY <3>1
  <2>3. \A m \in 1 .. n : m # a => m < a \/ m > a
    BY <1>1
  <2> QED BY <2>1, <2>2, <2>3
<1> HIDE DEF At, n
<1>7. Unique(t)
  <2>1. ASSUME NEW i \in DOMAIN t, NEW j \in DOMAIN t, t[i].key = t[j].key PROVE i = j
    <3>1. At(i) \in DOMAIN list /\ At(j) \in DOMAIN list /\ list[At(i)].key = list[At(j)].key
      BY <2>1, <1>1, <1>2, <1>3, <1>4
    <3>2. At(i) = At(j)
      BY <3>1 DEF Unique
    <3> QED BY <3>2, <1>2, <1>5
  <2> QED BY <2>1 DEF Unique
<1>8. ASSUME NEW k PROVE Find(t, k) = IF k = list[a].key THEN None ELSE Find(list, k)
  <2>1. CASE k = list[a].key
    <3>1. ASSUME NEW i \in DOMAIN t PROVE t[i].key # k
      <4>1. At(i) \in DOMAIN list /\ At(i) # a /\ t[i] = list[At(i)]
        BY <3>1, <1>1, <1>2, <1>3, <1>4
      <4> QED BY <4>1, <2>1, <1>1 DEF Unique
    <3> QED BY <3>1, <2>1, <1>2, <1>7, FindIs
  <2>2. CASE k # list[a].key /\ \E m \in DOMAIN list : list[m].key = k
    <3>1. PICK m \in DOMAIN list : list[m].key = k
      BY <2>2
    <3>2. PICK i \in 1 .. n - 1 : At(i) = m
      BY <3>1, <2>2, <1>1, <1>6
    <3>3. t[i] = list[m] /\ i \in DOMAIN t
      BY <3>2, <1>2, <1>4
    <3>4. Find(t, k) = t[i].value /\ Find(list, k) = list[m].value
      BY <3>1, <3>3, <1>2, <1>7, FindIs
    <3> QED BY <3>3, <3>4, <2>2
  <2>3. CASE k # list[a].key /\ ~ \E m \in DOMAIN list : list[m].key = k
    <3>1. \A i \in DOMAIN t : t[i].key # k
      BY <2>3, <1>1, <1>2, <1>3, <1>4
    <3>2. Find(t, k) = None /\ Find(list, k) = None
      BY <3>1, <2>3, <1>2, <1>7, FindIs
    <3> QED BY <3>2, <2>3
  <2> QED BY <2>1, <2>2, <2>3
<1>9. \A i \in DOMAIN t : \E j \in DOMAIN list : t[i] = list[j]
  BY <1>1, <1>2, <1>3, <1>4
<1> QED BY <1>2, <1>7, <1>8, <1>9 DEF t

LEMMA EmptyIs ==
  ASSUME NEW S
  PROVE  << >> \in Seq(S) /\ Unique(<< >>) /\ \A k : Find(<< >>, k) = None
<1>1. << >> \in Seq(S) /\ DOMAIN << >> = {}
  OBVIOUS
<1>2. Unique(<< >>)
  BY <1>1 DEF Unique
<1> QED BY <1>1, <1>2, FindIs

\* What eviction leaves of a list.
LEMMA TailIs ==
  ASSUME NEW S, NEW list \in Seq(S), list # << >>
  PROVE  /\ Tail(list) \in Seq(S) /\ Len(Tail(list)) = Len(list) - 1 /\ Len(list) \in Nat \ {0}
         /\ \A i \in 1 .. Len(list) - 1 : Tail(list)[i] = list[i + 1]
         /\ Tail(list) = RemoveAt(list, 1) /\ Head(list) = list[1] /\ 1 \in DOMAIN list
<1>1. Len(list) \in Nat \ {0}
  BY EmptySeq
<1>2. /\ Tail(list) \in Seq(S) /\ Len(Tail(list)) = Len(list) - 1
      /\ \A i \in 1 .. Len(list) - 1 : Tail(list)[i] = list[i + 1]
      /\ Head(list) = list[1]
  BY <1>1, HeadTailProperties
<1>3. /\ RemoveAt(list, 1) \in Seq(S) /\ Len(RemoveAt(list, 1)) = Len(list) - 1
      /\ \A i \in 1 .. Len(list) - 1 : RemoveAt(list, 1)[i] = list[i + 1]
  <2>1. 1 \in 1 .. Len(list) /\ \A i \in 1 .. Len(list) - 1 : ~ (i < 1)
    BY <1>1
  <2>2. /\ RemoveAt(list, 1) \in Seq(S) /\ Len(RemoveAt(list, 1)) = Len(list) - 1
        /\ \A i \in 1 .. Len(list) - 1 :
             RemoveAt(list, 1)[i] = IF i < 1 THEN list[i] ELSE list[i + 1]
    BY <2>1, TakenOut
  <2> QED BY <2>1, <2>2
<1>4. Tail(list) = RemoveAt(list, 1)
  <2> DEFINE t == Tail(list)
             u == RemoveAt(list, 1)
  <2>1. t \in Seq(S) /\ u \in Seq(S) /\ Len(t) = Len(u) /\ \A i \in 1 .. Len(t) : t[i] = u[i]
    BY <1>2, <1>3
  <2> HIDE DEF t, u
  <2>2. t = u
    BY <2>1, SeqEqual
  <2> QED BY <2>2 DEF t, u
<1> QED BY <1>1, <1>2, <1>4

----------------------------------------------------------------------------
(* Bytes: of a list, and of the map that it is.                            *)

\* The records of a list have keys of theirs, and values.  A key counts for c.
Keyed(list, keys) ==
  /\ Unique(list)
  /\ \A i \in DOMAIN list : list[i].key \in keys /\ list[i].value \in Values
Weights(list, c) == [i \in DOMAIN list |-> c[list[i].key] + Length[list[i].value]]
Costs(c, keys) == \A k \in keys : c[k] \in Nat

MapBytes(map, c) ==
  UNION {{<<k, n>> : n \in 1 .. c[k] + Length[map[k]]} : k \in {k \in DOMAIN map : map[k] # None}}

LEMMA MapIsFind ==
  ASSUME NEW list, NEW keys
  PROVE  MapOf(list, keys) = [k \in keys |-> Find(list, k)]
BY DEF MapOf, Find

LEMMA LengthNat == \A x \in Keys \union Values \union Names \union Urls : Length[x] \in Nat
BY StorageAssumption

LEMMA WeightsNat ==
  ASSUME NEW S, NEW list \in Seq(S), NEW keys, NEW c, Keyed(list, keys), Costs(c, keys)
  PROVE  /\ Weights(list, c) \in Seq(Nat) /\ Len(Weights(list, c)) = Len(list)
         /\ Len(list) \in Nat /\ DOMAIN list = 1 .. Len(list)
<1>1. Len(list) \in Nat /\ DOMAIN list = 1 .. Len(list)
  OBVIOUS
<1>2. \A i \in 1 .. Len(list) : Weights(list, c)[i] \in Nat
  <2>1. ASSUME NEW i \in 1 .. Len(list) PROVE c[list[i].key] \in Nat /\ Length[list[i].value] \in Nat
    BY <1>1, LengthNat DEF Keyed, Costs
  <2> QED BY <2>1, <1>1 DEF Weights
<1>3. Weights(list, c) = [i \in 1 .. Len(list) |-> Weights(list, c)[i]]
  BY <1>1 DEF Weights
<1> QED BY <1>1, <1>2, <1>3, ListBy

LEMMA ListBytes ==
  ASSUME NEW S, NEW list \in Seq(S), NEW keys, NEW c, Keyed(list, keys), Costs(c, keys)
  PROVE  /\ IsFiniteSet(MapBytes(MapOf(list, keys), c))
         /\ Cardinality(MapBytes(MapOf(list, keys), c)) = SumOf(Weights(list, c))
<1> DEFINE q == Weights(list, c)
           map == MapOf(list, keys)
           P == [i \in 1 .. Len(q) |-> {<<list[i].key, n>> : n \in 1 .. q[i]}]
<1>1. /\ q \in Seq(Nat) /\ Len(q) = Len(list) /\ Len(list) \in Nat
      /\ DOMAIN list = 1 .. Len(list)
  BY WeightsNat
<1>2. \A i \in DOMAIN list : q[i] = c[list[i].key] + Length[list[i].value]
  BY DEF Weights
<1> HIDE DEF q
<1>3. ASSUME NEW i \in 1 .. Len(q) PROVE IsFiniteSet(P[i]) /\ Cardinality(P[i]) = q[i]
  <2>1. q[i] \in Nat /\ P[i] = {<<list[i].key, n>> : n \in 1 .. q[i]}
    BY <1>1, ElementOfSeq
  <2>2. IsFiniteSet(1 .. q[i]) /\ Cardinality(1 .. q[i]) = q[i]
    BY <2>1, UpTo
  <2>3. /\ IsFiniteSet({<<list[i].key, n>> : n \in 1 .. q[i]})
        /\ Cardinality({<<list[i].key, n>> : n \in 1 .. q[i]}) = Cardinality(1 .. q[i])
    BY <2>2, Tagged
  <2> QED BY <2>1, <2>2, <2>3
<1>4. ASSUME NEW i \in 1 .. Len(q), NEW j \in 1 .. Len(q), i # j PROVE P[i] \intersect P[j] = {}
  <2>1. list[i].key # list[j].key
    BY <1>1, <1>4 DEF Keyed, Unique
  <2> QED BY <2>1
<1>5. LET U == UNION {P[i] : i \in 1 .. Len(q)} IN IsFiniteSet(U) /\ Cardinality(U) = SumOf(q)
  <2> HIDE DEF P
  <2> QED BY <1>1, <1>3, <1>4, UnionOfApart
<1>6. Unique(list)
  BY DEF Keyed
<1>7. \A i \in DOMAIN list :
        list[i].key \in DOMAIN map /\ map[list[i].key] = list[i].value /\ list[i].value # None
  BY <1>6, FindIs, MapIsFind, StorageAssumption DEF Keyed
<1>8. \A k \in DOMAIN map : map[k] # None => \E i \in DOMAIN list : list[i].key = k
  BY <1>6, FindIs, MapIsFind
<1> HIDE DEF map
<1>9. UNION {P[i] : i \in 1 .. Len(q)} = MapBytes(map, c)
  <2>1. ASSUME NEW x \in UNION {P[i] : i \in 1 .. Len(q)} PROVE x \in MapBytes(map, c)
    <3>1. PICK i \in 1 .. Len(q) : x \in P[i]
      BY <2>1
    <3>2. i \in DOMAIN list /\ x \in {<<list[i].key, n>> : n \in 1 .. c[list[i].key] + Length[map[list[i].key]]}
      BY <3>1, <1>1, <1>2, <1>7
    <3>3. list[i].key \in {k \in DOMAIN map : map[k] # None}
      BY <3>2, <1>7
    <3> QED BY <3>2, <3>3 DEF MapBytes
  <2>2. ASSUME NEW x \in MapBytes(map, c) PROVE x \in UNION {P[i] : i \in 1 .. Len(q)}
    <3>1. PICK k \in DOMAIN map : map[k] # None /\ x \in {<<k, n>> : n \in 1 .. c[k] + Length[map[k]]}
      BY <2>2 DEF MapBytes
    <3>2. PICK i \in DOMAIN list : list[i].key = k
      BY <3>1, <1>8
    <3>3. i \in 1 .. Len(q) /\ q[i] = c[k] + Length[map[k]]
      BY <3>2, <1>1, <1>2, <1>7
    <3>4. x \in P[i]
      BY <3>1, <3>2, <3>3
    <3> QED BY <3>3, <3>4
  <2> QED BY <2>1, <2>2
<1> QED BY <1>5, <1>9 DEF map, q

----------------------------------------------------------------------------
(* The lists of the storage engine.                                        *)

Sized(list, c) == \A i \in DOMAIN list : list[i].size = c[list[i].key] + Length[list[i].value]

\* What a cookie's key counts for.
NameLength == [k \in CookieKeys |-> Length[k[1]]]

PairList(list, keys) == list \in Seq(PairsOf(keys)) /\ Keyed(list, keys) /\ Sized(list, Length)
CookieList(list) ==
  list \in Seq(PairsOf(CookieKeys)) /\ Keyed(list, CookieKeys) /\ Sized(list, NameLength)
RecordList(list) == list \in Seq([key : Keys, value : Values]) /\ Keyed(list, Keys)

\* The total kept beside the entries of a cache is the sum of their sizes.
BoxOk(box) ==
  /\ box \in [entries : Seq(PairsOf(Urls)), total : Nat]
  /\ PairList(box.entries, Urls) /\ box.total = Sizes(box.entries)

LEMMA SizesAreWeights ==
  ASSUME NEW list, NEW c, Sized(list, c)
  PROVE  Sizes(list) = SumOf(Weights(list, c))
<1>1. [i \in DOMAIN list |-> list[i].size] = Weights(list, c)
  BY DEF Sized, Weights
<1> QED BY <1>1 DEF Sizes

LEMMA TheCosts ==
  /\ Costs(Length, Keys) /\ Costs(Length, Urls) /\ Costs(NameLength, CookieKeys)
<1>1. Costs(Length, Keys) /\ Costs(Length, Urls)
  BY LengthNat DEF Costs
<1>2. ASSUME NEW k \in CookieKeys PROVE NameLength[k] \in Nat
  <2>1. k[1] \in Names
    BY DEF CookieKeys
  <2> QED BY <2>1, LengthNat DEF NameLength
<1> QED BY <1>1, <1>2 DEF Costs

LEMMA PairBytes ==
  ASSUME NEW list, NEW keys, PairList(list, keys), Costs(Length, keys)
  PROVE  /\ IsFiniteSet(MapBytes(MapOf(list, keys), Length))
         /\ Cardinality(MapBytes(MapOf(list, keys), Length)) = Sizes(list)
<1>1. list \in Seq(PairsOf(keys)) /\ Keyed(list, keys) /\ Sized(list, Length)
  BY DEF PairList
<1>2. Sizes(list) = SumOf(Weights(list, Length))
  BY <1>1, SizesAreWeights
<1>3. /\ IsFiniteSet(MapBytes(MapOf(list, keys), Length))
      /\ Cardinality(MapBytes(MapOf(list, keys), Length)) = SumOf(Weights(list, Length))
  BY <1>1, ListBytes
<1> QED BY <1>2, <1>3

LEMMA CookiesBytes ==
  ASSUME NEW list, CookieList(list)
  PROVE  /\ IsFiniteSet(MapBytes(MapOf(list, CookieKeys), NameLength))
         /\ Cardinality(MapBytes(MapOf(list, CookieKeys), NameLength)) = Sizes(list)
<1>1. /\ list \in Seq(PairsOf(CookieKeys)) /\ Keyed(list, CookieKeys) /\ Sized(list, NameLength)
      /\ Costs(NameLength, CookieKeys)
  BY TheCosts DEF CookieList
<1>2. Sizes(list) = SumOf(Weights(list, NameLength))
  BY <1>1, SizesAreWeights
<1>3. /\ IsFiniteSet(MapBytes(MapOf(list, CookieKeys), NameLength))
      /\ Cardinality(MapBytes(MapOf(list, CookieKeys), NameLength)) = SumOf(Weights(list, NameLength))
  BY <1>1, ListBytes
<1> QED BY <1>2, <1>3

LEMMA RecordsBytes ==
  ASSUME NEW list, RecordList(list)
  PROVE  /\ IsFiniteSet(MapBytes(MapOf(list, Keys), Length))
         /\ Cardinality(MapBytes(MapOf(list, Keys), Length)) = RecordBytes(list)
         /\ RecordBytes(list) \in Nat
<1>1. list \in Seq([key : Keys, value : Values]) /\ Keyed(list, Keys) /\ Costs(Length, Keys)
  BY TheCosts DEF RecordList
<1>2. RecordBytes(list) = SumOf(Weights(list, Length))
  BY DEF RecordBytes, Weights, Bytes
<1>3. /\ IsFiniteSet(MapBytes(MapOf(list, Keys), Length))
      /\ Cardinality(MapBytes(MapOf(list, Keys), Length)) = SumOf(Weights(list, Length))
  BY <1>1, ListBytes
<1>4. SumOf(Weights(list, Length)) \in Nat
  BY <1>1, WeightsNat, SumNat
<1> QED BY <1>2, <1>3, <1>4

----------------------------------------------------------------------------
(* The usage is the bytes that can be read.                                *)

Lists ==
  /\ PairList(areas[Local], Keys) /\ PairList(areas[Session], Keys)
  /\ CookieList(cookies)
  /\ \A s \in DOMAIN stores : RecordList(stores[s].records)
  /\ \A c \in DOMAIN boxes : BoxOk(boxes[c])
  /\ \A i, j \in DOMAIN caches : caches[i].id = caches[j].id => i = j

StorageInv == TypeOK /\ Lists

Live == {caches[i].id : i \in DOMAIN caches}

\* Of several maps, each byte with the number of its map.
AllBytes(maps, those) == UNION {{<<i, byte>> : byte \in MapBytes(maps[i], Length)} : i \in those}

LEMMA StoresBytes ==
  ASSUME StorageInv
  PROVE  /\ IsFiniteSet(AllBytes(RecordMaps, Counted))
         /\ Cardinality(AllBytes(RecordMaps, Counted)) = IndexedDBBytes
         /\ IndexedDBBytes \in Nat
<1> DEFINE q == [s \in DOMAIN stores |-> IF s \in Counted THEN RecordBytes(stores[s].records) ELSE 0]
           Of(s) == {<<s, byte>> : byte \in MapBytes(RecordMaps[s], Length)}
           P == [s \in 1 .. Len(q) |-> IF s \in Counted THEN Of(s) ELSE {}]
<1>1. /\ DOMAIN stores = 1 .. Len(stores) /\ Len(stores) \in Nat
      /\ \A s \in DOMAIN stores : RecordList(stores[s].records)
  BY DEF StorageInv, TypeOK, Lists
<1>2. ASSUME NEW s \in DOMAIN stores
      PROVE  /\ IsFiniteSet(Of(s)) /\ Cardinality(Of(s)) = RecordBytes(stores[s].records)
             /\ RecordBytes(stores[s].records) \in Nat
  <2> DEFINE B == MapBytes(MapOf(stores[s].records, Keys), Length)
  <2>1. IsFiniteSet(B) /\ Cardinality(B) = RecordBytes(stores[s].records)
        /\ RecordBytes(stores[s].records) \in Nat
    BY <1>1, RecordsBytes
  <2>2. MapBytes(RecordMaps[s], Length) = B
    BY DEF RecordMaps
  <2> HIDE DEF B
  <2>3. IsFiniteSet({<<s, byte>> : byte \in B}) /\ Cardinality({<<s, byte>> : byte \in B}) = Cardinality(B)
    BY <2>1, Tagged
  <2> QED BY <2>1, <2>2, <2>3
<1> HIDE DEF Of
<1>3. q \in Seq(Nat) /\ Len(q) = Len(stores)
  <2>1. \A s \in 1 .. Len(stores) : q[s] \in Nat
    BY <1>1, <1>2
  <2>2. q = [s \in 1 .. Len(stores) |-> q[s]]
    BY <1>1
  <2> HIDE DEF q
  <2> QED BY <2>1, <2>2, <1>1, ListBy
<1>4. \A s \in DOMAIN stores : q[s] = IF s \in Counted THEN RecordBytes(stores[s].records) ELSE 0
  OBVIOUS
<1>5. SumOf(q) = IndexedDBBytes
  BY DEF IndexedDBBytes
<1> HIDE DEF q
<1>6. ASSUME NEW s \in 1 .. Len(q) PROVE IsFiniteSet(P[s]) /\ Cardinality(P[s]) = q[s]
  <2>1. s \in DOMAIN stores
    BY <1>1, <1>3
  <2>2. CASE s \in Counted
    BY <2>1, <2>2, <1>2, <1>4
  <2>3. CASE s \notin Counted
    BY <2>1, <2>3, <1>4, FS_EmptySet
  <2> QED BY <2>2, <2>3
<1>7. ASSUME NEW s \in 1 .. Len(q), NEW t \in 1 .. Len(q), s # t PROVE P[s] \intersect P[t] = {}
  BY <1>7 DEF Of
<1>8. LET U == UNION {P[s] : s \in 1 .. Len(q)} IN IsFiniteSet(U) /\ Cardinality(U) = SumOf(q)
  <2> HIDE DEF P
  <2> QED BY <1>3, <1>6, <1>7, UnionOfApart
<1>9. UNION {P[s] : s \in 1 .. Len(q)} = UNION {Of(s) : s \in Counted}
  <2>1. Counted \subseteq 1 .. Len(q)
    BY <1>1, <1>3 DEF Counted
  <2> QED BY <2>1
<1>10. AllBytes(RecordMaps, Counted) = UNION {Of(s) : s \in Counted}
  BY DEF AllBytes, Of
<1> HIDE DEF P
<1>11. SumOf(q) \in Nat
  BY <1>3, SumNat
<1> QED BY <1>5, <1>8, <1>9, <1>10, <1>11

LEMMA CachesBytes ==
  ASSUME StorageInv
  PROVE  LET total == SumOf([i \in DOMAIN caches |-> boxes[caches[i].id].total]) IN
         /\ IsFiniteSet(AllBytes(EntryMaps, Live))
         /\ Cardinality(AllBytes(EntryMaps, Live)) = total
         /\ total \in Nat
<1> DEFINE q == [i \in DOMAIN caches |-> boxes[caches[i].id].total]
           Of(c) == {<<c, byte>> : byte \in MapBytes(EntryMaps[c], Length)}
           P == [i \in 1 .. Len(q) |-> Of(caches[i].id)]
<1>1. /\ DOMAIN caches = 1 .. Len(caches) /\ Len(caches) \in Nat
      /\ \A c \in DOMAIN boxes : BoxOk(boxes[c])
      /\ \A i \in DOMAIN caches : caches[i].id \in DOMAIN boxes
  <2>1. /\ caches \in Seq([id : 1 .. Len(boxes), name : Names])
        /\ boxes \in Seq([entries : Seq(PairsOf(Urls)), total : Nat])
        /\ \A c \in DOMAIN boxes : BoxOk(boxes[c])
    BY DEF StorageInv, TypeOK, Lists
  <2>2. \A i \in DOMAIN caches : caches[i].id \in 1 .. Len(boxes)
    <3>1. \A i \in 1 .. Len(caches) : caches[i] \in [id : 1 .. Len(boxes), name : Names]
      BY <2>1, ElementOfSeq
    <3>2. DOMAIN caches = 1 .. Len(caches)
      BY <2>1
    <3> QED BY <3>1, <3>2
  <2> QED BY <2>1, <2>2
<1>2. ASSUME NEW c \in DOMAIN boxes
      PROVE  IsFiniteSet(Of(c)) /\ Cardinality(Of(c)) = boxes[c].total /\ boxes[c].total \in Nat
  <2> DEFINE B == MapBytes(MapOf(boxes[c].entries, Urls), Length)
  <2>1. /\ PairList(boxes[c].entries, Urls) /\ boxes[c].total = Sizes(boxes[c].entries)
        /\ boxes[c].total \in Nat
    BY <1>1 DEF BoxOk
  <2>2. IsFiniteSet(B) /\ Cardinality(B) = Sizes(boxes[c].entries)
    BY <2>1, PairBytes, TheCosts
  <2>3. MapBytes(EntryMaps[c], Length) = B
    BY DEF EntryMaps
  <2> HIDE DEF B
  <2>4. IsFiniteSet({<<c, byte>> : byte \in B}) /\ Cardinality({<<c, byte>> : byte \in B}) = Cardinality(B)
    BY <2>2, Tagged
  <2> QED BY <2>1, <2>2, <2>3, <2>4
<1> HIDE DEF Of
<1>3. q \in Seq(Nat) /\ Len(q) = Len(caches)
  <2>1. \A i \in 1 .. Len(caches) : q[i] \in Nat
    BY <1>1, <1>2
  <2>2. q = [i \in 1 .. Len(caches) |-> q[i]]
    BY <1>1
  <2> HIDE DEF q
  <2> QED BY <2>1, <2>2, <1>1, ListBy
<1>4. \A i \in DOMAIN caches : q[i] = boxes[caches[i].id].total
  OBVIOUS
<1>5. SumOf(q) = SumOf([i \in DOMAIN caches |-> boxes[caches[i].id].total])
  OBVIOUS
<1> HIDE DEF q
<1>6. ASSUME NEW i \in 1 .. Len(q) PROVE IsFiniteSet(P[i]) /\ Cardinality(P[i]) = q[i]
  BY <1>1, <1>2, <1>3, <1>4
<1>7. ASSUME NEW i \in 1 .. Len(q), NEW j \in 1 .. Len(q), i # j PROVE P[i] \intersect P[j] = {}
  <2>1. caches[i].id # caches[j].id
    BY <1>1, <1>3, <1>7 DEF StorageInv, Lists
  <2> QED BY <2>1 DEF Of
<1>8. LET U == UNION {P[i] : i \in 1 .. Len(q)} IN IsFiniteSet(U) /\ Cardinality(U) = SumOf(q)
  <2> HIDE DEF P
  <2> QED BY <1>3, <1>6, <1>7, UnionOfApart
<1>9. UNION {P[i] : i \in 1 .. Len(q)} = UNION {Of(c) : c \in Live}
  BY <1>1, <1>3 DEF Live
<1>10. AllBytes(EntryMaps, Live) = UNION {Of(c) : c \in Live}
  BY DEF AllBytes, Of
<1> HIDE DEF P
<1>11. SumOf(q) \in Nat
  BY <1>3, SumNat
<1> QED BY <1>5, <1>8, <1>9, <1>10, <1>11

LEMMA UsedIs ==
  ASSUME StorageInv
  PROVE  Used = Maps!Total /\ Used \in Nat
<1> DEFINE L == Sizes(areas[Local])
           S == Sizes(areas[Session])
           C == Sizes(cookies)
           T == SumOf([i \in DOMAIN caches |-> boxes[caches[i].id].total])
<1>1. Used = L + S + C + IndexedDBBytes + T
  BY DEF Used, UsedWith
<1>2. /\ L = Cardinality(MapBytes(PairMaps[Local], Length)) /\ L \in Nat
      /\ S = Cardinality(MapBytes(PairMaps[Session], Length)) /\ S \in Nat
  <2>1. PairList(areas[Local], Keys) /\ PairList(areas[Session], Keys)
    BY DEF StorageInv, Lists
  <2>2. PairMaps[Local] = MapOf(areas[Local], Keys) /\ PairMaps[Session] = MapOf(areas[Session], Keys)
    BY DEF PairMaps
  <2> QED BY <2>1, <2>2, PairBytes, TheCosts, FS_CardinalityType
<1>3. C = Cardinality(MapBytes(MapOf(cookies, CookieKeys), NameLength)) /\ C \in Nat
  <2>1. CookieList(cookies)
    BY DEF StorageInv, Lists
  <2> QED BY <2>1, CookiesBytes, FS_CardinalityType
<1>4. IndexedDBBytes = Cardinality(AllBytes(RecordMaps, Counted)) /\ IndexedDBBytes \in Nat
  BY StoresBytes
<1>5. T = Cardinality(AllBytes(EntryMaps, Live)) /\ T \in Nat
  BY CachesBytes
<1> HIDE DEF L, S, C, T
<1>6. \A map : Maps!BytesOf(map) = MapBytes(map, Length)
  BY DEF Maps!BytesOf, MapBytes
<1>7. Maps!CookieBytes(MapOf(cookies, CookieKeys)) = MapBytes(MapOf(cookies, CookieKeys), NameLength)
  <2> DEFINE map == MapOf(cookies, CookieKeys)
  <2>1. DOMAIN map = CookieKeys
    BY DEF MapOf
  <2> HIDE DEF map
  <2>2. \A k \in DOMAIN map : NameLength[k] = Length[k[1]]
    BY <2>1 DEF NameLength
  <2>3. Maps!CookieBytes(map) = MapBytes(map, NameLength)
    BY <2>2 DEF Maps!CookieBytes, MapBytes
  <2> QED BY <2>3 DEF map
<1>8. \A maps, those : Maps!BytesOfAll(maps, those) = AllBytes(maps, those)
  BY <1>6 DEF Maps!BytesOfAll, AllBytes
<1>9. Maps!Total =
        Cardinality(MapBytes(PairMaps[Local], Length)) + Cardinality(MapBytes(PairMaps[Session], Length))
          + Cardinality(MapBytes(MapOf(cookies, CookieKeys), NameLength))
          + Cardinality(AllBytes(RecordMaps, Counted)) + Cardinality(AllBytes(EntryMaps, Live))
  <2>1. \A set : Maps!Cardinality(set) = Cardinality(set)
    BY DEF Maps!Cardinality, Cardinality
  <2> QED BY <1>6, <1>7, <1>8, <2>1 DEF Maps!Total, Live
<1> QED BY <1>1, <1>2, <1>3, <1>4, <1>5, <1>9

----------------------------------------------------------------------------
(* What putting and taking out do to the lists and to their maps.          *)

LEMMA PutKeeps ==
  ASSUME NEW S, NEW list \in Seq(S), NEW keys, Keyed(list, keys),
         NEW record \in S, record.key \in keys, record.value \in Values
  PROVE  /\ Put(list, record) \in Seq(S) /\ Keyed(Put(list, record), keys)
         /\ MapOf(Put(list, record), keys)
              = [MapOf(list, keys) EXCEPT ![record.key] = record.value]
         /\ \A c : Sized(list, c) /\ record.size = c[record.key] + Length[record.value]
                    => Sized(Put(list, record), c)
<1> DEFINE t == Put(list, record)
<1>1. Unique(list)
  BY DEF Keyed
<1>2. /\ t \in Seq(S) /\ Unique(t)
      /\ \A i \in DOMAIN t : t[i] = record \/ \E j \in DOMAIN list : t[i] = list[j]
      /\ \A k : Find(t, k) = IF k = record.key THEN record.value ELSE Find(list, k)
  BY <1>1, PutIs
<1> HIDE DEF t
<1>3. Keyed(t, keys)
  BY <1>2 DEF Keyed
<1>4. MapOf(t, keys) = [MapOf(list, keys) EXCEPT ![record.key] = record.value]
  BY <1>2, MapIsFind
<1>5. \A c : Sized(list, c) /\ record.size = c[record.key] + Length[record.value] => Sized(t, c)
  BY <1>2 DEF Sized
<1> QED BY <1>2, <1>3, <1>4, <1>5 DEF t

LEMMA RemovedKeeps ==
  ASSUME NEW S, NEW list \in Seq(S), NEW keys, Keyed(list, keys), NEW a \in DOMAIN list
  PROVE  /\ RemoveAt(list, a) \in Seq(S) /\ Keyed(RemoveAt(list, a), keys)
         /\ list[a].key \in keys
         /\ MapOf(RemoveAt(list, a), keys) = [MapOf(list, keys) EXCEPT ![list[a].key] = None]
         /\ \A c : Sized(list, c) => Sized(RemoveAt(list, a), c)
<1> DEFINE t == RemoveAt(list, a)
           k0 == list[a].key
<1>1. Unique(list) /\ k0 \in keys
  BY DEF Keyed
<1>2. /\ t \in Seq(S) /\ Unique(t)
      /\ \A i \in DOMAIN t : \E j \in DOMAIN list : t[i] = list[j]
      /\ \A k : Find(t, k) = IF k = k0 THEN None ELSE Find(list, k)
  BY <1>1, RemovedIs
<1> HIDE DEF t, k0
<1>3. Keyed(t, keys)
  BY <1>2 DEF Keyed
<1>4. MapOf(t, keys) = [MapOf(list, keys) EXCEPT ![k0] = None]
  BY <1>1, <1>2, MapIsFind
<1>5. \A c : Sized(list, c) => Sized(t, c)
  BY <1>2 DEF Sized
<1> QED BY <1>1, <1>2, <1>3, <1>4, <1>5 DEF t, k0

LEMMA EmptyKeeps ==
  ASSUME NEW S, NEW keys, NEW c
  PROVE  /\ << >> \in Seq(S) /\ Keyed(<< >>, keys) /\ Sized(<< >>, c)
         /\ MapOf(<< >>, keys) = Maps!Empty(keys) /\ Sizes(<< >>) = 0
<1>1. << >> \in Seq(S) /\ Unique(<< >>) /\ (\A k : Find(<< >>, k) = None) /\ DOMAIN << >> = {}
  BY EmptyIs
<1>2. MapOf(<< >>, keys) = Maps!Empty(keys)
  BY <1>1, MapIsFind DEF Maps!Empty
<1>3. Sizes(<< >>) = 0
  <2>1. [i \in DOMAIN << >> |-> << >>[i].size] = << >>
    BY <1>1
  <2> QED BY <2>1, SumEmpty DEF Sizes
<1> QED BY <1>1, <1>2, <1>3 DEF Keyed, Sized

\* The sizes of a list of pairs, of one that is put in and of one taken out.
SizeList(list) == [i \in DOMAIN list |-> list[i].size]

LEMMA SizesNat ==
  ASSUME NEW keys, NEW list \in Seq(PairsOf(keys))
  PROVE  /\ SizeList(list) \in Seq(Nat) /\ SizeList(list) \in Seq(Int)
         /\ Len(SizeList(list)) = Len(list) /\ Len(list) \in Nat /\ DOMAIN list = 1 .. Len(list)
         /\ \A i \in DOMAIN list : /\ SizeList(list)[i] = list[i].size /\ list[i].size \in Nat
                                   /\ list[i].size <= Sizes(list)
         /\ Sizes(list) = SumOf(SizeList(list)) /\ Sizes(list) \in Nat
<1>1. Len(list) \in Nat /\ DOMAIN list = 1 .. Len(list)
  OBVIOUS
<1>2. \A i \in DOMAIN list : SizeList(list)[i] = list[i].size /\ list[i].size \in Nat
  <2>1. \A i \in 1 .. Len(list) : list[i] \in PairsOf(keys)
    BY ElementOfSeq
  <2> QED BY <2>1, <1>1 DEF PairsOf, SizeList
<1>3. SizeList(list) = [i \in 1 .. Len(list) |-> SizeList(list)[i]]
  BY <1>1 DEF SizeList
<1>4. SizeList(list) \in Seq(Nat) /\ Len(SizeList(list)) = Len(list)
  BY <1>1, <1>2, <1>3, ListBy
<1>5. SizeList(list) \in Seq(Int)
  <2>1. \A i \in 1 .. Len(list) : SizeList(list)[i] \in Int
    BY <1>1, <1>2
  <2> QED BY <1>1, <1>3, <2>1, ListBy
<1>6. Sizes(list) = SumOf(SizeList(list))
  BY DEF Sizes, SizeList
<1>7. ASSUME NEW i \in DOMAIN list PROVE list[i].size <= Sizes(list)
  <2>1. i \in 1 .. Len(SizeList(list))
    BY <1>1, <1>4
  <2>2. SizeList(list)[i] <= SumOf(SizeList(list))
    BY <1>4, <2>1, SumAtLeast
  <2> QED BY <2>2, <1>2, <1>6
<1>8. Sizes(list) \in Nat
  BY <1>4, <1>6, SumNat
<1> QED BY <1>1, <1>2, <1>4, <1>5, <1>6, <1>7, <1>8

LEMMA SizesPut ==
  ASSUME NEW keys, NEW list \in Seq(PairsOf(keys)), NEW record \in PairsOf(keys)
  PROVE  LET at == KeyAt(list, record.key)
             old == IF at = 0 THEN 0 ELSE list[at].size
         IN Sizes(Put(list, record)) = Sizes(list) - old + record.size
<1> DEFINE at == KeyAt(list, record.key)
           t == Put(list, record)
           q == SizeList(list)
<1>1. /\ q \in Seq(Int) /\ Len(q) = Len(list) /\ Len(list) \in Nat /\ DOMAIN list = 1 .. Len(list)
      /\ \A i \in DOMAIN list : q[i] = list[i].size /\ list[i].size \in Nat
      /\ Sizes(list) = SumOf(q) /\ Sizes(list) \in Nat
  BY SizesNat
<1>2. record.size \in Nat
  BY DEF PairsOf
<1>3. CASE at # 0
  <2>1. at \in DOMAIN list
    BY <1>3, KeyAtIs
  <2>2. t = [list EXCEPT ![at] = record]
    BY <1>3 DEF Put
  <2> HIDE DEF t, at
  <2>3. /\ t \in Seq(PairsOf(keys)) /\ DOMAIN t = DOMAIN list
        /\ \A i \in DOMAIN list : t[i] = IF i = at THEN record ELSE list[i]
    BY <2>1, <2>2, ExceptSeq
  <2>4. /\ SizeList(t) \in Seq(Int) /\ Len(SizeList(t)) = Len(t) /\ DOMAIN t = 1 .. Len(t) /\ Len(t) \in Nat
        /\ \A i \in DOMAIN t : SizeList(t)[i] = t[i].size
        /\ Sizes(t) = SumOf(SizeList(t))
    BY <2>3, SizesNat
  <2> HIDE DEF q
  <2>5. Len(SizeList(t)) = Len(q) /\ at \in 1 .. Len(q)
    BY <1>1, <2>1, <2>3, <2>4
  <2>6. \A k \in 1 .. Len(q) : SizeList(t)[k] = IF k = at THEN record.size ELSE q[k]
    BY <1>1, <2>3, <2>4
  <2>7. SumOf(SizeList(t)) = SumOf(q) - q[at] + record.size
    BY <1>1, <1>2, <2>4, <2>5, <2>6, SumUpdate
  <2>8. q[at] = list[at].size
    BY <1>1, <2>1
  <2> QED BY <1>1, <1>3, <2>4, <2>7, <2>8 DEF t, at
<1>4. CASE at = 0
  <2>1. t = <<record>> \o list
    BY <1>4 DEF Put
  <2> HIDE DEF t, at
  <2>2. /\ t \in Seq(PairsOf(keys)) /\ Len(t) = Len(list) + 1 /\ DOMAIN t = 1 .. Len(list) + 1
        /\ t[1] = record /\ \A i \in 2 .. Len(list) + 1 : t[i] = list[i - 1]
    BY <2>1, InFront
  <2>3. /\ SizeList(t) \in Seq(Int) /\ Len(SizeList(t)) = Len(t)
        /\ \A i \in DOMAIN t : SizeList(t)[i] = t[i].size
        /\ Sizes(t) = SumOf(SizeList(t))
    BY <2>2, SizesNat
  <2> HIDE DEF q
  <2> DEFINE u == <<record.size>> \o q
  <2>4. /\ u \in Seq(Int) /\ Len(u) = Len(q) + 1 /\ u[1] = record.size
        /\ \A i \in 2 .. Len(q) + 1 : u[i] = q[i - 1]
    BY <1>1, <1>2, InFront
  <2>5. SumOf(u) = record.size + SumOf(q)
    BY <1>1, <1>2, SumInFront
  <2> HIDE DEF u
  <2>6. ASSUME NEW i \in 1 .. Len(SizeList(t)) PROVE SizeList(t)[i] = u[i]
    <3>1. i \in DOMAIN t /\ (i # 1 => i \in 2 .. Len(list) + 1 /\ i - 1 \in DOMAIN list)
      BY <2>2, <2>3, <1>1
    <3> QED BY <3>1, <2>2, <2>3, <2>4, <1>1
  <2>7. SizeList(t) = u
    BY <1>1, <2>2, <2>3, <2>4, <2>6, SeqEqual
  <2>8. SumOf(q) - 0 + record.size = record.size + SumOf(q)
    BY <1>1, <1>2
  <2> QED BY <1>1, <1>4, <2>3, <2>5, <2>7, <2>8 DEF t, at
<1> QED BY <1>3, <1>4

LEMMA SizesRemoved ==
  ASSUME NEW keys, NEW list \in Seq(PairsOf(keys)), NEW a \in DOMAIN list
  PROVE  Sizes(RemoveAt(list, a)) = Sizes(list) - list[a].size
<1> DEFINE t == RemoveAt(list, a)
           q == SizeList(list)
           u == RemoveAt(q, a)
<1>1. /\ q \in Seq(Int) /\ Len(q) = Len(list) /\ Len(list) \in Nat /\ DOMAIN list = 1 .. Len(list)
      /\ \A i \in DOMAIN list : q[i] = list[i].size
      /\ Sizes(list) = SumOf(q)
  BY SizesNat
<1> HIDE DEF q
<1>2. a \in 1 .. Len(list) /\ a \in 1 .. Len(q)
  BY <1>1
<1>3. /\ t \in Seq(PairsOf(keys)) /\ Len(t) = Len(list) - 1 /\ DOMAIN t = 1 .. Len(list) - 1
      /\ \A i \in 1 .. Len(list) - 1 : t[i] = IF i < a THEN list[i] ELSE list[i + 1]
  BY <1>2, TakenOut
<1>4. /\ u \in Seq(Int) /\ Len(u) = Len(q) - 1
      /\ \A i \in 1 .. Len(q) - 1 : u[i] = IF i < a THEN q[i] ELSE q[i + 1]
  BY <1>1, <1>2, TakenOut
<1>5. SumOf(u) = SumOf(q) - q[a]
  BY <1>1, <1>2, SumTakenOut
<1> HIDE DEF t, u
<1>6. /\ SizeList(t) \in Seq(Int) /\ Len(SizeList(t)) = Len(t)
      /\ \A i \in DOMAIN t : SizeList(t)[i] = t[i].size
      /\ Sizes(t) = SumOf(SizeList(t))
  BY <1>3, SizesNat
<1>7. ASSUME NEW i \in 1 .. Len(SizeList(t)) PROVE SizeList(t)[i] = u[i]
  <2>0. i \in 1 .. Len(list) - 1 /\ Len(list) \in Nat
    BY ONLY <1>1, <1>3, <1>6, i \in 1 .. Len(SizeList(t)), list \in Seq(PairsOf(keys))
  <2>1. i \in DOMAIN t /\ i \in DOMAIN list /\ i + 1 \in DOMAIN list /\ i \in 1 .. Len(list) - 1
    BY ONLY <2>0, <1>1, <1>3
  <2>2. SizeList(t)[i] = t[i].size /\ q[i] = list[i].size /\ q[i + 1] = list[i + 1].size
    BY ONLY <2>1, <1>1, <1>6
  <2>3. t[i] = IF i < a THEN list[i] ELSE list[i + 1]
    BY ONLY <2>1, <1>3
  <2>4. u[i] = IF i < a THEN q[i] ELSE q[i + 1]
    BY ONLY <2>1, <1>1, <1>4
  <2> QED BY ONLY <2>2, <2>3, <2>4
<1>8. SizeList(t) = u
  BY <1>1, <1>3, <1>4, <1>6, <1>7, SeqEqual
<1> QED BY <1>1, <1>5, <1>6, <1>8 DEF t

----------------------------------------------------------------------------
(* The boxes of the caches.                                                *)

BoxType == [entries : Seq(PairsOf(Urls)), total : Nat]

LEMMA PairIs ==
  ASSUME NEW keys, keys \subseteq Keys \union Urls, NEW key \in keys, NEW value \in Values
  PROVE  /\ Pair(key, value) \in PairsOf(keys)
         /\ Pair(key, value).key = key /\ Pair(key, value).value = value
         /\ Pair(key, value).size = Length[key] + Length[value]
<1>1. Length[key] \in Nat /\ Length[value] \in Nat
  BY LengthNat
<1> QED BY <1>1 DEF Pair, Bytes, PairsOf

LEMMA PutPair ==
  ASSUME NEW keys, keys \subseteq Keys \union Urls, NEW list, PairList(list, keys),
         NEW key \in keys, NEW value \in Values
  PROVE  /\ PairList(Put(list, Pair(key, value)), keys)
         /\ MapOf(Put(list, Pair(key, value)), keys) = [MapOf(list, keys) EXCEPT ![key] = value]
<1> DEFINE r == Pair(key, value)
<1>1. /\ r \in PairsOf(keys) /\ r.key = key /\ r.value = value
      /\ r.size = Length[key] + Length[value]
  BY PairIs
<1>2. list \in Seq(PairsOf(keys)) /\ Keyed(list, keys) /\ Sized(list, Length)
  BY DEF PairList
<1> HIDE DEF r
<1>3. /\ Put(list, r) \in Seq(PairsOf(keys)) /\ Keyed(Put(list, r), keys)
      /\ MapOf(Put(list, r), keys) = [MapOf(list, keys) EXCEPT ![r.key] = r.value]
      /\ Sized(list, Length) /\ r.size = Length[r.key] + Length[r.value]
           => Sized(Put(list, r), Length)
  BY <1>1, <1>2, PutKeeps
<1>4. Sized(Put(list, r), Length)
  BY <1>1, <1>2, <1>3
<1> QED BY <1>1, <1>3, <1>4 DEF PairList, r

LEMMA RemovePair ==
  ASSUME NEW keys, NEW list, PairList(list, keys), NEW a \in DOMAIN list
  PROVE  /\ PairList(RemoveAt(list, a), keys) /\ list[a].key \in keys
         /\ MapOf(RemoveAt(list, a), keys) = [MapOf(list, keys) EXCEPT ![list[a].key] = None]
BY RemovedKeeps DEF PairList

LEMMA EmptyPairs ==
  ASSUME NEW keys
  PROVE  PairList(<< >>, keys) /\ MapOf(<< >>, keys) = Maps!Empty(keys)
BY EmptyKeeps DEF PairList

LEMMA BoxPut ==
  ASSUME NEW box, BoxOk(box), NEW url \in Urls, NEW body \in Values
  PROVE  LET at == KeyAt(box.entries, url)
             old == IF at = 0 THEN 0 ELSE box.entries[at].size
             new == [entries |-> Put(box.entries, Pair(url, body)),
                     total |-> box.total - old + Bytes(url, body)]
         IN /\ BoxOk(new) /\ new \in BoxType
            /\ MapOf(new.entries, Urls) = [MapOf(box.entries, Urls) EXCEPT ![url] = body]
<1> DEFINE at == KeyAt(box.entries, url)
           old == IF at = 0 THEN 0 ELSE box.entries[at].size
           r == Pair(url, body)
           list == Put(box.entries, r)
           total == box.total - old + Bytes(url, body)
           new == [entries |-> list, total |-> total]
<1>1. /\ box.entries \in Seq(PairsOf(Urls)) /\ PairList(box.entries, Urls)
      /\ box.total = Sizes(box.entries)
  BY DEF BoxOk, PairList
<1>2. /\ r \in PairsOf(Urls) /\ r.key = url /\ r.size = Bytes(url, body)
  BY PairIs DEF Bytes
<1>3. /\ PairList(list, Urls)
      /\ MapOf(list, Urls) = [MapOf(box.entries, Urls) EXCEPT ![url] = body]
  <2>1. Urls \subseteq Keys \union Urls
    OBVIOUS
  <2>2. ASSUME NEW entries, PairList(entries, Urls)
        PROVE  /\ PairList(Put(entries, Pair(url, body)), Urls)
               /\ MapOf(Put(entries, Pair(url, body)), Urls) = [MapOf(entries, Urls) EXCEPT ![url] = body]
    <3> HIDE DEF list, total, new, at, old, r
    <3> QED BY <2>1, <2>2, PutPair
  <2> QED BY <1>1, <2>2
<1>4. Sizes(list) = total
  BY <1>1, <1>2, SizesPut
<1>5. list \in Seq(PairsOf(Urls))
  BY <1>3 DEF PairList
<1> HIDE DEF list, total
<1>6. Sizes(list) \in Nat
  BY <1>5, SizesNat
<1>7. new \in BoxType /\ new.entries = list /\ new.total = Sizes(list)
  BY <1>4, <1>5, <1>6 DEF BoxType
<1>8. BoxOk(new)
  BY <1>3, <1>7 DEF BoxOk, BoxType
<1> QED BY <1>3, <1>7, <1>8 DEF list, total

LEMMA BoxRemove ==
  ASSUME NEW box, BoxOk(box), NEW a \in DOMAIN box.entries
  PROVE  LET new == [entries |-> RemoveAt(box.entries, a),
                     total |-> Less(box.total, box.entries[a].size)]
         IN /\ BoxOk(new) /\ new \in BoxType
            /\ new.total = box.total - box.entries[a].size
            /\ box.entries[a].key \in Urls
            /\ MapOf(new.entries, Urls) = [MapOf(box.entries, Urls) EXCEPT ![box.entries[a].key] = None]
<1> DEFINE size == box.entries[a].size
           list == RemoveAt(box.entries, a)
           total == Less(box.total, size)
           new == [entries |-> list, total |-> total]
<1>1. /\ box.entries \in Seq(PairsOf(Urls)) /\ PairList(box.entries, Urls)
      /\ box.total = Sizes(box.entries)
  BY DEF BoxOk, PairList
<1>2. size \in Nat /\ size <= Sizes(box.entries) /\ Sizes(box.entries) \in Nat
  BY <1>1, SizesNat
<1>3. /\ PairList(list, Urls) /\ box.entries[a].key \in Urls
      /\ MapOf(list, Urls) = [MapOf(box.entries, Urls) EXCEPT ![box.entries[a].key] = None]
  BY <1>1, RemovePair
<1>4. Sizes(list) = Sizes(box.entries) - size
  BY <1>1, SizesRemoved
<1>5. list \in Seq(PairsOf(Urls))
  BY <1>3 DEF PairList
<1>6. total = box.total - size
  <2>1. box.total >= size
    BY <1>1, <1>2
  <2> QED BY <2>1 DEF Less
<1> HIDE DEF list, total, size
<1>7. Sizes(list) \in Nat
  BY <1>5, SizesNat
<1>8. new \in BoxType /\ new.entries = list /\ new.total = Sizes(list) /\ new.total = box.total - size
  BY <1>1, <1>4, <1>5, <1>6, <1>7 DEF BoxType
<1>9. BoxOk(new)
  BY <1>3, <1>8 DEF BoxOk, BoxType
<1> QED BY <1>3, <1>8, <1>9 DEF list, total, size

LEMMA EmptyBox ==
  LET new == [entries |-> << >>, total |-> 0] IN
  BoxOk(new) /\ new \in BoxType /\ MapOf(new.entries, Urls) = Maps!Empty(Urls)
<1> DEFINE new == [entries |-> << >>, total |-> 0]
<1>1. /\ << >> \in Seq(PairsOf(Urls)) /\ PairList(<< >>, Urls) /\ Sizes(<< >>) = 0
      /\ MapOf(<< >>, Urls) = Maps!Empty(Urls)
  BY EmptyKeeps, EmptyPairs
<1>2. new \in BoxType /\ new.entries = << >> /\ new.total = 0
  BY <1>1 DEF BoxType
<1> QED BY <1>1, <1>2 DEF BoxOk, BoxType

----------------------------------------------------------------------------
(* The calls, one after another: what they keep, and as what they appear.  *)

Rest1 == UNCHANGED <<cookies, dbs, stores, caches, boxes, dbsMade, quota>>

LEMMA AreasAre ==
  ASSUME StorageInv, NEW area \in {Local, Session}
  PROVE  PairList(areas[area], Keys) /\ PairMaps[area] = MapOf(areas[area], Keys)
BY DEF StorageInv, Lists, PairMaps

LEMMA AssignedIs ==
  ASSUME NEW list, NEW keys, NEW k \in keys, NEW v \in Values \union {None}
  PROVE  [MapOf(list, keys) EXCEPT ![k] = v] \in Maps!Assigned(MapOf(list, keys))
<1> DEFINE map == MapOf(list, keys)
<1>1. k \in DOMAIN map
  BY DEF MapOf
<1> HIDE DEF map
<1>2. [map EXCEPT ![k] = v] \in Maps!Assigned(map)
  BY <1>1 DEF Maps!Assigned
<1> QED BY <1>2 DEF map

\* One of the two areas is another list.
LEMMA AreaStep ==
  ASSUME StorageInv, NEW area \in {Local, Session}, NEW list, PairList(list, Keys),
         areas' = [areas EXCEPT ![area] = list], Rest1,
         MapOf(list, Keys) \in {Maps!Empty(Keys)} \union Maps!Assigned(PairMaps[area])
  PROVE  StorageInv' /\ Maps!ChangePairs
<1>1. /\ areas \in [{Local, Session} -> Seq(PairsOf(Keys))] /\ list \in Seq(PairsOf(Keys))
  BY DEF StorageInv, TypeOK, PairList
<1>2. TypeOK'
  BY <1>1 DEF StorageInv, TypeOK, Rest1
<1>3. areas'[Local] \in {list, areas[Local]} /\ areas'[Session] \in {list, areas[Session]}
  BY <1>1
<1>4. Lists'
  BY <1>3 DEF StorageInv, Lists, Rest1
<1>5. PairMaps' = [PairMaps EXCEPT ![area] = MapOf(list, Keys)]
  BY <1>1 DEF PairMaps
<1>6. /\ UNCHANGED <<RecordMaps, Counted, EntryMaps, Live, quota>>
      /\ UNCHANGED MapOf(cookies, CookieKeys)
  BY DEF RecordMaps, Counted, EntryMaps, Live, Rest1
<1>7. Maps!ChangePairs
  BY <1>5, <1>6 DEF Maps!ChangePairs, Live
<1> QED BY <1>2, <1>4, <1>7 DEF StorageInv

LEMMA SetPairStep ==
  ASSUME StorageInv, NEW area \in {Local, Session}, NEW key \in Keys, NEW value \in Values,
         SetPair(area, key, value)
  PROVE  StorageInv' /\ Maps!ChangePairs
<1> DEFINE list == Put(areas[area], Pair(key, value))
<1>1. PairList(areas[area], Keys) /\ PairMaps[area] = MapOf(areas[area], Keys)
  BY AreasAre
<1>2. Keys \subseteq Keys \union Urls
  OBVIOUS
<1>3. /\ PairList(list, Keys)
      /\ MapOf(list, Keys) = [MapOf(areas[area], Keys) EXCEPT ![key] = value]
  BY <1>1, <1>2, PutPair
<1>4. areas' = [areas EXCEPT ![area] = list] /\ Rest1
  BY DEF SetPair, Rest1
<1> HIDE DEF list
<1>5. MapOf(list, Keys) \in Maps!Assigned(PairMaps[area])
  <2>1. [MapOf(areas[area], Keys) EXCEPT ![key] = value] \in Maps!Assigned(MapOf(areas[area], Keys))
    BY AssignedIs
  <2> QED BY <1>1, <1>3, <2>1
<1> QED BY <1>3, <1>4, <1>5, AreaStep

LEMMA DeletePairStep ==
  ASSUME StorageInv, NEW area \in {Local, Session}, NEW key \in Keys, DeletePair(area, key),
         vars' # vars
  PROVE  StorageInv' /\ Maps!ChangePairs
<1> DEFINE at == KeyAt(areas[area], key)
           list == RemoveAt(areas[area], at)
<1>1. PairList(areas[area], Keys) /\ PairMaps[area] = MapOf(areas[area], Keys)
  BY AreasAre
<1>2. areas \in [{Local, Session} -> Seq(PairsOf(Keys))]
  BY DEF StorageInv, TypeOK
<1>3. areas' = [areas EXCEPT ![area] = Without(areas[area], at)] /\ Rest1
  BY DEF DeletePair, Rest1
<1>4. at # 0
  <2>1. CASE at = 0
    <3>1. areas' = areas
      BY <1>2, <1>3, <2>1 DEF Without
    <3> QED BY <3>1, <1>3 DEF vars, Rest1
  <2> QED BY <2>1
<1>5. at \in DOMAIN areas[area]
  BY <1>2, <1>4, KeyAtIs
<1>6. areas' = [areas EXCEPT ![area] = list]
  BY <1>3, <1>4 DEF Without
<1> HIDE DEF at
<1>7. /\ PairList(list, Keys) /\ areas[area][at].key \in Keys
      /\ MapOf(list, Keys) = [MapOf(areas[area], Keys) EXCEPT ![areas[area][at].key] = None]
  BY <1>1, <1>5, RemovePair
<1> HIDE DEF list
<1>8. MapOf(list, Keys) \in Maps!Assigned(PairMaps[area])
  <2>1. [MapOf(areas[area], Keys) EXCEPT ![areas[area][at].key] = None]
          \in Maps!Assigned(MapOf(areas[area], Keys))
    BY <1>7, AssignedIs
  <2> QED BY <1>1, <1>7, <2>1
<1> QED BY <1>3, <1>6, <1>7, <1>8, AreaStep

LEMMA ClearAreaStep ==
  ASSUME StorageInv, NEW area \in {Local, Session}, ClearArea(area)
  PROVE  StorageInv' /\ Maps!ChangePairs
BY AreaStep, EmptyPairs DEF ClearArea, Rest1

LEMMA CookiesAre ==
  ASSUME StorageInv
  PROVE  /\ CookieList(cookies) /\ cookies \in Seq(PairsOf(CookieKeys))
         /\ Keyed(cookies, CookieKeys) /\ Sized(cookies, NameLength)
BY DEF StorageInv, Lists, CookieList

LEMMA CookieStep ==
  ASSUME StorageInv, NEW list, CookieList(list), cookies' = list,
         UNCHANGED <<areas, dbs, stores, caches, boxes, dbsMade, quota>>,
         MapOf(list, CookieKeys)
           \in {Maps!Empty(CookieKeys)} \union Maps!Assigned(MapOf(cookies, CookieKeys))
  PROVE  StorageInv' /\ Maps!ChangeCookies
<1>1. list \in Seq(PairsOf(CookieKeys))
  BY DEF CookieList
<1>2. TypeOK'
  BY <1>1 DEF StorageInv, TypeOK
<1>3. Lists'
  BY DEF StorageInv, Lists
<1>4. MapOf(cookies, CookieKeys)' = MapOf(list, CookieKeys)
  OBVIOUS
<1>5. DOMAIN MapOf(cookies, CookieKeys) = CookieKeys
  BY DEF MapOf
<1>6. UNCHANGED <<PairMaps, RecordMaps, Counted, EntryMaps, Live, quota>>
  BY DEF PairMaps, RecordMaps, Counted, EntryMaps, Live
<1>7. Maps!ChangeCookies
  BY <1>4, <1>5, <1>6 DEF Maps!ChangeCookies, Live
<1> QED BY <1>2, <1>3, <1>7 DEF StorageInv

LEMMA AddCookieStep ==
  ASSUME StorageInv, NEW name \in Names, NEW domain \in Domains \union {None}, NEW value \in Values,
         AddCookie(name, domain, value)
  PROVE  StorageInv' /\ Maps!ChangeCookies
<1> DEFINE r == Cookie(name, domain, value)
           k == <<name, domain>>
           list == Put(cookies, r)
<1>1. /\ cookies \in Seq(PairsOf(CookieKeys))
      /\ Keyed(cookies, CookieKeys) /\ Sized(cookies, NameLength)
  BY CookiesAre
<1>2. /\ k \in CookieKeys /\ NameLength[k] = Length[name]
      /\ Length[name] \in Nat /\ Length[value] \in Nat
  BY LengthNat DEF CookieKeys, NameLength
<1>3. /\ r \in PairsOf(CookieKeys) /\ r.key = k /\ r.value = value
      /\ r.size = NameLength[r.key] + Length[r.value]
  BY <1>2 DEF Cookie, PairsOf, Bytes
<1> HIDE DEF r, k
<1>4. /\ list \in Seq(PairsOf(CookieKeys)) /\ Keyed(list, CookieKeys)
      /\ MapOf(list, CookieKeys) = [MapOf(cookies, CookieKeys) EXCEPT ![r.key] = r.value]
      /\ Sized(cookies, NameLength) /\ r.size = NameLength[r.key] + Length[r.value]
           => Sized(list, NameLength)
  BY <1>1, <1>2, <1>3, PutKeeps
<1>5. /\ cookies' = list
      /\ UNCHANGED <<areas, dbs, stores, caches, boxes, dbsMade, quota>>
  BY DEF AddCookie, r
<1> HIDE DEF list
<1>6. CookieList(list)
  BY <1>1, <1>3, <1>4 DEF CookieList
<1>7. MapOf(list, CookieKeys) \in Maps!Assigned(MapOf(cookies, CookieKeys))
  <2>1. [MapOf(cookies, CookieKeys) EXCEPT ![r.key] = r.value]
          \in Maps!Assigned(MapOf(cookies, CookieKeys))
    <3>1. r.key \in CookieKeys /\ r.value \in Values \union {None}
      BY <1>2, <1>3
    <3> QED BY <3>1, AssignedIs
  <2> QED BY <1>4, <2>1
<1> QED BY <1>5, <1>6, <1>7, CookieStep

LEMMA DeleteCookieStep ==
  ASSUME StorageInv, NEW name \in Names, NEW domain \in Domains \union {None},
         DeleteCookie(name, domain), vars' # vars
  PROVE  StorageInv' /\ Maps!ChangeCookies
<1> DEFINE I == {i \in 1 .. Len(cookies) :
                   cookies[i].key[1] = name /\ (domain = None \/ cookies[i].key[2] = domain)}
           at == IF I # {} THEN Min(I) ELSE 0
           list == RemoveAt(cookies, at)
<1>1. /\ cookies \in Seq(PairsOf(CookieKeys))
      /\ Keyed(cookies, CookieKeys) /\ Sized(cookies, NameLength)
  BY CookiesAre
<1>2. cookies' = Without(cookies, at)
  BY DEF DeleteCookie, SelectInSeq
<1>3. UNCHANGED <<areas, dbs, stores, caches, boxes, dbsMade, quota>>
  BY DEF DeleteCookie
<1>4. at # 0 => at \in DOMAIN cookies
  <2>1. I \in SUBSET Nat /\ I \subseteq DOMAIN cookies
    BY <1>1
  <2>2. I # {} => Min(I) \in I
    <3> HIDE DEF I
    <3> QED BY <2>1, MinOf
  <2> QED BY <2>1, <2>2
<1> HIDE DEF at
<1>5. at # 0
  <2>1. CASE at = 0
    <3>1. cookies' = cookies
      BY <1>2, <2>1 DEF Without
    <3> QED BY <3>1, <1>3 DEF vars
  <2> QED BY <2>1
<1>6. cookies' = list
  BY <1>2, <1>5 DEF Without
<1>7. /\ list \in Seq(PairsOf(CookieKeys)) /\ Keyed(list, CookieKeys)
      /\ cookies[at].key \in CookieKeys
      /\ MapOf(list, CookieKeys) = [MapOf(cookies, CookieKeys) EXCEPT ![cookies[at].key] = None]
      /\ Sized(cookies, NameLength) => Sized(list, NameLength)
  BY <1>1, <1>4, <1>5, RemovedKeeps
<1> HIDE DEF list
<1>8. CookieList(list)
  BY <1>1, <1>7 DEF CookieList
<1>9. MapOf(list, CookieKeys) \in Maps!Assigned(MapOf(cookies, CookieKeys))
  <2>1. [MapOf(cookies, CookieKeys) EXCEPT ![cookies[at].key] = None]
          \in Maps!Assigned(MapOf(cookies, CookieKeys))
    BY <1>7, AssignedIs
  <2> QED BY <1>7, <2>1
<1> QED BY <1>3, <1>6, <1>8, <1>9, CookieStep

LEMMA ClearCookiesStep ==
  ASSUME StorageInv, ClearCookies
  PROVE  StorageInv' /\ Maps!ChangeCookies
<1>1. /\ << >> \in Seq(PairsOf(CookieKeys)) /\ Keyed(<< >>, CookieKeys) /\ Sized(<< >>, NameLength)
      /\ MapOf(<< >>, CookieKeys) = Maps!Empty(CookieKeys)
  BY EmptyKeeps
<1>2. CookieList(<< >>)
  BY <1>1 DEF CookieList
<1>3. /\ cookies' = << >>
      /\ UNCHANGED <<areas, dbs, stores, caches, boxes, dbsMade, quota>>
  BY DEF ClearCookies
<1> QED BY <1>1, <1>2, <1>3, CookieStep

LEMMA SeqBy ==
  ASSUME NEW S, NEW n \in Nat, NEW f \in [1 .. n -> S]
  PROVE  f \in Seq(S) /\ Len(f) = n
OBVIOUS

LEMMA SeqOver ==
  ASSUME NEW S, NEW T, NEW q \in Seq(S), \A i \in 1 .. Len(q) : q[i] \in T
  PROVE  q \in Seq(T)
<1>1. Len(q) \in Nat /\ q \in [1 .. Len(q) -> T]
  OBVIOUS
<1> QED BY <1>1, SeqBy

LEMMA Replaced ==
  ASSUME NEW S, NEW q \in Seq(S), NEW i \in DOMAIN q, NEW e \in S, NEW t, t = [q EXCEPT ![i] = e]
  PROVE  /\ t \in Seq(S) /\ DOMAIN t = DOMAIN q /\ Len(t) = Len(q)
         /\ \A j \in DOMAIN q : t[j] = IF j = i THEN e ELSE q[j]
BY ExceptSeq

\* A function on the first n numbers, with one more number.
LEMMA OneMore ==
  ASSUME NEW n \in Nat, NEW f, f = [i \in 1 .. n |-> f[i]], NEW e,
         NEW g, g = [i \in 1 .. n + 1 |-> IF i = n + 1 THEN e ELSE f[i]]
  PROVE  g = Append(f, e) /\ Len(f) = n
<1> DEFINE S == {f[i] : i \in 1 .. n} \union {e}
<1>1. f \in Seq(S) /\ Len(f) = n
  <2>1. \A i \in 1 .. n : f[i] \in S
    OBVIOUS
  <2> HIDE DEF S
  <2> QED BY <2>1, ListBy
<1>2. e \in S
  OBVIOUS
<1> HIDE DEF S
<1>3. /\ Append(f, e) \in Seq(S) /\ Len(Append(f, e)) = n + 1
      /\ \A i \in 1 .. n + 1 : Append(f, e)[i] = IF i = n + 1 THEN e ELSE f[i]
  BY <1>1, <1>2
<1>4. g \in Seq(S) /\ Len(g) = n + 1
  <2>1. \A i \in 1 .. n + 1 : g[i] \in S
    <3>1. \A i \in 1 .. n : f[i] \in S
      BY <1>1, ElementOfSeq
    <3>2. \A i \in 1 .. n + 1 : i # n + 1 => i \in 1 .. n
      OBVIOUS
    <3> QED BY <3>1, <3>2, <1>2
  <2>2. n + 1 \in Nat /\ g \in [1 .. n + 1 -> S]
    BY <2>1
  <2> DEFINE m == n + 1
  <2>3. m \in Nat /\ g \in [1 .. m -> S]
    BY <2>2
  <2> HIDE DEF m
  <2>4. g \in Seq(S) /\ Len(g) = m
    BY <2>3, SeqBy
  <2> QED BY <2>4 DEF m
<1>5. \A i \in 1 .. n + 1 : g[i] = Append(f, e)[i]
  BY <1>3
<1>6. g = Append(f, e)
  <2> DEFINE t == Append(f, e)
  <2>1. t \in Seq(S) /\ g \in Seq(S) /\ Len(g) = Len(t) /\ \A i \in 1 .. Len(g) : g[i] = t[i]
    BY <1>3, <1>4, <1>5
  <2> HIDE DEF t
  <2>2. g = t
    BY <2>1, SeqEqual
  <2> QED BY <2>2 DEF t
<1> QED BY <1>1, <1>6

----------------------------------------------------------------------------
(* IndexedDB.                                                              *)

RecordsType == Seq([key : Keys, value : Values])
Rest2 == UNCHANGED <<areas, cookies, caches, boxes, quota>>

LEMMA StoresAre ==
  ASSUME StorageInv
  PROVE  /\ stores \in Seq([db : 1 .. dbsMade, records : RecordsType]) /\ dbsMade \in Nat
         /\ dbs \in Seq([id : 1 .. dbsMade, name : Names])
         /\ DOMAIN stores = 1 .. Len(stores) /\ Len(stores) \in Nat
         /\ DOMAIN dbs = 1 .. Len(dbs) /\ Len(dbs) \in Nat
         /\ \A s \in DOMAIN stores : /\ stores[s].db \in 1 .. dbsMade
                                     /\ stores[s].records \in RecordsType
                                     /\ stores[s] \in [db : 1 .. dbsMade, records : RecordsType]
                                     /\ RecordList(stores[s].records)
         /\ \A i \in DOMAIN dbs : dbs[i] \in [id : 1 .. dbsMade, name : Names]
<1>1. /\ stores \in Seq([db : 1 .. dbsMade, records : RecordsType]) /\ dbsMade \in Nat
      /\ dbs \in Seq([id : 1 .. dbsMade, name : Names])
  BY DEF StorageInv, TypeOK, RecordsType
<1>2. /\ DOMAIN stores = 1 .. Len(stores) /\ Len(stores) \in Nat
      /\ DOMAIN dbs = 1 .. Len(dbs) /\ Len(dbs) \in Nat
  BY <1>1
<1>3. ASSUME NEW s \in DOMAIN stores
      PROVE  /\ stores[s].db \in 1 .. dbsMade /\ stores[s].records \in RecordsType
             /\ stores[s] \in [db : 1 .. dbsMade, records : RecordsType]
  <2>1. stores[s] \in [db : 1 .. dbsMade, records : RecordsType]
    BY <1>1, <1>2, ElementOfSeq
  <2> QED BY <2>1
<1>4. \A i \in DOMAIN dbs : dbs[i] \in [id : 1 .. dbsMade, name : Names]
  BY <1>1, <1>2, ElementOfSeq
<1>5. \A s \in DOMAIN stores : RecordList(stores[s].records)
  BY DEF StorageInv, Lists
<1> QED BY <1>1, <1>2, <1>3, <1>4, <1>5

\* The other parts of the invariant and of the maps.
LEMMA OthersStay ==
  ASSUME StorageInv, Rest2
  PROVE  /\ PairMaps' = PairMaps /\ MapOf(cookies, CookieKeys)' = MapOf(cookies, CookieKeys)
         /\ EntryMaps' = EntryMaps /\ Live' = Live /\ quota' = quota
         /\ dbsMade' \in Nat /\ dbs' \in Seq([id : 1 .. dbsMade', name : Names])
            /\ stores' \in Seq([db : 1 .. dbsMade', records : RecordsType])
            /\ (\A s \in DOMAIN stores' : RecordList(stores'[s].records)) => StorageInv'
<1>1. /\ PairMaps' = PairMaps /\ MapOf(cookies, CookieKeys)' = MapOf(cookies, CookieKeys)
      /\ EntryMaps' = EntryMaps /\ Live' = Live /\ quota' = quota
  BY DEF PairMaps, EntryMaps, Live, Rest2
<1>2. ASSUME dbsMade' \in Nat, dbs' \in Seq([id : 1 .. dbsMade', name : Names]),
             stores' \in Seq([db : 1 .. dbsMade', records : RecordsType]),
             \A s \in DOMAIN stores' : RecordList(stores'[s].records)
      PROVE  StorageInv'
  <2>1. TypeOK'
    BY <1>2 DEF StorageInv, TypeOK, Rest2, RecordsType
  <2>2. Lists'
    BY <1>2 DEF StorageInv, Lists, Rest2
  <2> QED BY <2>1, <2>2 DEF StorageInv
<1> QED BY <1>1, <1>2

LEMMA RecordMapsAre ==
  ASSUME StorageInv
  PROVE  /\ RecordMaps = [s \in 1 .. Len(stores) |-> RecordMaps[s]]
         /\ DOMAIN RecordMaps = DOMAIN stores /\ Len(RecordMaps) = Len(stores)
         /\ \A s \in DOMAIN stores : RecordMaps[s] = MapOf(stores[s].records, Keys)
<1>1. DOMAIN stores = 1 .. Len(stores) /\ Len(stores) \in Nat
  BY StoresAre
<1>2. RecordMaps = [s \in 1 .. Len(stores) |-> RecordMaps[s]]
  BY <1>1 DEF RecordMaps
<1>3. Len(RecordMaps) = Len(stores)
  <2> DEFINE f == RecordMaps
             S == {f[s] : s \in 1 .. Len(stores)}
  <2>1. \A s \in 1 .. Len(stores) : f[s] \in S
    OBVIOUS
  <2> HIDE DEF f, S
  <2>2. f = [s \in 1 .. Len(stores) |-> f[s]]
    BY <1>2 DEF f
  <2>3. Len(f) = Len(stores)
    BY <1>1, <2>1, <2>2, ListBy
  <2> QED BY <2>3 DEF f
<1> QED BY <1>1, <1>2, <1>3 DEF RecordMaps

LEMMA AddDatabaseStep ==
  ASSUME StorageInv, NEW name \in Names, AddDatabase(name)
  PROVE  StorageInv' /\ Maps!ChangeIndexedDB
<1> DEFINE db == [id |-> dbsMade + 1, name |-> name]
<1>1. /\ stores \in Seq([db : 1 .. dbsMade, records : RecordsType]) /\ dbsMade \in Nat
      /\ dbs \in Seq([id : 1 .. dbsMade, name : Names])
      /\ DOMAIN dbs = 1 .. Len(dbs) /\ Len(dbs) \in Nat
      /\ \A s \in DOMAIN stores : stores[s].db \in 1 .. dbsMade /\ RecordList(stores[s].records)
      /\ \A i \in DOMAIN dbs : dbs[i] \in [id : 1 .. dbsMade, name : Names]
  BY StoresAre
<1>2. /\ dbsMade' = dbsMade + 1 /\ dbs' = <<db>> \o dbs /\ stores' = stores /\ Rest2
  BY DEF AddDatabase, Rest2
<1>3. 1 .. dbsMade \subseteq 1 .. dbsMade + 1 /\ dbsMade + 1 \in 1 .. dbsMade + 1 /\ dbsMade + 1 \in Nat
  BY <1>1
<1>4. dbs \in Seq([id : 1 .. dbsMade + 1, name : Names])
  <2>1. \A i \in 1 .. Len(dbs) : dbs[i] \in [id : 1 .. dbsMade + 1, name : Names]
    BY <1>1, <1>3
  <2> QED BY <1>1, <2>1, SeqOver
<1>5. stores \in Seq([db : 1 .. dbsMade + 1, records : RecordsType])
  <2>1. \A s \in 1 .. Len(stores) : stores[s] \in [db : 1 .. dbsMade + 1, records : RecordsType]
    <3>1. \A s \in 1 .. Len(stores) : stores[s] \in [db : 1 .. dbsMade, records : RecordsType]
      BY <1>1, ElementOfSeq
    <3> QED BY <3>1, <1>3
  <2> QED BY <1>1, <2>1, SeqOver
<1>6. db \in [id : 1 .. dbsMade + 1, name : Names] /\ db.id = dbsMade + 1
  BY <1>3
<1> HIDE DEF db
<1>7. /\ <<db>> \o dbs \in Seq([id : 1 .. dbsMade + 1, name : Names])
      /\ DOMAIN (<<db>> \o dbs) = 1 .. Len(dbs) + 1
      /\ (<<db>> \o dbs)[1] = db
      /\ \A i \in 2 .. Len(dbs) + 1 : (<<db>> \o dbs)[i] = dbs[i - 1]
  BY <1>4, <1>6, InFront
<1>8. StorageInv'
  BY <1>1, <1>2, <1>3, <1>5, <1>7, OthersStay
<1>9. RecordMaps' = RecordMaps
  BY <1>2 DEF RecordMaps
<1>10. Counted' \subseteq Counted
  <2>1. ASSUME NEW s \in DOMAIN stores, NEW i \in DOMAIN dbs', dbs'[i].id = stores[s].db
        PROVE  \E j \in DOMAIN dbs : dbs[j].id = stores[s].db
    <3>1. CASE i = 1
      BY <3>1, <2>1, <1>1, <1>2, <1>6, <1>7
    <3>2. CASE i # 1
      <4>1. i \in 2 .. Len(dbs) + 1 /\ i - 1 \in DOMAIN dbs
        BY <3>2, <1>1, <1>2, <1>7
      <4> QED BY <4>1, <2>1, <1>2, <1>7
    <3> QED BY <3>1, <3>2
  <2> QED BY <2>1, <1>2 DEF Counted
<1>11. /\ PairMaps' = PairMaps /\ MapOf(cookies, CookieKeys)' = MapOf(cookies, CookieKeys)
       /\ EntryMaps' = EntryMaps /\ Live' = Live /\ quota' = quota
  BY <1>2, OthersStay
<1>12. Maps!ChangeIndexedDB
  BY <1>9, <1>10, <1>11 DEF Maps!ChangeIndexedDB, Live
<1> QED BY <1>8, <1>12

LEMMA DeleteDatabaseStep ==
  ASSUME StorageInv, NEW name \in Names, DeleteDatabase(name), vars' # vars
  PROVE  StorageInv' /\ Maps!ChangeIndexedDB
<1> DEFINE I == {i \in 1 .. Len(dbs) : dbs[i].name = name}
           at == IF I # {} THEN Min(I) ELSE 0
           list == RemoveAt(dbs, at)
<1>1. /\ stores \in Seq([db : 1 .. dbsMade, records : RecordsType]) /\ dbsMade \in Nat
      /\ dbs \in Seq([id : 1 .. dbsMade, name : Names])
      /\ DOMAIN dbs = 1 .. Len(dbs) /\ Len(dbs) \in Nat
      /\ \A s \in DOMAIN stores : RecordList(stores[s].records)
  BY StoresAre
<1>2. dbs' = Without(dbs, at)
  BY DEF DeleteDatabase, SelectInSeq
<1>3. stores' = stores /\ dbsMade' = dbsMade /\ Rest2
  BY DEF DeleteDatabase, Rest2
<1>4. at # 0 => at \in 1 .. Len(dbs)
  <2>1. I \in SUBSET Nat /\ I \subseteq 1 .. Len(dbs)
    BY <1>1
  <2>2. I # {} => Min(I) \in I
    <3> HIDE DEF I
    <3> QED BY <2>1, MinOf
  <2> QED BY <2>1, <2>2
<1> HIDE DEF at
<1>5. at # 0
  <2>1. CASE at = 0
    <3>1. dbs' = dbs
      BY <1>2, <2>1 DEF Without
    <3> QED BY <3>1, <1>3 DEF vars, Rest2
  <2> QED BY <2>1
<1>6. dbs' = list
  BY <1>2, <1>5 DEF Without
<1>7. /\ list \in Seq([id : 1 .. dbsMade, name : Names]) /\ DOMAIN list = 1 .. Len(dbs) - 1
      /\ \A i \in 1 .. Len(dbs) - 1 : list[i] = IF i < at THEN dbs[i] ELSE dbs[i + 1]
  BY <1>1, <1>4, <1>5, TakenOut
<1> HIDE DEF list
<1>8. \A i \in DOMAIN list : \E j \in DOMAIN dbs : list[i] = dbs[j]
  <2>1. \A i \in 1 .. Len(dbs) - 1 : i \in DOMAIN dbs /\ i + 1 \in DOMAIN dbs
    BY <1>1
  <2> QED BY <2>1, <1>7
<1>9. StorageInv'
  BY <1>1, <1>3, <1>6, <1>7, OthersStay
<1>10. RecordMaps' = RecordMaps
  BY <1>3 DEF RecordMaps
<1>11. Counted' \subseteq Counted
  BY <1>3, <1>6, <1>8 DEF Counted
<1>12. /\ PairMaps' = PairMaps /\ MapOf(cookies, CookieKeys)' = MapOf(cookies, CookieKeys)
       /\ EntryMaps' = EntryMaps /\ Live' = Live /\ quota' = quota
  BY <1>3, OthersStay
<1>13. Maps!ChangeIndexedDB
  BY <1>10, <1>11, <1>12 DEF Maps!ChangeIndexedDB, Live
<1> QED BY <1>9, <1>13

LEMMA AddObjectStoreStep ==
  ASSUME StorageInv, NEW db \in 1 .. dbsMade, AddObjectStore(db)
  PROVE  StorageInv' /\ Maps!ChangeIndexedDB
<1> DEFINE n == Len(stores)
           new == [db |-> db, records |-> << >>]
<1>1. /\ stores \in Seq([db : 1 .. dbsMade, records : RecordsType]) /\ dbsMade \in Nat
      /\ dbs \in Seq([id : 1 .. dbsMade, name : Names])
      /\ DOMAIN stores = 1 .. n /\ n \in Nat
      /\ \A s \in DOMAIN stores : RecordList(stores[s].records)
  BY StoresAre
<1>2. stores' = Append(stores, new) /\ dbs' = dbs /\ dbsMade' = dbsMade /\ Rest2
  BY DEF AddObjectStore, Rest2
<1>3. /\ << >> \in RecordsType /\ Keyed(<< >>, Keys) /\ MapOf(<< >>, Keys) = Maps!Empty(Keys)
  BY EmptyKeeps DEF RecordsType
<1>4. RecordList(<< >>)
  BY <1>3 DEF RecordList, RecordsType
<1>5. new \in [db : 1 .. dbsMade, records : RecordsType] /\ new.records = << >>
  BY <1>3
<1> HIDE DEF new
<1>6. /\ stores' \in Seq([db : 1 .. dbsMade, records : RecordsType])
      /\ DOMAIN stores' = 1 .. n + 1
      /\ \A s \in 1 .. n + 1 : stores'[s] = IF s = n + 1 THEN new ELSE stores[s]
  BY <1>1, <1>2, <1>5
<1> HIDE DEF n
<1>7. \A s \in 1 .. n + 1 : s # n + 1 => s \in 1 .. n
  BY <1>1
<1>8. \A s \in DOMAIN stores' : RecordList(stores'[s].records)
  BY <1>1, <1>4, <1>5, <1>6, <1>7
<1>9. StorageInv'
  BY <1>1, <1>2, <1>6, <1>8, OthersStay
<1>10. RecordMaps' = Append(RecordMaps, Maps!Empty(Keys)) /\ Len(RecordMaps) = n
  <2> DEFINE f == RecordMaps
             e == Maps!Empty(Keys)
             g == [s \in 1 .. n + 1 |-> IF s = n + 1 THEN e ELSE f[s]]
  <2>1. RecordMaps' = g
    <3>1. RecordMaps' = [s \in 1 .. n + 1 |-> MapOf(stores'[s].records, Keys)]
      BY <1>6 DEF RecordMaps
    <3>2. ASSUME NEW s \in 1 .. n + 1
          PROVE  MapOf(stores'[s].records, Keys) = IF s = n + 1 THEN e ELSE f[s]
      <4>1. CASE s = n + 1
        BY <4>1, <1>3, <1>5, <1>6
      <4>2. CASE s # n + 1
        BY <4>2, <1>1, <1>6, <1>7, RecordMapsAre
      <4> QED BY <4>1, <4>2
    <3> HIDE DEF f, e
    <3> QED BY <3>1, <3>2
  <2>2. f = [s \in 1 .. n |-> f[s]]
    BY RecordMapsAre DEF n
  <2> HIDE DEF f, e
  <2>3. g = Append(f, e) /\ Len(f) = n
    BY <1>1, <2>2, OneMore
  <2> QED BY <2>1, <2>3 DEF f, e
<1>11. Counted' \in {Counted, Counted \union {n + 1}}
  <2>1. \A s \in DOMAIN stores : s \in Counted' <=> s \in Counted
    <3>1. \A s \in DOMAIN stores : s \in DOMAIN stores' /\ stores'[s] = stores[s]
      BY <1>1, <1>6
    <3> QED BY <3>1, <1>2 DEF Counted
  <2>2. Counted \subseteq 1 .. n /\ Counted' \subseteq 1 .. n + 1
    BY <1>1, <1>6 DEF Counted
  <2> QED BY <2>1, <2>2, <1>1, <1>7
<1>12. /\ PairMaps' = PairMaps /\ MapOf(cookies, CookieKeys)' = MapOf(cookies, CookieKeys)
       /\ EntryMaps' = EntryMaps /\ Live' = Live /\ quota' = quota
  BY <1>2, OthersStay
<1>13. Maps!ChangeIndexedDB
  BY <1>10, <1>11, <1>12 DEF Maps!ChangeIndexedDB, Live
<1> QED BY <1>9, <1>13

\* The records of a store are another list.
LEMMA RecordStep ==
  ASSUME StorageInv, NEW s \in DOMAIN stores, NEW list, RecordList(list),
         stores' = [stores EXCEPT ![s].records = list], dbs' = dbs, dbsMade' = dbsMade, Rest2,
         MapOf(list, Keys) \in Maps!Assigned(RecordMaps[s])
  PROVE  StorageInv' /\ Maps!ChangeIndexedDB
<1> DEFINE n == Len(stores)
           new == [stores[s] EXCEPT !.records = list]
<1>1. /\ stores \in Seq([db : 1 .. dbsMade, records : RecordsType]) /\ dbsMade \in Nat
      /\ dbs \in Seq([id : 1 .. dbsMade, name : Names])
      /\ DOMAIN stores = 1 .. n /\ n \in Nat
      /\ \A t \in DOMAIN stores : /\ stores[t] \in [db : 1 .. dbsMade, records : RecordsType]
                                  /\ RecordList(stores[t].records)
  BY StoresAre
<1>2. list \in RecordsType
  BY DEF RecordList, RecordsType
<1>3. /\ new \in [db : 1 .. dbsMade, records : RecordsType]
      /\ new.records = list /\ new.db = stores[s].db
  BY <1>1, <1>2
<1>4. stores' = [stores EXCEPT ![s] = new]
  OBVIOUS
<1> HIDE DEF new
<1>5. /\ stores' \in Seq([db : 1 .. dbsMade, records : RecordsType]) /\ DOMAIN stores' = DOMAIN stores
      /\ \A t \in DOMAIN stores : stores'[t] = IF t = s THEN new ELSE stores[t]
  <2> DEFINE T == [db : 1 .. dbsMade, records : RecordsType]
  <2>1. stores \in Seq(T) /\ s \in DOMAIN stores /\ new \in T
    BY <1>1, <1>3
  <2> HIDE DEF T
  <2>2. /\ stores' \in Seq(T) /\ DOMAIN stores' = DOMAIN stores
        /\ \A t \in DOMAIN stores : stores'[t] = IF t = s THEN new ELSE stores[t]
    BY ONLY <2>1, <1>4, Replaced
  <2> QED BY <2>2 DEF T
<1>6. \A t \in DOMAIN stores' : RecordList(stores'[t].records)
  BY <1>1, <1>3, <1>5
<1>7. StorageInv'
  BY <1>1, <1>5, <1>6, OthersStay
<1>8. RecordMaps' = [RecordMaps EXCEPT ![s] = MapOf(list, Keys)]
  <2>1. RecordMaps' = [t \in DOMAIN stores |-> MapOf(stores'[t].records, Keys)]
    BY <1>5 DEF RecordMaps
  <2>2. \A t \in DOMAIN stores :
          MapOf(stores'[t].records, Keys) = IF t = s THEN MapOf(list, Keys) ELSE RecordMaps[t]
    BY <1>3, <1>5, RecordMapsAre
  <2>3. DOMAIN RecordMaps = DOMAIN stores /\ RecordMaps = [t \in DOMAIN stores |-> RecordMaps[t]]
    BY DEF RecordMaps
  <2> QED BY <2>1, <2>2, <2>3
<1>9. Counted' = Counted
  <2>1. \A t \in DOMAIN stores : stores'[t].db = stores[t].db
    BY <1>3, <1>5
  <2> QED BY <2>1, <1>5 DEF Counted
<1>10. /\ PairMaps' = PairMaps /\ MapOf(cookies, CookieKeys)' = MapOf(cookies, CookieKeys)
       /\ EntryMaps' = EntryMaps /\ Live' = Live /\ quota' = quota
  BY OthersStay
<1>11. s \in DOMAIN RecordMaps
  BY RecordMapsAre
<1>12. Maps!ChangeIndexedDB
  BY <1>8, <1>9, <1>10, <1>11 DEF Maps!ChangeIndexedDB, Live
<1> QED BY <1>7, <1>12

LEMMA PutRecordStep ==
  ASSUME StorageInv, NEW store \in DOMAIN stores, NEW key \in Keys, NEW value \in Values,
         PutRecord(store, key, value)
  PROVE  StorageInv' /\ Maps!ChangeIndexedDB
<1> DEFINE r == [key |-> key, value |-> value]
           old == stores[store].records
           list == Put(old, r)
<1>1. /\ RecordList(old) /\ RecordMaps[store] = MapOf(old, Keys)
      /\ old \in Seq([key : Keys, value : Values]) /\ Keyed(old, Keys)
  BY StoresAre, RecordMapsAre DEF RecordList
<1>2. r \in [key : Keys, value : Values] /\ r.key = key /\ r.value = value
  OBVIOUS
<1>3. /\ stores' = [stores EXCEPT ![store].records = list]
      /\ dbs' = dbs /\ dbsMade' = dbsMade /\ Rest2
  BY DEF PutRecord, Rest2
<1> HIDE DEF r, old
<1>4. /\ list \in Seq([key : Keys, value : Values]) /\ Keyed(list, Keys)
      /\ MapOf(list, Keys) = [MapOf(old, Keys) EXCEPT ![r.key] = r.value]
  <2> DEFINE S == [key : Keys, value : Values]
  <2>1. r.key \in Keys /\ r.value \in Values /\ r \in S /\ old \in Seq(S)
    BY <1>1, <1>2
  <2> HIDE DEF S
  <2>2. /\ Put(old, r) \in Seq(S) /\ Keyed(Put(old, r), Keys)
        /\ MapOf(Put(old, r), Keys) = [MapOf(old, Keys) EXCEPT ![r.key] = r.value]
    BY <1>1, <2>1, PutKeeps
  <2> QED BY <2>2 DEF S
<1>5. [MapOf(old, Keys) EXCEPT ![key] = value] \in Maps!Assigned(MapOf(old, Keys))
  BY AssignedIs
<1>6. MapOf(list, Keys) \in Maps!Assigned(RecordMaps[store])
  BY <1>1, <1>2, <1>4, <1>5
<1> HIDE DEF list
<1>7. RecordList(list)
  BY <1>4 DEF RecordList
<1> QED BY <1>3, <1>6, <1>7, RecordStep

LEMMA DeleteRecordStep ==
  ASSUME StorageInv, NEW store \in DOMAIN stores, NEW key \in Keys, DeleteRecord(store, key),
         vars' # vars
  PROVE  StorageInv' /\ Maps!ChangeIndexedDB
<1> DEFINE old == stores[store].records
           at == KeyAt(old, key)
           list == RemoveAt(old, at)
<1>1. /\ RecordList(old) /\ RecordMaps[store] = MapOf(old, Keys)
      /\ old \in Seq([key : Keys, value : Values]) /\ Keyed(old, Keys)
      /\ stores[store] \in [db : 1 .. dbsMade, records : RecordsType]
      /\ stores \in Seq([db : 1 .. dbsMade, records : RecordsType])
  BY StoresAre, RecordMapsAre DEF RecordList
<1>2. /\ stores' = [stores EXCEPT ![store].records = Without(old, at)]
      /\ dbs' = dbs /\ dbsMade' = dbsMade /\ Rest2
  BY DEF DeleteRecord, Rest2
<1>3. at # 0
  <2>1. CASE at = 0
    <3>1. Without(old, at) = old
      BY <2>1 DEF Without
    <3>2. stores' = stores
      BY <3>1, <1>1, <1>2
    <3> QED BY <3>2, <1>2 DEF vars, Rest2
  <2> QED BY <2>1
<1>4. at \in DOMAIN old
  BY <1>1, <1>3, KeyAtIs
<1>5. stores' = [stores EXCEPT ![store].records = list]
  BY <1>2, <1>3 DEF Without
<1> HIDE DEF at, old
<1>6. /\ list \in Seq([key : Keys, value : Values]) /\ Keyed(list, Keys) /\ old[at].key \in Keys
      /\ MapOf(list, Keys) = [MapOf(old, Keys) EXCEPT ![old[at].key] = None]
  BY <1>1, <1>4, RemovedKeeps
<1>7. [MapOf(old, Keys) EXCEPT ![old[at].key] = None] \in Maps!Assigned(MapOf(old, Keys))
  BY <1>6, AssignedIs
<1>8. MapOf(list, Keys) \in Maps!Assigned(RecordMaps[store])
  BY <1>1, <1>6, <1>7
<1> HIDE DEF list
<1>9. RecordList(list)
  BY <1>6 DEF RecordList
<1> QED BY <1>2, <1>5, <1>8, <1>9, RecordStep

----------------------------------------------------------------------------
(* Cache Storage.                                                          *)

Rest3 == UNCHANGED <<areas, cookies, dbs, stores, dbsMade>>

LEMMA BoxesAre ==
  ASSUME StorageInv
  PROVE  /\ boxes \in Seq(BoxType) /\ DOMAIN boxes = 1 .. Len(boxes) /\ Len(boxes) \in Nat
         /\ caches \in Seq([id : 1 .. Len(boxes), name : Names])
         /\ DOMAIN caches = 1 .. Len(caches) /\ Len(caches) \in Nat
         /\ \A c \in DOMAIN boxes : BoxOk(boxes[c]) /\ boxes[c] \in BoxType
         /\ \A i \in DOMAIN caches : /\ caches[i] \in [id : 1 .. Len(boxes), name : Names]
                                     /\ caches[i].id \in DOMAIN boxes
         /\ \A i, j \in DOMAIN caches : caches[i].id = caches[j].id => i = j
<1>1. boxes \in Seq(BoxType) /\ caches \in Seq([id : 1 .. Len(boxes), name : Names])
  BY DEF StorageInv, TypeOK, BoxType
<1>2. /\ DOMAIN boxes = 1 .. Len(boxes) /\ Len(boxes) \in Nat
      /\ DOMAIN caches = 1 .. Len(caches) /\ Len(caches) \in Nat
  BY <1>1
<1>3. \A c \in DOMAIN boxes : boxes[c] \in BoxType
  BY <1>1, <1>2, ElementOfSeq
<1>4. ASSUME NEW i \in DOMAIN caches
      PROVE  caches[i] \in [id : 1 .. Len(boxes), name : Names] /\ caches[i].id \in DOMAIN boxes
  <2>1. caches[i] \in [id : 1 .. Len(boxes), name : Names]
    BY <1>1, <1>2, ElementOfSeq
  <2> QED BY <2>1, <1>2
<1>5. /\ \A c \in DOMAIN boxes : BoxOk(boxes[c])
      /\ \A i, j \in DOMAIN caches : caches[i].id = caches[j].id => i = j
  BY DEF StorageInv, Lists
<1> QED BY <1>1, <1>2, <1>3, <1>4, <1>5

LEMMA CachesStay ==
  ASSUME StorageInv, Rest3
  PROVE  /\ PairMaps' = PairMaps /\ MapOf(cookies, CookieKeys)' = MapOf(cookies, CookieKeys)
         /\ RecordMaps' = RecordMaps /\ Counted' = Counted
         /\ quota' \in Quotas /\ boxes' \in Seq(BoxType)
            /\ caches' \in Seq([id : 1 .. Len(boxes'), name : Names])
            /\ (\A c \in DOMAIN boxes' : BoxOk(boxes'[c]))
            /\ (\A i, j \in DOMAIN caches' : caches'[i].id = caches'[j].id => i = j)
            => StorageInv'
<1>1. /\ PairMaps' = PairMaps /\ MapOf(cookies, CookieKeys)' = MapOf(cookies, CookieKeys)
      /\ RecordMaps' = RecordMaps /\ Counted' = Counted
  BY DEF PairMaps, RecordMaps, Counted, Rest3
<1>2. ASSUME quota' \in Quotas, boxes' \in Seq(BoxType),
             caches' \in Seq([id : 1 .. Len(boxes'), name : Names]),
             \A c \in DOMAIN boxes' : BoxOk(boxes'[c]),
             \A i, j \in DOMAIN caches' : caches'[i].id = caches'[j].id => i = j
      PROVE  StorageInv'
  <2>1. TypeOK'
    BY <1>2 DEF StorageInv, TypeOK, Rest3, BoxType
  <2>2. Lists'
    BY <1>2 DEF StorageInv, Lists, Rest3
  <2> QED BY <2>1, <2>2 DEF StorageInv
<1> QED BY <1>1, <1>2

LEMMA EntryMapsAre ==
  ASSUME StorageInv
  PROVE  /\ EntryMaps = [c \in 1 .. Len(boxes) |-> EntryMaps[c]]
         /\ DOMAIN EntryMaps = DOMAIN boxes /\ Len(EntryMaps) = Len(boxes)
         /\ \A c \in DOMAIN boxes : EntryMaps[c] = MapOf(boxes[c].entries, Urls)
<1>1. DOMAIN boxes = 1 .. Len(boxes) /\ Len(boxes) \in Nat
  BY BoxesAre
<1>2. EntryMaps = [c \in 1 .. Len(boxes) |-> EntryMaps[c]]
  BY <1>1 DEF EntryMaps
<1>3. Len(EntryMaps) = Len(boxes)
  <2> DEFINE f == EntryMaps
             S == {f[c] : c \in 1 .. Len(boxes)}
  <2>1. \A c \in 1 .. Len(boxes) : f[c] \in S
    OBVIOUS
  <2> HIDE DEF f, S
  <2>2. f = [c \in 1 .. Len(boxes) |-> f[c]]
    BY <1>2 DEF f
  <2>3. Len(f) = Len(boxes)
    BY <1>1, <2>1, <2>2, ListBy
  <2> QED BY <2>3 DEF f
<1> QED BY <1>1, <1>2, <1>3 DEF EntryMaps

LEMMA QuotaIs == ASSUME StorageInv PROVE quota \in Quotas
BY DEF StorageInv, TypeOK

LEMMA SetMaxQuotaStep ==
  ASSUME StorageInv, NEW bytes \in Quotas, SetMaxQuota(bytes)
  PROVE  StorageInv' /\ Maps!SetQuota
<1>1. quota' \in Quotas /\ boxes' = boxes /\ caches' = caches /\ Rest3
  BY DEF SetMaxQuota, Rest3
<1>2. StorageInv'
  BY <1>1, BoxesAre, CachesStay
<1>3. EntryMaps' = EntryMaps /\ Live' = Live
  BY <1>1 DEF EntryMaps, Live
<1>4. /\ PairMaps' = PairMaps /\ MapOf(cookies, CookieKeys)' = MapOf(cookies, CookieKeys)
      /\ RecordMaps' = RecordMaps /\ Counted' = Counted
  BY <1>1, CachesStay
<1>5. quota' \in Nat
  BY <1>1, StorageAssumption
<1>6. Maps!SetQuota
  BY <1>3, <1>4, <1>5 DEF Maps!SetQuota, Live
<1> QED BY <1>2, <1>6

\* One of the boxes is another.
LEMMA BoxStep ==
  ASSUME StorageInv, NEW c \in DOMAIN boxes, NEW new \in BoxType, BoxOk(new),
         boxes' = [boxes EXCEPT ![c] = new], caches' = caches, quota' = quota, Rest3,
         MapOf(new.entries, Urls) \in Maps!Assigned(EntryMaps[c])
  PROVE  StorageInv' /\ Maps!ChangeCaches
<1>1. /\ boxes \in Seq(BoxType) /\ DOMAIN boxes = 1 .. Len(boxes)
      /\ caches \in Seq([id : 1 .. Len(boxes), name : Names])
      /\ \A b \in DOMAIN boxes : BoxOk(boxes[b]) /\ boxes[b] \in BoxType
      /\ \A i, j \in DOMAIN caches : caches[i].id = caches[j].id => i = j
  BY BoxesAre
<1>2. /\ boxes' \in Seq(BoxType) /\ DOMAIN boxes' = DOMAIN boxes /\ Len(boxes') = Len(boxes)
      /\ \A b \in DOMAIN boxes : boxes'[b] = IF b = c THEN new ELSE boxes[b]
  BY <1>1, Replaced
<1>3. \A b \in DOMAIN boxes' : BoxOk(boxes'[b])
  BY <1>1, <1>2
<1>4. StorageInv'
  BY <1>1, <1>2, <1>3, CachesStay, QuotaIs
<1>5. EntryMaps' = [EntryMaps EXCEPT ![c] = MapOf(new.entries, Urls)]
  <2>1. EntryMaps' = [b \in DOMAIN boxes |-> MapOf(boxes'[b].entries, Urls)]
    BY <1>2 DEF EntryMaps
  <2>2. \A b \in DOMAIN boxes :
          MapOf(boxes'[b].entries, Urls) = IF b = c THEN MapOf(new.entries, Urls) ELSE EntryMaps[b]
    BY <1>2, EntryMapsAre
  <2>3. DOMAIN EntryMaps = DOMAIN boxes /\ EntryMaps = [b \in DOMAIN boxes |-> EntryMaps[b]]
    BY DEF EntryMaps
  <2> QED BY <2>1, <2>2, <2>3
<1>6. c \in DOMAIN EntryMaps
  BY EntryMapsAre
<1>7. Live' = Live
  BY DEF Live
<1>8. /\ PairMaps' = PairMaps /\ MapOf(cookies, CookieKeys)' = MapOf(cookies, CookieKeys)
      /\ RecordMaps' = RecordMaps /\ Counted' = Counted
  BY CachesStay
<1>9. Maps!ChangeCaches
  BY <1>5, <1>6, <1>7, <1>8 DEF Maps!ChangeCaches, Live
<1> QED BY <1>4, <1>9

LEMMA PutCacheEntryStep ==
  ASSUME StorageInv, NEW cache \in DOMAIN boxes, NEW url \in Urls, NEW body \in Values,
         PutCacheEntry(cache, url, body)
  PROVE  StorageInv' /\ Maps!ChangeCaches
<1> DEFINE box == boxes[cache]
           at == KeyAt(box.entries, url)
           old == IF at = 0 THEN 0 ELSE box.entries[at].size
           new == [entries |-> Put(box.entries, Pair(url, body)),
                   total |-> box.total - old + Bytes(url, body)]
<1>1. BoxOk(box) /\ EntryMaps[cache] = MapOf(box.entries, Urls)
  BY BoxesAre, EntryMapsAre
<1>2. /\ boxes' = [boxes EXCEPT ![cache] = new]
      /\ caches' = caches /\ quota' = quota /\ Rest3
  BY DEF PutCacheEntry, Rest3
<1> HIDE DEF box
<1>3. /\ BoxOk(new) /\ new \in BoxType
      /\ MapOf(new.entries, Urls) = [MapOf(box.entries, Urls) EXCEPT ![url] = body]
  BY <1>1, BoxPut
<1> HIDE DEF new
<1>4. [MapOf(box.entries, Urls) EXCEPT ![url] = body] \in Maps!Assigned(MapOf(box.entries, Urls))
  BY AssignedIs
<1>5. MapOf(new.entries, Urls) \in Maps!Assigned(EntryMaps[cache])
  BY <1>1, <1>3, <1>4
<1> QED BY <1>2, <1>3, <1>5, BoxStep

LEMMA DeleteCacheEntryStep ==
  ASSUME StorageInv, NEW cache \in DOMAIN boxes, NEW url \in Urls, DeleteCacheEntry(cache, url)
  PROVE  StorageInv' /\ Maps!ChangeCaches
<1> DEFINE box == boxes[cache]
           at == KeyAt(box.entries, url)
           new == [entries |-> RemoveAt(box.entries, at),
                   total |-> Less(box.total, box.entries[at].size)]
<1>1. BoxOk(box) /\ EntryMaps[cache] = MapOf(box.entries, Urls)
  BY BoxesAre, EntryMapsAre
<1>2. /\ boxes' = [boxes EXCEPT ![cache] = new] /\ at # 0
      /\ caches' = caches /\ quota' = quota /\ Rest3
  BY DEF DeleteCacheEntry, Rest3
<1> HIDE DEF box
<1>3. box.entries \in Seq(PairsOf(Urls))
  BY <1>1 DEF BoxOk, PairList
<1>4. at \in DOMAIN box.entries
  BY <1>2, <1>3, KeyAtIs
<1> HIDE DEF at
<1>5. /\ BoxOk(new) /\ new \in BoxType /\ box.entries[at].key \in Urls
      /\ MapOf(new.entries, Urls) = [MapOf(box.entries, Urls) EXCEPT ![box.entries[at].key] = None]
  BY <1>1, <1>4, BoxRemove
<1> HIDE DEF new
<1>6. [MapOf(box.entries, Urls) EXCEPT ![box.entries[at].key] = None]
        \in Maps!Assigned(MapOf(box.entries, Urls))
  BY <1>5, AssignedIs
<1>7. MapOf(new.entries, Urls) \in Maps!Assigned(EntryMaps[cache])
  BY <1>1, <1>5, <1>6
<1> QED BY <1>2, <1>5, <1>7, BoxStep

LEMMA AddCacheStep ==
  ASSUME StorageInv, NEW name \in Names, AddCache(name)
  PROVE  StorageInv' /\ Maps!ChangeCaches
<1> DEFINE n == Len(boxes)
           m == Len(caches)
           new == [entries |-> << >>, total |-> 0]
           cache == [id |-> n + 1, name |-> name]
<1>1. /\ boxes \in Seq(BoxType) /\ DOMAIN boxes = 1 .. n /\ n \in Nat
      /\ caches \in Seq([id : 1 .. n, name : Names]) /\ DOMAIN caches = 1 .. m /\ m \in Nat
      /\ \A b \in DOMAIN boxes : BoxOk(boxes[b])
      /\ \A i \in DOMAIN caches : /\ caches[i] \in [id : 1 .. n, name : Names]
                                  /\ caches[i].id \in DOMAIN boxes
      /\ \A i, j \in DOMAIN caches : caches[i].id = caches[j].id => i = j
  BY BoxesAre
<1>2. /\ boxes' = Append(boxes, new) /\ caches' = <<cache>> \o caches
      /\ quota' = quota /\ Rest3
  BY DEF AddCache, Rest3
<1>3. BoxOk(new) /\ new \in BoxType /\ MapOf(new.entries, Urls) = Maps!Empty(Urls)
  BY EmptyBox
<1> HIDE DEF new
<1>4. /\ boxes' \in Seq(BoxType) /\ DOMAIN boxes' = 1 .. n + 1 /\ Len(boxes') = n + 1
      /\ \A b \in 1 .. n + 1 : boxes'[b] = IF b = n + 1 THEN new ELSE boxes[b]
  BY <1>1, <1>2, <1>3
<1> HIDE DEF n, m
<1>5. \A b \in 1 .. n + 1 : b # n + 1 => b \in 1 .. n
  BY <1>1
<1>6. \A b \in DOMAIN boxes' : BoxOk(boxes'[b])
  BY <1>1, <1>3, <1>4, <1>5
<1>7. cache \in [id : 1 .. n + 1, name : Names] /\ cache.id = n + 1
  BY <1>1
<1> HIDE DEF cache
<1>8. caches \in Seq([id : 1 .. n + 1, name : Names])
  <2>1. \A i \in 1 .. Len(caches) : caches[i] \in [id : 1 .. n + 1, name : Names]
    <3>1. 1 .. n \subseteq 1 .. n + 1
      BY <1>1
    <3> QED BY <3>1, <1>1 DEF m
  <2> QED BY <1>1, <2>1, SeqOver
<1>9. /\ caches' \in Seq([id : 1 .. n + 1, name : Names])
      /\ DOMAIN caches' = 1 .. m + 1
      /\ caches'[1] = cache
      /\ \A i \in 1 .. m : caches'[i + 1] = caches[i]
      /\ \A i \in 2 .. m + 1 : caches'[i] = caches[i - 1]
  BY <1>2, <1>7, <1>8, InFront DEF m
<1>10. \A i \in 1 .. m + 1 : i # 1 => i \in 2 .. m + 1 /\ i - 1 \in DOMAIN caches
  BY <1>1
<1>11. \A i, j \in DOMAIN caches' : caches'[i].id = caches'[j].id => i = j
  <2>1. n + 1 \notin DOMAIN boxes
    BY <1>1
  <2>2. \A i \in DOMAIN caches' : i # 1 => caches'[i].id \in DOMAIN boxes
    BY <1>1, <1>9, <1>10
  <2>3. ASSUME NEW i \in DOMAIN caches', NEW j \in DOMAIN caches', caches'[i].id = caches'[j].id
        PROVE  i = j
    <3>1. CASE i = 1 \/ j = 1
      BY <3>1, <2>1, <2>2, <2>3, <1>7, <1>9
    <3>2. CASE i # 1 /\ j # 1
      <4>1. i - 1 \in DOMAIN caches /\ j - 1 \in DOMAIN caches /\ caches[i - 1].id = caches[j - 1].id
        BY <3>2, <2>3, <1>9, <1>10
      <4>2. i - 1 = j - 1 /\ i \in Int /\ j \in Int
        BY <4>1, <1>1, <1>9
      <4> QED BY <4>2
    <3> QED BY <3>1, <3>2
  <2> QED BY <2>3
<1>12. StorageInv'
  BY <1>2, <1>4, <1>6, <1>9, <1>11, CachesStay, QuotaIs
<1>13. EntryMaps' = Append(EntryMaps, Maps!Empty(Urls)) /\ Len(EntryMaps) = n
  <2> DEFINE f == EntryMaps
             e == Maps!Empty(Urls)
             g == [b \in 1 .. n + 1 |-> IF b = n + 1 THEN e ELSE f[b]]
  <2>1. EntryMaps' = g
    <3>1. EntryMaps' = [b \in 1 .. n + 1 |-> MapOf(boxes'[b].entries, Urls)]
      BY <1>4 DEF EntryMaps
    <3>2. ASSUME NEW b \in 1 .. n + 1
          PROVE  MapOf(boxes'[b].entries, Urls) = IF b = n + 1 THEN e ELSE f[b]
      <4>1. CASE b = n + 1
        BY <4>1, <1>3, <1>4
      <4>2. CASE b # n + 1
        BY <4>2, <1>1, <1>4, <1>5, EntryMapsAre
      <4> QED BY <4>1, <4>2
    <3> HIDE DEF f, e
    <3> QED BY <3>1, <3>2
  <2>2. f = [b \in 1 .. n |-> f[b]]
    BY EntryMapsAre DEF n
  <2> HIDE DEF f, e
  <2>3. g = Append(f, e) /\ Len(f) = n
    BY <1>1, <2>2, OneMore
  <2> QED BY <2>1, <2>3 DEF f, e
<1>14. Live' = Live \union {n + 1}
  <2>1. \A x \in Live' : x \in Live \/ x = n + 1
    BY <1>7, <1>9, <1>10 DEF Live
  <2>2. \A i \in DOMAIN caches : i + 1 \in DOMAIN caches' /\ caches'[i + 1].id = caches[i].id
    BY <1>1, <1>9
  <2>3. \A x \in Live : x \in Live'
    BY <2>2 DEF Live
  <2>4. n + 1 \in Live'
    <3>1. 1 \in DOMAIN caches'
      BY <1>1, <1>9
    <3> QED BY <3>1, <1>7, <1>9 DEF Live
  <2> QED BY <2>1, <2>3, <2>4
<1>15. /\ PairMaps' = PairMaps /\ MapOf(cookies, CookieKeys)' = MapOf(cookies, CookieKeys)
       /\ RecordMaps' = RecordMaps /\ Counted' = Counted
  BY <1>2, CachesStay
<1>16. Maps!ChangeCaches
  BY <1>2, <1>13, <1>14, <1>15 DEF Maps!ChangeCaches, Live
<1> QED BY <1>12, <1>16

LEMMA DeleteCacheStep ==
  ASSUME StorageInv, NEW name \in Names, DeleteCache(name), vars' # vars
  PROVE  StorageInv' /\ Maps!ChangeCaches
<1> DEFINE m == Len(caches)
           I == {i \in 1 .. m : caches[i].name = name}
           at == IF I # {} THEN Min(I) ELSE 0
           list == RemoveAt(caches, at)
<1>1. /\ boxes \in Seq(BoxType)
      /\ caches \in Seq([id : 1 .. Len(boxes), name : Names]) /\ DOMAIN caches = 1 .. m /\ m \in Nat
      /\ \A b \in DOMAIN boxes : BoxOk(boxes[b])
      /\ \A i, j \in DOMAIN caches : caches[i].id = caches[j].id => i = j
  BY BoxesAre
<1>2. caches' = Without(caches, at)
  BY DEF DeleteCache, SelectInSeq
<1>3. boxes' = boxes /\ quota' = quota /\ Rest3
  BY DEF DeleteCache, Rest3
<1>4. at # 0 => at \in 1 .. m
  <2>1. I \in SUBSET Nat /\ I \subseteq 1 .. m
    BY <1>1
  <2>2. I # {} => Min(I) \in I
    <3> HIDE DEF I
    <3> QED BY <2>1, MinOf
  <2> QED BY <2>1, <2>2
<1> HIDE DEF at
<1>5. at # 0
  <2>1. CASE at = 0
    <3>1. caches' = caches
      BY <1>2, <2>1 DEF Without
    <3> QED BY <3>1, <1>3 DEF vars, Rest3
  <2> QED BY <2>1
<1>6. caches' = list
  BY <1>2, <1>5 DEF Without
<1>7. /\ list \in Seq([id : 1 .. Len(boxes), name : Names]) /\ DOMAIN list = 1 .. m - 1
      /\ \A i \in 1 .. m - 1 : list[i] = IF i < at THEN caches[i] ELSE caches[i + 1]
  BY <1>1, <1>4, <1>5, TakenOut
<1> HIDE DEF list, m
<1> DEFINE At(i) == IF i < at THEN i ELSE i + 1
<1>8. \A i \in 1 .. m - 1 : At(i) \in 1 .. m /\ At(i) # at
  BY <1>1, <1>4, <1>5
<1>9. \A i, j \in 1 .. m - 1 : At(i) = At(j) => i = j
  BY <1>1, <1>4, <1>5
<1>10. \A k \in 1 .. m : k # at => \E i \in 1 .. m - 1 : At(i) = k
  <2>1. ASSUME NEW k \in 1 .. m, k < at PROVE \E i \in 1 .. m - 1 : At(i) = k
    <3>1. k \in 1 .. m - 1 /\ At(k) = k
      BY <2>1, <1>1, <1>4, <1>5
    <3> HIDE DEF At
    <3> QED BY <3>1
  <2>2. ASSUME NEW k \in 1 .. m, k > at PROVE \E i \in 1 .. m - 1 : At(i) = k
    <3>1. k - 1 \in 1 .. m - 1 /\ At(k - 1) = k
      BY <2>2, <1>1, <1>4, <1>5
    <3> HIDE DEF At
    <3> QED BY <3>1
  <2>3. \A k \in 1 .. m : k # at => k < at \/ k > at
    BY <1>1, <1>4, <1>5
  <2> QED BY <2>1, <2>2, <2>3
<1>11. \A i \in 1 .. m - 1 : list[i] = caches[At(i)]
  BY <1>7
<1> HIDE DEF At
<1>12. \A i, j \in DOMAIN list : list[i].id = list[j].id => i = j
  <2>1. ASSUME NEW i \in 1 .. m - 1, NEW j \in 1 .. m - 1, list[i].id = list[j].id PROVE i = j
    <3>1. At(i) \in DOMAIN caches /\ At(j) \in DOMAIN caches /\ caches[At(i)].id = caches[At(j)].id
      BY <2>1, <1>1, <1>8, <1>11
    <3>2. At(i) = At(j)
      BY <3>1, <1>1
    <3> QED BY <3>2, <1>9
  <2> QED BY <2>1, <1>7
<1>13. StorageInv'
  BY <1>1, <1>3, <1>6, <1>7, <1>12, CachesStay, QuotaIs
<1>14. Live' = Live \ {caches[at].id} /\ caches[at].id \in Live
  <2>1. \A x \in Live' : x \in Live /\ x # caches[at].id
    BY <1>1, <1>4, <1>5, <1>6, <1>7, <1>8, <1>11 DEF Live
  <2>2. \A x \in Live : x # caches[at].id => x \in Live'
    <3>1. ASSUME NEW k \in DOMAIN caches, caches[k].id # caches[at].id PROVE caches[k].id \in Live'
      <4>1. PICK i \in 1 .. m - 1 : At(i) = k
        BY <3>1, <1>1, <1>10
      <4>2. i \in DOMAIN caches' /\ caches'[i] = caches[k]
        BY <4>1, <1>6, <1>7, <1>11
      <4> QED BY <4>2 DEF Live
    <3> QED BY <3>1 DEF Live
  <2>3. caches[at].id \in Live
    BY <1>1, <1>4, <1>5 DEF Live
  <2> QED BY <2>1, <2>2, <2>3
<1>15. EntryMaps' = EntryMaps
  BY <1>3 DEF EntryMaps
<1>16. /\ PairMaps' = PairMaps /\ MapOf(cookies, CookieKeys)' = MapOf(cookies, CookieKeys)
       /\ RecordMaps' = RecordMaps /\ Counted' = Counted
  BY <1>3, CachesStay
<1>17. Maps!ChangeCaches
  BY <1>3, <1>14, <1>15, <1>16 DEF Maps!ChangeCaches, Live
<1> QED BY <1>13, <1>17

----------------------------------------------------------------------------
(* Eviction, one entry after another.                                      *)

\* Boxes that eviction may leave behind.
BoxesOk(b) == b \in Seq(BoxType) /\ Len(b) = Len(boxes) /\ \A c \in DOMAIN b : BoxOk(b[c])

\* The place of the cache that the next entry is taken from, and its number.
At(b) == Min(Filled(b))
From(b) == caches[At(b)].id
FirstSize(b) == b[From(b)].entries[1].size

LEMMA DropIs ==
  ASSUME StorageInv, NEW b, BoxesOk(b), Filled(b) # {}
  PROVE  /\ At(b) \in DOMAIN caches /\ From(b) \in DOMAIN boxes /\ From(b) \in Live
         /\ \A j \in DOMAIN caches : j < At(b) => b[caches[j].id].entries = << >>
         /\ DOMAIN b = DOMAIN boxes
         /\ b[From(b)].entries # << >> /\ b[From(b)].entries \in Seq(PairsOf(Urls))
         /\ FirstSize(b) \in Nat
         /\ BoxesOk(DropNext(b)) /\ DOMAIN DropNext(b) = DOMAIN boxes
         /\ \A x \in DOMAIN boxes : x # From(b) => DropNext(b)[x] = b[x]
         /\ DropNext(b)[From(b)].entries = Tail(b[From(b)].entries)
         /\ DropNext(b)[From(b)].total = b[From(b)].total - FirstSize(b)
<1> DEFINE m == At(b)
           c == From(b)
           d == DropNext(b)
           box == b[c]
           new == [entries |-> Tail(box.entries), total |-> Less(box.total, Head(box.entries).size)]
<1>1. /\ DOMAIN boxes = 1 .. Len(boxes) /\ DOMAIN caches = 1 .. Len(caches) /\ Len(caches) \in Nat
      /\ \A i \in DOMAIN caches : caches[i].id \in DOMAIN boxes
  BY BoxesAre
<1>2. b \in Seq(BoxType) /\ DOMAIN b = DOMAIN boxes /\ Len(b) = Len(boxes) /\ \A x \in DOMAIN b : BoxOk(b[x])
  BY <1>1 DEF BoxesOk
<1>3. m \in Filled(b) /\ \A j \in Filled(b) : m <= j
  <2>1. Filled(b) \in SUBSET Nat
    BY <1>1 DEF Filled
  <2> QED BY <2>1, MinOf DEF At
<1>4. m \in DOMAIN caches /\ m \in Nat /\ c \in DOMAIN boxes /\ c \in Live /\ box.entries # << >>
  BY <1>1, <1>3 DEF Filled, From, Live
<1>5. ASSUME NEW j \in DOMAIN caches, j < m PROVE b[caches[j].id].entries = << >>
  <2>1. j \notin Filled(b)
    <3> HIDE DEF m
    <3> QED BY <1>1, <1>3, <1>4, <1>5
  <2> QED BY <2>1, <1>5 DEF Filled
<1>6. d = [b EXCEPT ![c] = new]
  BY DEF DropNext, DropFirst, From, At
<1>7. BoxOk(box)
  BY <1>2, <1>4
<1> HIDE DEF m, c, d, box
<1>8. box.entries \in Seq(PairsOf(Urls))
  BY <1>7 DEF BoxOk, PairList
<1>9. /\ Tail(box.entries) = RemoveAt(box.entries, 1) /\ Head(box.entries) = box.entries[1]
      /\ 1 \in DOMAIN box.entries
  BY <1>4, <1>8, TailIs
<1>10. /\ BoxOk(new) /\ new \in BoxType
       /\ new.entries = Tail(box.entries) /\ new.total = box.total - box.entries[1].size
  <2> DEFINE removed == [entries |-> RemoveAt(box.entries, 1),
                         total |-> Less(box.total, box.entries[1].size)]
  <2>1. BoxOk(removed) /\ removed \in BoxType /\ removed.total = box.total - box.entries[1].size
    BY <1>7, <1>9, BoxRemove
  <2>2. new = removed /\ new.entries = Tail(box.entries)
    BY <1>9
  <2> QED BY <2>1, <2>2
<1>11. box.entries[1].size \in Nat
  BY <1>8, <1>9, SizesNat
<1> HIDE DEF new
<1>12. /\ d \in Seq(BoxType) /\ DOMAIN d = DOMAIN b /\ Len(d) = Len(b)
       /\ \A x \in DOMAIN b : d[x] = IF x = c THEN new ELSE b[x]
  BY <1>2, <1>4, <1>6, <1>10, Replaced
<1>13. BoxesOk(d)
  BY <1>2, <1>10, <1>12 DEF BoxesOk
<1> QED
  BY <1>2, <1>4, <1>5, <1>8, <1>10, <1>11, <1>12, <1>13 DEF m, c, d, box, FirstSize

----------------------------------------------------------------------------
(* What it changes in the sums.                                            *)

Totals(b) == [i \in DOMAIN caches |-> b[caches[i].id].total]
BytesIn(b) == SumOf([c \in DOMAIN b |-> Sizes(b[c].entries)])

LEMMA TotalsNat ==
  ASSUME StorageInv, NEW b, BoxesOk(b)
  PROVE  /\ Totals(b) \in Seq(Nat) /\ Totals(b) \in Seq(Int) /\ Len(Totals(b)) = Len(caches)
         /\ SumOf(Totals(b)) \in Nat
<1>1. /\ DOMAIN boxes = 1 .. Len(boxes) /\ DOMAIN caches = 1 .. Len(caches) /\ Len(caches) \in Nat
      /\ \A i \in DOMAIN caches : caches[i].id \in DOMAIN boxes
  BY BoxesAre
<1>2. \A c \in DOMAIN boxes : b[c].total \in Nat
  <2>1. DOMAIN b = DOMAIN boxes /\ \A c \in DOMAIN b : BoxOk(b[c])
    BY <1>1 DEF BoxesOk
  <2> QED BY <2>1 DEF BoxOk
<1>3. Totals(b) \in [1 .. Len(caches) -> Nat]
  BY <1>1, <1>2 DEF Totals
<1>4. Totals(b) \in Seq(Nat) /\ Len(Totals(b)) = Len(caches)
  BY <1>1, <1>3, SeqBy
<1>5. Totals(b) \in Seq(Int)
  BY <1>1, <1>3, SeqBy
<1> QED BY <1>4, <1>5, SumNat

LEMMA UsedWithIs ==
  ASSUME StorageInv
  PROVE  \E rest \in Nat : \A b : BoxesOk(b) => UsedWith(b) = rest + SumOf(Totals(b))
<1> DEFINE L == Sizes(areas[Local])
           S == Sizes(areas[Session])
           C == Sizes(cookies)
           D == IndexedDBBytes
<1>1. L \in Nat /\ S \in Nat
  <2>1. areas[Local] \in Seq(PairsOf(Keys)) /\ areas[Session] \in Seq(PairsOf(Keys))
    BY DEF StorageInv, Lists, PairList
  <2> QED BY <2>1, SizesNat
<1>2. C \in Nat
  BY CookiesAre, SizesNat
<1>3. D \in Nat
  BY StoresBytes
<1>4. \A b : UsedWith(b) = L + S + C + D + SumOf(Totals(b))
  BY DEF UsedWith, Totals
<1> HIDE DEF L, S, C, D
<1>5. L + S + C + D \in Nat
  BY <1>1, <1>2, <1>3
<1> QED BY <1>4, <1>5

LEMMA DropUsed ==
  ASSUME StorageInv, NEW b, BoxesOk(b), Filled(b) # {}
  PROVE  /\ UsedWith(DropNext(b)) = UsedWith(b) - FirstSize(b)
         /\ UsedWith(b) \in Nat /\ FirstSize(b) \in Nat
<1> DEFINE d == DropNext(b)
           q == Totals(b)
           t == Totals(d)
           m == At(b)
<1>1. /\ m \in DOMAIN caches /\ From(b) \in DOMAIN boxes /\ FirstSize(b) \in Nat /\ BoxesOk(d)
      /\ \A x \in DOMAIN boxes : x # From(b) => d[x] = b[x]
      /\ d[From(b)].total = b[From(b)].total - FirstSize(b)
  BY DropIs
<1>2. /\ \A i \in DOMAIN caches : caches[i].id \in DOMAIN boxes
      /\ \A i, j \in DOMAIN caches : caches[i].id = caches[j].id => i = j
      /\ DOMAIN caches = 1 .. Len(caches) /\ Len(caches) \in Nat
  BY BoxesAre
<1>3. /\ q \in Seq(Nat) /\ q \in Seq(Int) /\ Len(q) = Len(caches) /\ SumOf(q) \in Nat
      /\ t \in Seq(Int) /\ Len(t) = Len(caches) /\ SumOf(t) \in Nat
  BY <1>1, TotalsNat
<1>4. \A i \in DOMAIN caches : t[i] = IF i = m THEN q[m] - FirstSize(b) ELSE q[i]
  BY <1>1, <1>2 DEF Totals, From
<1>5. q[m] \in Nat
  BY <1>1, <1>2, <1>3, ElementOfSeq
<1> HIDE DEF q, t, d, m
<1>6. SumOf(t) = SumOf(q) - q[m] + (q[m] - FirstSize(b))
  <2> DEFINE e == q[m] - FirstSize(b)
  <2>1. e \in Int
    BY <1>1, <1>5
  <2>2. \A i \in DOMAIN caches : t[i] = IF i = m THEN e ELSE q[i]
    BY <1>4
  <2> HIDE DEF e
  <2>3. m \in 1 .. Len(q) /\ \A i \in 1 .. Len(q) : t[i] = IF i = m THEN e ELSE q[i]
    BY <1>1, <1>2, <1>3, <2>2
  <2>4. SumOf(t) = SumOf(q) - q[m] + e
    BY <1>3, <2>1, <2>3, SumUpdate
  <2> QED BY <2>4 DEF e
<1>7. SumOf(t) = SumOf(q) - FirstSize(b)
  BY <1>1, <1>3, <1>5, <1>6
<1>8. PICK rest \in Nat : \A x : BoxesOk(x) => UsedWith(x) = rest + SumOf(Totals(x))
  BY UsedWithIs
<1>9. UsedWith(b) = rest + SumOf(q) /\ UsedWith(d) = rest + SumOf(t)
  BY <1>1, <1>8 DEF q, t
<1>10. UsedWith(d) = UsedWith(b) - FirstSize(b) /\ UsedWith(b) \in Nat
  BY <1>1, <1>3, <1>7, <1>9
<1> QED BY <1>1, <1>10 DEF d

LEMMA DropBytes ==
  ASSUME StorageInv, NEW b, BoxesOk(b), Filled(b) # {}
  PROVE  BytesIn(DropNext(b)) = BytesIn(b) - FirstSize(b) /\ BytesIn(b) \in Nat
<1> DEFINE d == DropNext(b)
           q == [c \in DOMAIN b |-> Sizes(b[c].entries)]
           t == [c \in DOMAIN d |-> Sizes(d[c].entries)]
           c0 == From(b)
<1>1. /\ c0 \in DOMAIN boxes /\ FirstSize(b) \in Nat /\ BoxesOk(d)
      /\ DOMAIN b = DOMAIN boxes /\ DOMAIN d = DOMAIN boxes
      /\ \A x \in DOMAIN boxes : x # c0 => d[x] = b[x]
      /\ d[c0].total = b[c0].total - FirstSize(b)
  BY DropIs
<1>2. DOMAIN boxes = 1 .. Len(boxes) /\ Len(boxes) \in Nat
  BY BoxesAre
<1>3. \A x \in DOMAIN boxes :
        /\ Sizes(b[x].entries) = b[x].total /\ b[x].total \in Nat
        /\ Sizes(d[x].entries) = d[x].total /\ d[x].total \in Nat
  BY <1>1 DEF BoxesOk, BoxOk
<1> HIDE DEF d, c0
<1>4. \A x \in 1 .. Len(boxes) : q[x] = b[x].total /\ t[x] = d[x].total /\ q[x] \in Nat /\ t[x] \in Nat
  BY <1>1, <1>2, <1>3
<1>5. q = [x \in 1 .. Len(boxes) |-> q[x]] /\ t = [x \in 1 .. Len(boxes) |-> t[x]]
  BY <1>1, <1>2
<1>6. BytesIn(b) = SumOf(q) /\ BytesIn(d) = SumOf(t)
  BY DEF BytesIn
<1> HIDE DEF q, t
<1>7. q \in Seq(Nat) /\ Len(q) = Len(boxes) /\ q \in Seq(Int) /\ t \in Seq(Int) /\ Len(t) = Len(boxes)
  <2>1. q \in [1 .. Len(boxes) -> Nat] /\ q \in [1 .. Len(boxes) -> Int] /\ t \in [1 .. Len(boxes) -> Int]
    BY <1>4, <1>5
  <2> QED BY <2>1, <1>2, SeqBy
<1>8. SumOf(t) = SumOf(q) - q[c0] + t[c0]
  <2>1. c0 \in 1 .. Len(q) /\ t[c0] \in Int
    BY <1>1, <1>2, <1>4, <1>7
  <2>2. \A x \in 1 .. Len(q) : t[x] = IF x = c0 THEN t[c0] ELSE q[x]
    BY <1>1, <1>2, <1>4, <1>7
  <2> QED BY <1>7, <2>1, <2>2, SumUpdate
<1>9. t[c0] = q[c0] - FirstSize(b) /\ q[c0] \in Nat
  BY <1>1, <1>2, <1>4
<1>10. SumOf(q) \in Nat
  BY <1>7, SumNat
<1>11. BytesIn(d) = BytesIn(b) - FirstSize(b) /\ BytesIn(b) \in Nat
  BY <1>1, <1>6, <1>8, <1>9, <1>10
<1> QED BY <1>11 DEF d

LEMMA DropEntries ==
  ASSUME StorageInv, NEW b, BoxesOk(b), Filled(b) # {}
  PROVE  EntriesIn(DropNext(b)) = EntriesIn(b) - 1 /\ EntriesIn(b) \in Nat \ {0}
<1> DEFINE d == DropNext(b)
           q == [c \in DOMAIN b |-> Len(b[c].entries)]
           t == [c \in DOMAIN d |-> Len(d[c].entries)]
           c0 == From(b)
<1>1. /\ c0 \in DOMAIN boxes /\ BoxesOk(d)
      /\ DOMAIN b = DOMAIN boxes /\ DOMAIN d = DOMAIN boxes
      /\ \A x \in DOMAIN boxes : x # c0 => d[x] = b[x]
      /\ b[c0].entries # << >> /\ d[c0].entries = Tail(b[c0].entries)
  BY DropIs
<1>2. DOMAIN boxes = 1 .. Len(boxes) /\ Len(boxes) \in Nat
  BY BoxesAre
<1>3. \A x \in DOMAIN boxes : b[x].entries \in Seq(PairsOf(Urls)) /\ d[x].entries \in Seq(PairsOf(Urls))
  BY <1>1 DEF BoxesOk, BoxOk, PairList
<1>4. Len(d[c0].entries) = Len(b[c0].entries) - 1 /\ Len(b[c0].entries) \in Nat \ {0}
  BY <1>1, <1>3, TailIs
<1> HIDE DEF d, c0
<1>5. \A x \in 1 .. Len(boxes) :
        /\ q[x] = Len(b[x].entries) /\ t[x] = Len(d[x].entries) /\ q[x] \in Nat /\ t[x] \in Nat
  BY <1>1, <1>2, <1>3
<1>6. q = [x \in 1 .. Len(boxes) |-> q[x]] /\ t = [x \in 1 .. Len(boxes) |-> t[x]]
  BY <1>1, <1>2
<1>7. EntriesIn(b) = SumOf(q) /\ EntriesIn(d) = SumOf(t)
  BY DEF EntriesIn
<1> HIDE DEF q, t
<1>8. q \in Seq(Nat) /\ Len(q) = Len(boxes) /\ q \in Seq(Int) /\ t \in Seq(Int) /\ Len(t) = Len(boxes)
  <2>1. q \in [1 .. Len(boxes) -> Nat] /\ q \in [1 .. Len(boxes) -> Int] /\ t \in [1 .. Len(boxes) -> Int]
    BY <1>5, <1>6
  <2> QED BY <2>1, <1>2, SeqBy
<1>9. c0 \in 1 .. Len(q) /\ t[c0] \in Int
  BY <1>1, <1>2, <1>5, <1>8
<1>10. SumOf(t) = SumOf(q) - q[c0] + t[c0]
  <2>1. \A x \in 1 .. Len(q) : t[x] = IF x = c0 THEN t[c0] ELSE q[x]
    BY <1>1, <1>2, <1>5, <1>8
  <2> QED BY <1>8, <1>9, <2>1, SumUpdate
<1>11. t[c0] = q[c0] - 1 /\ q[c0] \in Nat \ {0}
  BY <1>1, <1>2, <1>4, <1>5
<1>12. SumOf(q) \in Nat /\ q[c0] <= SumOf(q)
  BY <1>8, <1>9, SumAtLeast
<1>13. EntriesIn(d) = EntriesIn(b) - 1 /\ EntriesIn(b) \in Nat \ {0}
  BY <1>7, <1>10, <1>11, <1>12
<1> QED BY <1>13 DEF d

----------------------------------------------------------------------------
(* What it leaves.                                                         *)

LostOf(b, c) == Len(boxes[c].entries) - Len(b[c].entries)
HitBy(b) == {i \in DOMAIN caches : LostOf(b, caches[i].id) > 0}

\* The lists lose from their fronts, those of caches that were deleted nothing.
Ends(b) ==
  \A c \in DOMAIN boxes :
    /\ LostOf(b, c) \in Nat
    /\ \A i \in 1 .. Len(b[c].entries) : b[c].entries[i] = boxes[c].entries[LostOf(b, c) + i]
    /\ c \notin Live => b[c] = boxes[c]

\* The caches before one that lost something are empty.
InOrder(b) ==
  \A i \in HitBy(b) : \A j \in DOMAIN caches : j < i => b[caches[j].id].entries = << >>

\* With what was taken last the quota was exceeded.
LastTaken(b, i) == boxes[caches[i].id].entries[LostOf(b, caches[i].id)].size
JustEnough(b) ==
  \A i \in HitBy(b) : (\A j \in HitBy(b) : j <= i) => UsedWith(b) + LastTaken(b, i) >= quota

Balanced(b) == BytesIn(boxes) - BytesIn(b) = UsedWith(boxes) - UsedWith(b)

Left(b) == BoxesOk(b) /\ Ends(b) /\ InOrder(b) /\ JustEnough(b) /\ Balanced(b)

LEMMA EntriesOf ==
  ASSUME StorageInv, NEW b, BoxesOk(b), NEW c \in DOMAIN boxes
  PROVE  /\ b[c].entries \in Seq(PairsOf(Urls)) /\ boxes[c].entries \in Seq(PairsOf(Urls))
         /\ Len(b[c].entries) \in Nat /\ Len(boxes[c].entries) \in Nat
<1>1. DOMAIN b = DOMAIN boxes /\ BoxOk(b[c])
  BY BoxesAre DEF BoxesOk
<1>2. BoxOk(boxes[c])
  BY BoxesAre
<1>3. b[c].entries \in Seq(PairsOf(Urls)) /\ boxes[c].entries \in Seq(PairsOf(Urls))
  BY <1>1, <1>2 DEF BoxOk, PairList
<1> QED BY <1>3

LEMMA BytesInt ==
  ASSUME StorageInv, NEW b, BoxesOk(b)
  PROVE  BytesIn(b) \in Nat
<1> DEFINE q == [c \in DOMAIN b |-> Sizes(b[c].entries)]
<1>1. DOMAIN b = 1 .. Len(boxes) /\ Len(boxes) \in Nat /\ DOMAIN boxes = DOMAIN b
  BY BoxesAre DEF BoxesOk
<1>2. \A c \in 1 .. Len(boxes) : Sizes(b[c].entries) \in Nat
  BY <1>1, EntriesOf, SizesNat
<1>3. q \in [1 .. Len(boxes) -> Nat]
  BY <1>1, <1>2
<1>4. BytesIn(b) = SumOf(q)
  BY DEF BytesIn
<1> HIDE DEF q
<1> QED BY <1>1, <1>3, <1>4, SeqBy, SumNat

LEMMA EntriesNat ==
  ASSUME StorageInv, NEW b, BoxesOk(b)
  PROVE  EntriesIn(b) \in Nat
<1> DEFINE q == [c \in DOMAIN b |-> Len(b[c].entries)]
<1>1. DOMAIN b = 1 .. Len(boxes) /\ Len(boxes) \in Nat /\ DOMAIN boxes = DOMAIN b
  BY BoxesAre DEF BoxesOk
<1>2. \A c \in 1 .. Len(boxes) : Len(b[c].entries) \in Nat
  BY <1>1, EntriesOf
<1>3. q \in [1 .. Len(boxes) -> Nat]
  BY <1>1, <1>2
<1>4. EntriesIn(b) = SumOf(q)
  BY DEF EntriesIn
<1> HIDE DEF q
<1> QED BY <1>1, <1>3, <1>4, SeqBy, SumNat

LEMMA NothingTaken ==
  ASSUME StorageInv
  PROVE  Left(boxes)
<1>1. BoxesOk(boxes)
  BY BoxesAre DEF BoxesOk
<1>2. \A c \in DOMAIN boxes : LostOf(boxes, c) = 0
  <2>1. \A c \in DOMAIN boxes : Len(boxes[c].entries) \in Nat
    BY <1>1, EntriesOf
  <2> QED BY <2>1 DEF LostOf
<1>3. HitBy(boxes) = {}
  <2>1. \A i \in DOMAIN caches : caches[i].id \in DOMAIN boxes
    BY BoxesAre
  <2> QED BY <2>1, <1>2 DEF HitBy
<1>4. Ends(boxes)
  <2>1. ASSUME NEW c \in DOMAIN boxes, NEW i \in 1 .. Len(boxes[c].entries)
        PROVE  boxes[c].entries[i] = boxes[c].entries[LostOf(boxes, c) + i]
    <3>1. 0 + i = i
      BY <1>1, EntriesOf
    <3> QED BY <3>1, <1>2
  <2> QED BY <2>1, <1>2 DEF Ends
<1>5. InOrder(boxes) /\ JustEnough(boxes)
  BY <1>3 DEF InOrder, JustEnough
<1>6. Balanced(boxes)
  <2>1. UsedWith(boxes) \in Nat
    BY UsedIs DEF Used
  <2>2. BytesIn(boxes) \in Nat
    BY <1>1, BytesInt
  <2> QED BY <2>1, <2>2 DEF Balanced
<1> QED BY <1>1, <1>4, <1>5, <1>6 DEF Left

LEMMA DropLost ==
  ASSUME StorageInv, NEW b, BoxesOk(b), Ends(b), Filled(b) # {}
  PROVE  /\ \A x \in DOMAIN boxes :
              LostOf(DropNext(b), x) = IF x = From(b) THEN LostOf(b, x) + 1 ELSE LostOf(b, x)
         /\ LostOf(b, From(b)) \in Nat
         /\ LostOf(b, From(b)) + 1 \in 1 .. Len(boxes[From(b)].entries)
         /\ boxes[From(b)].entries[LostOf(b, From(b)) + 1].size = FirstSize(b)
         /\ Ends(DropNext(b))
<1> DEFINE d == DropNext(b)
           c == From(b)
           n == Len(b[c].entries)
           lost == LostOf(b, c)
<1>1. /\ c \in DOMAIN boxes /\ c \in Live
      /\ BoxesOk(d)
      /\ \A x \in DOMAIN boxes : x # c => d[x] = b[x]
      /\ b[c].entries # << >> /\ d[c].entries = Tail(b[c].entries)
  BY DropIs
<1> HIDE DEF d, c
<1>2. /\ b[c].entries \in Seq(PairsOf(Urls)) /\ n \in Nat /\ Len(boxes[c].entries) \in Nat
  BY <1>1, EntriesOf
<1>3. /\ Len(d[c].entries) = n - 1 /\ n \in Nat \ {0}
      /\ \A i \in 1 .. n - 1 : d[c].entries[i] = b[c].entries[i + 1]
  BY <1>1, <1>2, TailIs
<1>4. lost = Len(boxes[c].entries) - n /\ lost \in Nat
  BY <1>1 DEF LostOf, Ends
<1>5. LostOf(d, c) = lost + 1
  <2>1. LostOf(d, c) = Len(boxes[c].entries) - (n - 1)
    BY <1>3 DEF LostOf
  <2> HIDE DEF n, lost
  <2> QED BY <2>1, <1>2, <1>3, <1>4
<1>6. \A x \in DOMAIN boxes : x # c => LostOf(d, x) = LostOf(b, x)
  BY <1>1 DEF LostOf
<1>7. lost + 1 \in 1 .. Len(boxes[c].entries)
  <2> HIDE DEF n, lost
  <2> QED BY <1>2, <1>3, <1>4
<1>8. \A i \in 1 .. n : b[c].entries[i] = boxes[c].entries[lost + i]
  BY <1>1 DEF Ends
<1>9. boxes[c].entries[lost + 1].size = FirstSize(b)
  <2>1. 1 \in 1 .. n
    BY <1>3
  <2> QED BY <2>1, <1>8 DEF FirstSize, c
<1>10. Ends(d)
  <2>1. ASSUME NEW x \in DOMAIN boxes
        PROVE  /\ LostOf(d, x) \in Nat
               /\ \A i \in 1 .. Len(d[x].entries) : d[x].entries[i] = boxes[x].entries[LostOf(d, x) + i]
               /\ x \notin Live => d[x] = boxes[x]
    <3>1. CASE x # c
      BY <3>1, <2>1, <1>1, <1>6 DEF Ends
    <3>2. CASE x = c
      <4>1. ASSUME NEW i \in 1 .. n - 1 PROVE d[c].entries[i] = boxes[c].entries[(lost + 1) + i]
        <5> HIDE DEF lost, n
        <5>1. i \in Int /\ lost \in Int
          BY <1>4
        <5>2. lost + (i + 1) = (lost + 1) + i
          BY <5>1
        <5>3. i + 1 \in 1 .. n
          BY <1>3
        <5> QED BY <5>2, <5>3, <1>3, <1>8
      <4>2. lost + 1 \in Nat
        BY <1>4
      <4> QED BY <3>2, <4>1, <4>2, <1>1, <1>3, <1>5
    <3> QED BY <3>1, <3>2
  <2> QED BY <2>1 DEF Ends
<1> QED BY <1>4, <1>5, <1>6, <1>7, <1>9, <1>10 DEF d, c

LEMMA DropLeaves ==
  ASSUME StorageInv, NEW b, Left(b), Filled(b) # {}, Exceeded(b)
  PROVE  Left(DropNext(b))
<1> DEFINE d == DropNext(b)
           m == At(b)
           c == From(b)
           size == FirstSize(b)
<1>1. BoxesOk(b) /\ Ends(b) /\ InOrder(b) /\ Balanced(b)
  BY DEF Left
<1>2. /\ m \in DOMAIN caches /\ c = caches[m].id /\ c \in DOMAIN boxes
      /\ \A j \in DOMAIN caches : j < m => b[caches[j].id].entries = << >>
      /\ b[c].entries # << >> /\ BoxesOk(d)
      /\ \A x \in DOMAIN boxes : x # c => d[x] = b[x]
  BY <1>1, DropIs DEF From
<1>3. /\ \A x \in DOMAIN boxes : LostOf(d, x) = IF x = c THEN LostOf(b, x) + 1 ELSE LostOf(b, x)
      /\ LostOf(b, c) \in Nat
      /\ boxes[c].entries[LostOf(b, c) + 1].size = size
      /\ Ends(d)
  BY <1>1, DropLost
<1>4. /\ \A i \in DOMAIN caches : caches[i].id \in DOMAIN boxes /\ i \in Int
      /\ \A i, j \in DOMAIN caches : caches[i].id = caches[j].id => i = j
  BY BoxesAre
<1>5. UsedWith(d) = UsedWith(b) - size /\ UsedWith(b) \in Nat /\ size \in Nat
  BY <1>1, DropUsed
<1>6. BytesIn(d) = BytesIn(b) - size /\ BytesIn(b) \in Nat
  BY <1>1, DropBytes
<1> HIDE DEF d, m, c, size
<1>7. \A i \in DOMAIN caches : i # m => caches[i].id # c /\ d[caches[i].id] = b[caches[i].id]
  BY <1>2, <1>4
<1>8. HitBy(d) = HitBy(b) \union {m}
  <2>1. LostOf(d, c) > 0
    BY <1>2, <1>3
  <2>2. \A i \in DOMAIN caches : i # m => LostOf(d, caches[i].id) = LostOf(b, caches[i].id)
    BY <1>3, <1>4, <1>7
  <2> QED BY <2>1, <2>2, <1>2 DEF HitBy
<1>9. \A i \in HitBy(b) : ~ (m < i)
  BY <1>1, <1>2 DEF InOrder
<1>10. InOrder(d)
  <2>1. ASSUME NEW i \in HitBy(d), NEW j \in DOMAIN caches, j < i
        PROVE  d[caches[j].id].entries = << >>
    <3>1. b[caches[j].id].entries = << >>
      BY <2>1, <1>1, <1>2, <1>8 DEF InOrder
    <3>2. j # m
      BY <3>1, <1>2
    <3> QED BY <3>1, <3>2, <1>7
  <2> QED BY <2>1 DEF InOrder
<1>11. JustEnough(d)
  <2>1. ASSUME NEW i \in HitBy(d), \A j \in HitBy(d) : j <= i
        PROVE  UsedWith(d) + LastTaken(d, i) >= quota
    <3>1. i = m
      <4>1. m \in HitBy(d) /\ i \in Int /\ m \in Int /\ m <= i
        BY <2>1, <1>2, <1>4, <1>8 DEF HitBy
      <4>2. i \in HitBy(b) => ~ (m < i)
        BY <1>9
      <4> QED BY <4>1, <4>2, <2>1, <1>8
    <3>2. LastTaken(d, m) = size
      BY <1>2, <1>3 DEF LastTaken
    <3>3. UsedWith(d) + size = UsedWith(b)
      BY <1>5
    <3> QED BY <3>1, <3>2, <3>3 DEF Exceeded
  <2> QED BY <2>1 DEF JustEnough
<1>12. Balanced(d)
  <2>1. /\ BytesIn(boxes) - BytesIn(b) = UsedWith(boxes) - UsedWith(b)
        /\ UsedWith(boxes) \in Nat /\ BytesIn(boxes) \in Int
    <3>1. UsedWith(boxes) \in Nat
      BY UsedIs DEF Used
    <3>2. BytesIn(boxes) \in Nat
      BY NothingTaken, BytesInt DEF Left
    <3> QED BY <3>1, <3>2, <1>1 DEF Balanced
  <2> DEFINE p == BytesIn(boxes)
             q == BytesIn(b)
             r == UsedWith(boxes)
             s == UsedWith(b)
  <2>2. p - (q - size) = r - (s - size)
    <3>1. p - q = r - s /\ p \in Int /\ q \in Int /\ r \in Int /\ s \in Int /\ size \in Int
      BY <2>1, <1>5, <1>6
    <3> HIDE DEF p, q, r, s
    <3> QED BY <3>1
  <2> QED BY <2>2, <1>5, <1>6 DEF Balanced
<1> QED BY <1>2, <1>3, <1>10, <1>11, <1>12 DEF Left, d

----------------------------------------------------------------------------
(* All of it: as long as there is something to take, one entry less remains. *)

Shedding(b) == Exceeded(b) /\ Filled(b) # {}

LEMMA EvictionLeaves ==
  ASSUME StorageInv
  PROVE  Left(AfterEviction) /\ ~ Shedding(AfterEviction)
<1> DEFINE N == EntriesIn(boxes)
           V == {b \in Seq(BoxType) : Left(b)}
           step == [a \in Nat \X V |-> Shed(a[2])]
<1>1. Left(boxes)
  BY NothingTaken
<1>2. ASSUME NEW b, Left(b) PROVE Left(Shed(b)) /\ b \in Seq(BoxType)
  BY <1>2, DropLeaves DEF Shed, Left, BoxesOk
<1>3. N \in Nat
  <2>1. BoxesOk(boxes)
    BY <1>1 DEF Left
  <2> QED BY <2>1, EntriesNat
<1>4. step \in [Nat \X V -> V]
  <2>1. ASSUME NEW a \in Nat \X V PROVE Shed(a[2]) \in V
    <3>1. Left(a[2])
      BY <2>1
    <3> QED BY <3>1, <1>2
  <2> QED BY <2>1
<1>5. boxes \in V
  BY <1>1, <1>2
<1>6. PICK f \in [0 .. N -> V] : Recursive(f, N, boxes, step)
  <2> HIDE DEF N, V, step
  <2> QED BY <1>3, <1>4, <1>5, Recursion
<1>7. \A k \in 1 .. N : f[k] = Shed(f[k - 1]) /\ Left(f[k - 1])
  <2>1. ASSUME NEW k \in 1 .. N PROVE f[k] = Shed(f[k - 1]) /\ Left(f[k - 1])
    <3>1. k \in Nat /\ k - 1 \in 0 .. N
      BY <1>3
    <3>2. f[k - 1] \in V
      BY <3>1, <1>6
    <3>3. step[<<k, f[k - 1]>>] = Shed(f[k - 1])
      BY <3>1, <3>2
    <3> QED BY <3>2, <3>3, <1>6 DEF Recursive
  <2> QED BY <2>1
<1>8. f[0] = boxes /\ \A k \in 0 .. N : Left(f[k])
  BY <1>6 DEF Recursive
<1> HIDE DEF N, V, step
<1>9. f = [k \in 0 .. N |-> IF k = 0 THEN boxes ELSE Shed(f[k - 1])]
  <2>1. \A k \in 0 .. N : k # 0 => k \in 1 .. N
    BY <1>3
  <2> QED BY <2>1, <1>3, <1>6, <1>7, <1>8
<1> DEFINE g == CHOOSE g : g = [k \in 0 .. N |-> IF k = 0 THEN boxes ELSE Shed(g[k - 1])]
<1>10. g = [k \in 0 .. N |-> IF k = 0 THEN boxes ELSE Shed(g[k - 1])]
  BY <1>9
<1>11. AfterEviction = g[N]
  BY DEF AfterEviction, N
<1> HIDE DEF g
<1> DEFINE Fewer(b, k) == Shedding(b) => EntriesIn(b) = N - k
           S == {k \in Nat : k <= N => g[k] = f[k] /\ Fewer(f[k], k)}
<1>12. 0 \in S
  <2>1. Fewer(f[0], 0)
    BY <1>3, <1>8 DEF N
  <2>2. g[0] = f[0]
    BY <1>3, <1>8, <1>10
  <2> HIDE DEF Fewer
  <2> QED BY <2>1, <2>2
<1>13. ASSUME NEW k \in Nat, k \in S PROVE k + 1 \in S
  <2>1. CASE k + 1 <= N
    <3>1. /\ k + 1 \in 1 .. N /\ k + 1 \in 0 .. N /\ (k + 1) - 1 = k /\ k <= N /\ k + 1 # 0
          /\ k \in 0 .. N
      BY <2>1, <1>3
    <3>2. g[k + 1] = Shed(g[k]) /\ f[k + 1] = Shed(f[k])
      BY <3>1, <1>7, <1>10
    <3>3. g[k] = f[k] /\ Fewer(f[k], k)
      BY <3>1, <1>13
    <3>4. Fewer(f[k + 1], k + 1)
      <4>1. CASE Shedding(f[k])
        <5>1. f[k + 1] = DropNext(f[k])
          BY <4>1, <3>2 DEF Shed, Shedding
        <5>2. BoxesOk(f[k])
          BY <3>1, <1>8 DEF Left
        <5>3. EntriesIn(DropNext(f[k])) = EntriesIn(f[k]) - 1
          BY <4>1, <5>2, DropEntries DEF Shedding
        <5>4. EntriesIn(f[k]) = N - k
          BY <3>3, <4>1
        <5>5. (N - k) - 1 = N - (k + 1)
          BY <1>3
        <5> QED BY <5>1, <5>3, <5>4, <5>5
      <4>2. CASE ~ Shedding(f[k])
        <5>1. f[k + 1] = f[k]
          BY <4>2, <3>2 DEF Shed, Shedding
        <5> QED BY <4>2, <5>1
      <4> QED BY <4>1, <4>2
    <3> HIDE DEF Fewer
    <3> QED BY <3>2, <3>3, <3>4
  <2>2. CASE ~ (k + 1 <= N)
    BY <2>2
  <2> QED BY <2>1, <2>2
<1>14. \A k \in Nat : k \in S
  <2> HIDE DEF S
  <2> QED BY <1>12, <1>13, Induction
<1>15. g[N] = f[N] /\ Fewer(f[N], N)
  <2>1. N <= N /\ N \in S
    BY <1>3, <1>14
  <2> HIDE DEF Fewer
  <2> QED BY <2>1
<1>16. Left(f[N])
  BY <1>3, <1>8
<1>17. ~ Shedding(f[N])
  <2>1. ASSUME Shedding(f[N]) PROVE FALSE
    <3>1. EntriesIn(f[N]) = N - N /\ N - N = 0
      BY <2>1, <1>3, <1>15
    <3>2. BoxesOk(f[N])
      BY <1>16 DEF Left
    <3>3. EntriesIn(f[N]) # 0
      BY <2>1, <3>2, DropEntries DEF Shedding
    <3> QED BY <3>1, <3>3
  <2> QED BY <2>1
<1> QED BY <1>11, <1>15, <1>16, <1>17

----------------------------------------------------------------------------
(* The step of eviction.                                                   *)

LEMMA SuffixIs ==
  ASSUME NEW S, NEW s \in Seq(S), NEW t \in Seq(S), NEW k \in Nat, k = Len(t) - Len(s),
         \A i \in 1 .. Len(s) : s[i] = t[k + i]
  PROVE  IsSuffix(s, t)
<1> DEFINE m == Len(s)
           n == Len(t)
           u == [i \in 1 .. m |-> s[(m - i) + 1]]
           v == [i \in 1 .. n |-> t[(n - i) + 1]]
<1>1. m \in Nat /\ n \in Nat /\ m <= n /\ k = n - m
  OBVIOUS
<1>2. \A i \in 1 .. m : s[i] = t[k + i]
  OBVIOUS
<1>3. u \in Seq(S) /\ Len(u) = m /\ v \in Seq(S) /\ Len(v) = n
  <2>1. u \in [1 .. m -> S] /\ v \in [1 .. n -> S]
    <3>1. \A i \in 1 .. m : s[(m - i) + 1] \in S
      <4>1. \A i \in 1 .. m : (m - i) + 1 \in 1 .. m
        BY <1>1
      <4> QED BY <4>1, ElementOfSeq
    <3>2. \A i \in 1 .. n : t[(n - i) + 1] \in S
      <4>1. \A i \in 1 .. n : (n - i) + 1 \in 1 .. n
        BY <1>1
      <4> QED BY <4>1, ElementOfSeq
    <3> HIDE DEF m, n
    <3> QED BY <3>1, <3>2
  <2> HIDE DEF m, n, u, v
  <2> QED BY <2>1, <1>1, SeqBy
<1> HIDE DEF m, n
<1>4. \A i \in 1 .. m : u[i] = v[i]
  <2>1. ASSUME NEW i \in 1 .. m PROVE s[(m - i) + 1] = t[(n - i) + 1]
    <3>1. (m - i) + 1 \in 1 .. m
      BY <1>1
    <3>2. k + ((m - i) + 1) = (n - i) + 1
      BY <1>1
    <3>3. s[(m - i) + 1] = t[k + ((m - i) + 1)]
      BY <3>1, <1>2
    <3> QED BY <3>2, <3>3
  <2>2. \A i \in 1 .. m : i \in 1 .. n
    BY <1>1
  <2> QED BY <2>1, <2>2
<1>5. Reverse(s) = u /\ Reverse(t) = v
  BY DEF Reverse, m, n
<1> HIDE DEF u, v
<1>6. /\ SubSeq(u, 1, m) \in Seq(S) /\ SubSeq(v, 1, m) \in Seq(S)
      /\ Len(SubSeq(u, 1, m)) = m /\ Len(SubSeq(v, 1, m)) = m
      /\ \A i \in 1 .. m : SubSeq(u, 1, m)[i] = u[i] /\ SubSeq(v, 1, m)[i] = v[i]
  <2>1. /\ SubSeq(u, 1, m) \in [1 .. m -> S] /\ SubSeq(v, 1, m) \in [1 .. m -> S]
        /\ \A i \in 1 .. m : SubSeq(u, 1, m)[i] = u[i] /\ SubSeq(v, 1, m)[i] = v[i]
    <3>1. \A i \in 1 .. m : i \in 1 .. n
      BY <1>1
    <3>2. \A i \in 1 .. m : u[i] \in S /\ v[i] \in S
      BY <3>1, <1>3, ElementOfSeq
    <3>3. /\ SubSeq(u, 1, m) = [i \in 1 .. m |-> u[i]]
          /\ SubSeq(v, 1, m) = [i \in 1 .. m |-> v[i]]
      BY <1>1
    <3> QED BY <3>2, <3>3
  <2> QED BY <2>1, <1>1, SeqBy
<1>7. SubSeq(u, 1, m) = SubSeq(v, 1, m)
  <2> DEFINE p == SubSeq(u, 1, m)
             q == SubSeq(v, 1, m)
  <2>1. p \in Seq(S) /\ q \in Seq(S) /\ Len(p) = Len(q) /\ \A i \in 1 .. Len(p) : p[i] = q[i]
    BY <1>4, <1>6
  <2> HIDE DEF p, q
  <2>2. p = q
    BY <2>1, SeqEqual
  <2> QED BY <2>2 DEF p, q
<1>8. IsPrefix(u, v)
  BY <1>1, <1>3, <1>7 DEF IsPrefix
<1> QED BY <1>5, <1>8 DEF IsSuffix

\* Of the values that could be read, those that remain are what they were.
LEMMA FoundIn ==
  ASSUME NEW S, NEW s \in Seq(S), NEW t \in Seq(S), Unique(s), Unique(t), NEW k \in Nat,
         k = Len(t) - Len(s), \A i \in 1 .. Len(s) : s[i] = t[k + i], NEW x
  PROVE  Find(s, x) \in {Find(t, x), None}
<1>1. CASE \E i \in DOMAIN s : s[i].key = x
  <2>1. PICK i \in DOMAIN s : s[i].key = x
    BY <1>1
  <2>2. i \in 1 .. Len(s) /\ k + i \in DOMAIN t
    OBVIOUS
  <2>3. s[i] = t[k + i]
    BY <2>2
  <2>4. Find(s, x) = s[i].value /\ Find(t, x) = t[k + i].value
    BY <2>1, <2>2, <2>3, FindIs
  <2> QED BY <2>3, <2>4
<1>2. CASE ~ \E i \in DOMAIN s : s[i].key = x
  BY <1>2, FindIs
<1> QED BY <1>1, <1>2

LEMMA EvictStep ==
  ASSUME StorageInv, Evict
  PROVE  StorageInv' /\ Maps!Evict /\ TakesJustEnough
<1>1. PICK d : d = AfterEviction
  OBVIOUS
<1>2. boxes' = d /\ caches' = caches /\ quota' = quota /\ Rest3 /\ Exceeded(boxes)
  BY <1>1 DEF Evict, Rest3
<1>3. BoxesOk(d) /\ Ends(d) /\ JustEnough(d) /\ Balanced(d) /\ ~ Shedding(d)
  BY <1>1, EvictionLeaves DEF Left
<1>4. /\ DOMAIN boxes = 1 .. Len(boxes) /\ DOMAIN d = DOMAIN boxes /\ Len(d) = Len(boxes)
      /\ d \in Seq(BoxType) /\ \A c \in DOMAIN boxes : BoxOk(d[c]) /\ BoxOk(boxes[c])
      /\ caches \in Seq([id : 1 .. Len(boxes), name : Names])
      /\ DOMAIN caches = 1 .. Len(caches) /\ Len(caches) \in Nat
      /\ \A i, j \in DOMAIN caches : caches[i].id = caches[j].id => i = j
      /\ \A i \in DOMAIN caches : caches[i].id \in DOMAIN boxes
  BY <1>3, BoxesAre DEF BoxesOk
<1>5. StorageInv'
  BY <1>2, <1>4, CachesStay, QuotaIs
<1>6. ASSUME NEW c \in DOMAIN boxes
      PROVE  /\ d[c].entries \in Seq(PairsOf(Urls)) /\ boxes[c].entries \in Seq(PairsOf(Urls))
             /\ Unique(d[c].entries) /\ Unique(boxes[c].entries)
             /\ LostOf(d, c) \in Nat /\ LostOf(d, c) = Len(boxes[c].entries) - Len(d[c].entries)
             /\ \A i \in 1 .. Len(d[c].entries) : d[c].entries[i] = boxes[c].entries[LostOf(d, c) + i]
             /\ c \notin Live => d[c] = boxes[c]
  BY <1>3, <1>4, <1>6 DEF BoxOk, PairList, Keyed, Ends, LostOf
<1>7. EntryMaps' = [c \in DOMAIN boxes |-> MapOf(d[c].entries, Urls)]
  BY <1>2, <1>4 DEF EntryMaps
<1>8. Maps!Evict
  <2>1. DOMAIN EntryMaps' = DOMAIN EntryMaps /\ DOMAIN EntryMaps = DOMAIN boxes
    BY <1>7 DEF EntryMaps
  <2>2. ASSUME NEW c \in DOMAIN boxes, NEW url \in Urls
        PROVE  EntryMaps'[c][url] \in {EntryMaps[c][url]} \union IF c \in Live THEN {None} ELSE {}
    <3>1. EntryMaps'[c][url] = Find(d[c].entries, url) /\ EntryMaps[c][url] = Find(boxes[c].entries, url)
      BY <1>7, <2>2, EntryMapsAre, MapIsFind
    <3>2. CASE c \notin Live
      BY <3>1, <3>2, <1>6
    <3>3. CASE c \in Live
      <4>1. Find(d[c].entries, url) \in {Find(boxes[c].entries, url), None}
        BY <1>6, FoundIn
      <4> QED BY <3>1, <3>3, <4>1
    <3> QED BY <3>2, <3>3
  <2>3. Used >= quota
    BY <1>2 DEF Exceeded, Used
  <2>4. /\ PairMaps' = PairMaps /\ MapOf(cookies, CookieKeys)' = MapOf(cookies, CookieKeys)
        /\ RecordMaps' = RecordMaps /\ Counted' = Counted
    BY <1>2, CachesStay
  <2>5. Live' = Live
    BY <1>2 DEF Live
  <2> QED BY <1>2, <2>1, <2>2, <2>3, <2>4, <2>5 DEF Maps!Evict, Live
<1>9. Used' = UsedWith(d) /\ Used = UsedWith(boxes) /\ (Exceeded(boxes)' <=> Exceeded(d))
  BY <1>2 DEF Used, UsedWith, Exceeded, IndexedDBBytes, Counted, Rest3
<1>10. Freed = Used - Used'
  <2>1. Freed = BytesIn(boxes) - BytesIn(d)
    BY <1>2 DEF Freed, BytesIn
  <2> QED BY <2>1, <1>3, <1>9 DEF Balanced
<1>11. \A c \in DOMAIN boxes : IsSuffix(boxes'[c].entries, boxes[c].entries)
  BY <1>2, <1>6, SuffixIs
<1>12. ASSUME Exceeded(boxes)', NEW i \in DOMAIN caches
       PROVE  boxes'[caches[i].id].entries = << >>
  BY <1>2, <1>3, <1>9, <1>12 DEF Shedding, Filled
<1>13. ASSUME HitBy(d) # {}
       PROVE  LET c == caches[CHOOSE i \in HitBy(d) : \A j \in HitBy(d) : j <= i].id
              IN UsedWith(d) + boxes[c].entries[LostOf(d, c)].size >= quota
  <2> DEFINE i == CHOOSE i \in HitBy(d) : \A j \in HitBy(d) : j <= i
  <2>1. i \in HitBy(d) /\ \A j \in HitBy(d) : j <= i
    <3>1. HitBy(d) \in SUBSET (0 .. Len(caches))
      BY <1>4 DEF HitBy
    <3>2. \E k \in HitBy(d) : \A j \in HitBy(d) : j <= k
      BY <3>1, <1>4, <1>13, GreatestOf
    <3> QED BY <3>2
  <2> HIDE DEF i
  <2>2. UsedWith(d) + LastTaken(d, i) >= quota
    BY <2>1, <1>3 DEF JustEnough
  <2> QED BY <2>2 DEF LastTaken, i
<1>14. \A c : Len(boxes[c].entries) - Len(boxes'[c].entries) = LostOf(d, c)
  BY <1>2 DEF LostOf
<1>15. TakesJustEnough
  BY <1>9, <1>10, <1>11, <1>12, <1>13, <1>14 DEF TakesJustEnough, HitBy
<1> QED BY <1>5, <1>8, <1>15

----------------------------------------------------------------------------
(* Every behaviour.                                                        *)

LEMMA StorageStarts ==
  ASSUME Init
  PROVE  StorageInv /\ Maps!Init
<1>1. /\ areas = [area \in {Local, Session} |-> << >>] /\ cookies = << >>
      /\ dbs = << >> /\ stores = << >> /\ dbsMade = 0 /\ caches = << >> /\ boxes = << >>
      /\ quota \in Quotas
  BY DEF Init
<1>2. \A S : << >> \in Seq(S)
  OBVIOUS
<1>3. TypeOK
  BY <1>1, <1>2 DEF TypeOK
<1>4. \A keys : PairList(<< >>, keys) /\ MapOf(<< >>, keys) = Maps!Empty(keys)
  BY EmptyPairs
<1>5. CookieList(<< >>)
  BY EmptyKeeps DEF CookieList
<1>6. areas[Local] = << >> /\ areas[Session] = << >> /\ DOMAIN << >> = {}
  BY <1>1
<1>7. Lists
  BY <1>1, <1>4, <1>5, <1>6 DEF Lists
<1>8. StorageInv
  BY <1>3, <1>7 DEF StorageInv
<1>9. PairMaps = [area \in {Local, Session} |-> Maps!Empty(Keys)]
  BY <1>1, <1>4 DEF PairMaps
<1>10. MapOf(cookies, CookieKeys) = Maps!Empty(Names \X (Domains \union {None}))
  BY <1>1, <1>4 DEF CookieKeys
<1>11. RecordMaps = << >> /\ Counted = {} /\ EntryMaps = << >> /\ Live = {}
  BY <1>1, <1>6 DEF RecordMaps, Counted, EntryMaps, Live
<1>12. Used = 0
  <2>1. Sizes(<< >>) = 0
    BY EmptyKeeps
  <2>2. IndexedDBBytes = 0
    <3>1. [s \in DOMAIN stores |-> IF s \in Counted THEN RecordBytes(stores[s].records) ELSE 0] = << >>
      BY <1>1, <1>6
    <3> QED BY <3>1, SumEmpty DEF IndexedDBBytes
  <2>3. SumOf([i \in DOMAIN caches |-> boxes[caches[i].id].total]) = 0
    <3>1. [i \in DOMAIN caches |-> boxes[caches[i].id].total] = << >>
      BY <1>1, <1>6
    <3> QED BY <3>1, SumEmpty
  <2> QED BY <1>1, <1>6, <2>1, <2>2, <2>3 DEF Used, UsedWith
<1>13. quota \in Nat
  BY <1>1, StorageAssumption
<1>14. Maps!Init
  BY <1>9, <1>10, <1>11, <1>12, <1>13 DEF Maps!Init, Live
<1> QED BY <1>8, <1>14

\* A step of the engine is a step of the maps but for the usage.
MapStep ==
  \/ Maps!ChangePairs \/ Maps!ChangeCookies \/ Maps!ChangeIndexedDB \/ Maps!ChangeCaches
  \/ Maps!Evict \/ Maps!SetQuota

LEMMA StorageStep ==
  ASSUME StorageInv, Next
  PROVE  StorageInv' /\ MapStep
<1>1. vars' # vars
  BY DEF Next
<1>2. CASE NextPairs
  BY <1>1, <1>2, SetPairStep, DeletePairStep, ClearAreaStep DEF NextPairs, MapStep
<1>3. CASE NextCookies
  BY <1>1, <1>3, AddCookieStep, DeleteCookieStep, ClearCookiesStep DEF NextCookies, MapStep
<1>4. CASE NextIndexedDB
  BY <1>1, <1>4, AddDatabaseStep, DeleteDatabaseStep, AddObjectStoreStep, PutRecordStep,
     DeleteRecordStep DEF NextIndexedDB, MapStep
<1>5. CASE NextCaches
  BY <1>1, <1>5, AddCacheStep, DeleteCacheStep, PutCacheEntryStep, DeleteCacheEntryStep,
     EvictStep, SetMaxQuotaStep DEF NextCaches, MapStep
<1> QED BY <1>2, <1>3, <1>4, <1>5 DEF Next

LEMMA StorageStays ==
  ASSUME StorageInv, vars' = vars
  PROVE  /\ StorageInv'
         /\ UNCHANGED <<PairMaps, MapOf(cookies, CookieKeys), RecordMaps, Counted, EntryMaps,
                        Live, Used, quota>>
<1>1. /\ areas' = areas /\ cookies' = cookies /\ dbs' = dbs /\ stores' = stores
      /\ caches' = caches /\ boxes' = boxes /\ dbsMade' = dbsMade /\ quota' = quota
  BY DEF vars
<1>2. TypeOK'
  BY <1>1 DEF StorageInv, TypeOK
<1>3. Lists'
  BY <1>1 DEF StorageInv, Lists
<1>4. UNCHANGED <<PairMaps, MapOf(cookies, CookieKeys), RecordMaps, Counted, EntryMaps, Live, quota>>
  BY <1>1 DEF PairMaps, RecordMaps, Counted, EntryMaps, Live
<1>5. Used' = Used
  BY <1>1 DEF Used, UsedWith, IndexedDBBytes, Counted
<1> QED BY <1>2, <1>3, <1>4, <1>5 DEF StorageInv

\* In every state the lists hold each key once, the sizes beside the records
\* are theirs, and the total beside a cache is the sum of its entries'.
LEMMA StorageInvariant == Spec => []StorageInv
<1>1. Init => StorageInv
  BY StorageStarts
<1>2. StorageInv /\ [Next]_vars => StorageInv'
  BY StorageStep, StorageStays
<1> QED BY <1>1, <1>2, PTL DEF Spec

\* The storage engine implements the maps: set_*, delete_* and clear_* on the
\* linked lists (storage.h:217-569) change the value of one key or of all, no
\* key is in a list twice, and get_quota_summary's sum of the sizes kept beside
\* the records and of the totals kept beside the caches is, for any lengths, the
\* number of the bytes that can still be read.
THEOREM StorageRefines == Spec => StorageIsMaps
<1>1. Init => Maps!Init
  BY StorageStarts
<1>2. StorageInv => Used = Maps!Total
  BY UsedIs
<1>3. StorageInv /\ [Next]_vars /\ (Used = Maps!Total)' =>
        [Maps!Next]_<<PairMaps, MapOf(cookies, CookieKeys), RecordMaps, Counted, EntryMaps,
                      {caches[i].id : i \in DOMAIN caches}, Used, quota>>
  <2> SUFFICES ASSUME StorageInv, [Next]_vars, (Used = Maps!Total)'
               PROVE  \/ Maps!Next
                      \/ UNCHANGED <<PairMaps, MapOf(cookies, CookieKeys), RecordMaps, Counted,
                                     EntryMaps, {caches[i].id : i \in DOMAIN caches}, Used, quota>>
    OBVIOUS
  <2>1. CASE Next
    BY <2>1, StorageStep DEF MapStep, Maps!Next
  <2>2. CASE UNCHANGED vars
    BY <2>2, StorageStays DEF Live
  <2> QED BY <2>1, <2>2
<1>4. Spec => []StorageInv
  BY StorageInvariant
<1> QED BY <1>1, <1>2, <1>3, <1>4, PTL DEF Spec, StorageIsMaps, Maps!Spec

\* evict_cache_if_over_quota (storage.h:193): of whatever caches, lengths and
\* quota, it takes entries from the front of the first caches in the list, what
\* it returns is what the usage falls by, it stops as soon as the usage is below
\* the quota and not before, unless there is nothing left to take.
THEOREM EvictionIsMinimal == Spec => EvictsJustEnough
<1>1. StorageInv /\ [Next]_vars => [Evict => TakesJustEnough]_vars
  BY EvictStep
<1>2. Spec => []StorageInv
  BY StorageInvariant
<1> QED BY <1>1, <1>2, PTL DEF Spec, EvictsJustEnough
============================================================================

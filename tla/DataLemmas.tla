------------------------------ MODULE DataLemmas ------------------------------
(***************************************************************************)
(* What the proofs about the engines need of numbers, sequences and        *)
(* recursive functions.  Induction is stated for sets and recursion for    *)
(* functions, so that the lemmas can be used as they are.                  *)
(***************************************************************************)
EXTENDS Integers, Sequences, SequencesExt, FiniteSets, Sums,
        SequenceTheorems, FiniteSetTheorems, WellFoundedInduction, TLAPS

LEMMA LeastOf ==
  ASSUME NEW S \in SUBSET Nat, S # {}
  PROVE  \E n \in S : \A m \in S : n <= m
<1>1. PICK n \in S : \A m \in S : ~ (<<m, n>> \in OpToRel(<, Nat))
  BY NatLessThanWellFounded, WFMin
<1>2. \A m \in S : ~ (m < n)
  BY <1>1 DEF OpToRel
<1> QED BY <1>2

LEMMA MinOf ==
  ASSUME NEW S \in SUBSET Nat, S # {}
  PROVE  /\ Min(S) \in S
         /\ \A m \in S : Min(S) <= m
BY LeastOf DEF Min

\* Induction: a set of numbers that has 0 and with each the next has them all.
LEMMA Induction ==
  ASSUME NEW S, 0 \in S, \A n \in Nat : n \in S => n + 1 \in S
  PROVE  \A n \in Nat : n \in S
<1> DEFINE Out == {n \in Nat : n \notin S}
<1> SUFFICES ASSUME Out # {} PROVE FALSE
  OBVIOUS
<1>1. PICK n \in Out : \A m \in Out : n <= m
  BY LeastOf
<1>2. n \in Nat /\ n # 0
  BY <1>1
<1>3. n - 1 \in Nat /\ n - 1 \notin Out
  BY <1>1, <1>2
<1> QED BY <1>1, <1>3

\* A function that is started with base and goes on with step.
Recursive(f, n, base, step) ==
  /\ f[0] = base
  /\ \A k \in 1 .. n : f[k] = step[<<k, f[k - 1]>>]

\* There is one: what makes a recursive definition one.
LEMMA Recursion ==
  ASSUME NEW V, NEW base \in V, NEW step \in [Nat \X V -> V], NEW n \in Nat
  PROVE  \E f \in [0 .. n -> V] : Recursive(f, n, base, step)
<1> DEFINE S == {m \in Nat : \E f \in [0 .. m -> V] : Recursive(f, m, base, step)}
<1>1. 0 \in S
  <2> DEFINE f == [k \in 0 .. 0 |-> base]
  <2>1. f \in [0 .. 0 -> V] /\ Recursive(f, 0, base, step)
    BY DEF Recursive
  <2> QED BY <2>1
<1>2. ASSUME NEW m \in Nat, m \in S PROVE m + 1 \in S
  <2>1. PICK f \in [0 .. m -> V] : Recursive(f, m, base, step)
    BY <1>2
  <2> DEFINE g == [k \in 0 .. m + 1 |-> IF k <= m THEN f[k] ELSE step[<<m + 1, f[m]>>]]
  <2>2. g \in [0 .. m + 1 -> V]
    OBVIOUS
  <2>3. \A k \in 0 .. m : g[k] = f[k]
    OBVIOUS
  <2>4. g[m + 1] = step[<<m + 1, f[m]>>]
    OBVIOUS
  <2> HIDE DEF g
  <2>5. ASSUME NEW k \in 1 .. m + 1 PROVE g[k] = step[<<k, g[k - 1]>>]
    <3>1. CASE k = m + 1
      <4>1. k - 1 = m /\ m \in 0 .. m
        BY <3>1
      <4>2. g[k - 1] = f[m]
        BY <4>1, <2>3
      <4> QED BY <3>1, <4>2, <2>4
    <3>2. CASE k \in 1 .. m
      <4>1. k \in 0 .. m /\ k - 1 \in 0 .. m
        BY <3>2
      <4>2. f[k] = step[<<k, f[k - 1]>>]
        BY <3>2, <2>1 DEF Recursive
      <4> QED BY <4>1, <4>2, <2>3
    <3> QED BY <3>1, <3>2
  <2>6. g[0] = base
    BY <2>1, <2>3 DEF Recursive
  <2>7. Recursive(g, m + 1, base, step)
    BY <2>5, <2>6 DEF Recursive
  <2> QED BY <2>2, <2>7
<1>3. \A m \in Nat : m \in S
  <2> HIDE DEF S
  <2> QED BY <1>1, <1>2, Induction
<1> QED BY <1>3

----------------------------------------------------------------------------
\* A record in front of a list.
LEMMA InFront ==
  ASSUME NEW S, NEW s \in Seq(S), NEW e \in S
  PROVE  LET t == <<e>> \o s IN
         /\ t \in Seq(S) /\ Len(s) \in Nat /\ Len(t) = Len(s) + 1
         /\ DOMAIN t = 1 .. Len(s) + 1 /\ DOMAIN s = 1 .. Len(s)
         /\ t[1] = e
         /\ \A i \in 1 .. Len(s) : t[i + 1] = s[i]
         /\ \A i \in 2 .. Len(s) + 1 : t[i] = s[i - 1]
<1>1. <<e>> \in Seq(S) /\ Len(<<e>>) = 1 /\ <<e>>[1] = e
  OBVIOUS
<1> DEFINE t == <<e>> \o s
<1>2. /\ t \in Seq(S) /\ Len(t) = 1 + Len(s) /\ Len(s) \in Nat
      /\ \A i \in 1 .. 1 + Len(s) : t[i] = IF i <= 1 THEN <<e>>[i] ELSE s[i - 1]
  BY <1>1, ConcatProperties
<1>3. DOMAIN t = 1 .. Len(s) + 1 /\ DOMAIN s = 1 .. Len(s)
  BY <1>2
<1> HIDE DEF t
<1>4. t[1] = e
  BY <1>1, <1>2
<1>5. \A i \in 2 .. Len(s) + 1 : t[i] = s[i - 1]
  BY <1>2
<1>6. ASSUME NEW i \in 1 .. Len(s) PROVE t[i + 1] = s[i]
  <2>1. i + 1 \in 2 .. Len(s) + 1 /\ (i + 1) - 1 = i
    BY <1>2
  <2> QED BY <2>1, <1>5
<1> QED BY <1>2, <1>3, <1>4, <1>5, <1>6 DEF t

\* A record taken out.
LEMMA TakenOut ==
  ASSUME NEW S, NEW s \in Seq(S), NEW n \in 1 .. Len(s)
  PROVE  /\ RemoveAt(s, n) \in Seq(S)
         /\ Len(RemoveAt(s, n)) = Len(s) - 1
         /\ DOMAIN RemoveAt(s, n) = 1 .. Len(s) - 1
         /\ \A i \in 1 .. Len(s) - 1 :
              RemoveAt(s, n)[i] = IF i < n THEN s[i] ELSE s[i + 1]
<1> DEFINE t == RemoveAt(s, n)
           a == SubSeq(s, 1, n - 1)
           b == SubSeq(s, n + 1, Len(s))
<1>1. Len(s) \in Nat /\ n \in Nat /\ n <= Len(s) /\ \A i \in 1 .. Len(s) : s[i] \in S
  BY ElementOfSeq
<1>2. /\ a \in Seq(S) /\ Len(a) = n - 1
      /\ \A i \in 1 .. n - 1 : a[i] = s[i]
  <2>1. \A i \in 1 .. n - 1 : s[i] \in S
    BY <1>1
  <2>2. /\ a \in Seq(S) /\ Len(a) = IF 1 <= n - 1 THEN (n - 1) - 1 + 1 ELSE 0
        /\ \A i \in 1 .. (n - 1) - 1 + 1 : a[i] = s[1 + i - 1]
    BY <1>1, <2>1, SubSeqProperties
  <2> HIDE DEF a
  <2> QED BY <2>2, <1>1
<1>3. /\ b \in Seq(S) /\ Len(b) = Len(s) - n
      /\ \A i \in 1 .. Len(s) - n : b[i] = s[n + i]
  <2>1. \A i \in n + 1 .. Len(s) : s[i] \in S
    BY <1>1
  <2>2. /\ b \in Seq(S) /\ Len(b) = IF n + 1 <= Len(s) THEN Len(s) - (n + 1) + 1 ELSE 0
        /\ \A i \in 1 .. Len(s) - (n + 1) + 1 : b[i] = s[(n + 1) + i - 1]
    BY <1>1, <2>1, SubSeqProperties
  <2> HIDE DEF b
  <2> QED BY <2>2, <1>1
<1>4. t = a \o b
  BY DEF RemoveAt
<1> HIDE DEF a, b, t
<1>5. /\ t \in Seq(S) /\ Len(t) = Len(s) - 1
      /\ \A i \in 1 .. Len(s) - 1 : t[i] = IF i <= n - 1 THEN a[i] ELSE b[i - (n - 1)]
  <2>1. Len(a) + Len(b) = Len(s) - 1
    BY <1>1, <1>2, <1>3
  <2>2. /\ a \o b \in Seq(S) /\ Len(a \o b) = Len(a) + Len(b)
        /\ \A i \in 1 .. Len(a) + Len(b) : (a \o b)[i] = IF i <= Len(a) THEN a[i] ELSE b[i - Len(a)]
    BY <1>2, <1>3, ConcatProperties
  <2> QED BY <1>2, <1>4, <2>1, <2>2
<1>6. ASSUME NEW i \in 1 .. Len(s) - 1 PROVE t[i] = IF i < n THEN s[i] ELSE s[i + 1]
  <2>1. CASE i < n
    BY <2>1, <1>1, <1>2, <1>5
  <2>2. CASE ~ (i < n)
    <3>1. i - (n - 1) \in 1 .. Len(s) - n /\ n + (i - (n - 1)) = i + 1 /\ ~ (i <= n - 1)
      BY <2>2, <1>1
    <3>2. t[i] = b[i - (n - 1)]
      BY <3>1, <1>5
    <3>3. b[i - (n - 1)] = s[i + 1]
      BY <3>1, <1>3
    <3> QED BY <2>2, <3>2, <3>3
  <2> QED BY <2>1, <2>2
<1>7. DOMAIN t = 1 .. Len(s) - 1
  BY <1>5, LenProperties
<1> QED BY <1>5, <1>6, <1>7 DEF t

\* A record put in front of the n-th.
LEMMA PutIn ==
  ASSUME NEW S, NEW s \in Seq(S), NEW n \in 1 .. Len(s), NEW e \in S
  PROVE  /\ InsertAt(s, n, e) \in Seq(S)
         /\ Len(InsertAt(s, n, e)) = Len(s) + 1
         /\ \A i \in 1 .. Len(s) + 1 :
              InsertAt(s, n, e)[i] = IF i < n THEN s[i] ELSE IF i = n THEN e ELSE s[i - 1]
<1> DEFINE t == InsertAt(s, n, e)
           a == SubSeq(s, 1, n - 1)
           b == SubSeq(s, n, Len(s))
           m == Len(s)
<1>1. m \in Nat /\ n \in Nat /\ 1 <= n /\ n <= m /\ \A i \in 1 .. m : s[i] \in S
  BY ElementOfSeq
<1>2. /\ a \in Seq(S) /\ Len(a) = n - 1
      /\ \A i \in 1 .. n - 1 : a[i] = s[i]
  <2>1. \A i \in 1 .. n - 1 : s[i] \in S
    BY <1>1
  <2>2. /\ a \in Seq(S) /\ Len(a) = IF 1 <= n - 1 THEN (n - 1) - 1 + 1 ELSE 0
        /\ \A i \in 1 .. (n - 1) - 1 + 1 : a[i] = s[1 + i - 1]
    BY <1>1, <2>1, SubSeqProperties
  <2> HIDE DEF a
  <2> QED BY <2>2, <1>1
<1>3. /\ b \in Seq(S) /\ Len(b) = m - n + 1
      /\ \A i \in 1 .. m - n + 1 : b[i] = s[n + i - 1]
  <2>1. \A i \in n .. m : s[i] \in S
    BY <1>1
  <2>2. /\ b \in Seq(S) /\ Len(b) = IF n <= m THEN m - n + 1 ELSE 0
        /\ \A i \in 1 .. m - n + 1 : b[i] = s[n + i - 1]
    BY <1>1, <2>1, SubSeqProperties
  <2> HIDE DEF b
  <2> QED BY <2>2, <1>1
<1>4. t = a \o <<e>> \o b
  BY DEF InsertAt
<1> DEFINE d == Append(a, e)
<1>5. a \o <<e>> = d
  BY <1>2
<1> HIDE DEF a, b, t, m
<1>6. /\ d \in Seq(S) /\ Len(d) = n
      /\ \A i \in 1 .. n : d[i] = IF i = n THEN e ELSE s[i]
  <2>1. /\ d \in Seq(S) /\ Len(d) = (n - 1) + 1
        /\ (\A i \in 1 .. n - 1 : d[i] = a[i]) /\ d[(n - 1) + 1] = e
    BY <1>2, AppendProperties
  <2> HIDE DEF d
  <2> QED BY <2>1, <1>1, <1>2
<1> HIDE DEF d
<1>7. /\ t \in Seq(S) /\ Len(t) = m + 1
      /\ \A i \in 1 .. m + 1 : t[i] = IF i <= n THEN d[i] ELSE b[i - n]
  <2>1. n + (m - n + 1) = m + 1
    BY <1>1
  <2>2. /\ d \o b \in Seq(S) /\ Len(d \o b) = Len(d) + Len(b)
        /\ \A i \in 1 .. Len(d) + Len(b) : (d \o b)[i] = IF i <= Len(d) THEN d[i] ELSE b[i - Len(d)]
    BY <1>3, <1>6, ConcatProperties
  <2> QED BY <1>3, <1>4, <1>5, <1>6, <2>1, <2>2
<1>8. ASSUME NEW i \in 1 .. m + 1
      PROVE  t[i] = IF i < n THEN s[i] ELSE IF i = n THEN e ELSE s[i - 1]
  <2>1. CASE i <= n
    BY <2>1, <1>1, <1>6, <1>7
  <2>2. CASE ~ (i <= n)
    <3>1. i - n \in 1 .. m - n + 1 /\ n + (i - n) - 1 = i - 1
      BY <2>2, <1>1
    <3>2. t[i] = b[i - n]
      BY <2>2, <1>7
    <3>3. b[i - n] = s[i - 1]
      BY <3>1, <1>3
    <3> QED BY <2>2, <3>2, <3>3, <1>1
  <2> QED BY <2>1, <2>2
<1> QED BY <1>7, <1>8 DEF t, m

LEMMA UpTo ==
  ASSUME NEW n \in Nat
  PROVE  IsFiniteSet(1 .. n) /\ Cardinality(1 .. n) = n
<1>1. 1 \in Int /\ n \in Int /\ (1 > n => n = 0) /\ n - 1 + 1 = n
  OBVIOUS
<1> QED BY <1>1, FS_Interval

\* A set whose members are all among the first n values of a function.
LEMMA Enumerated ==
  ASSUME NEW n \in Nat, NEW f, NEW T, \A t \in T : \E i \in 1 .. n : f[i] = t
  PROVE  IsFiniteSet(T) /\ Cardinality(T) \in Nat /\ Cardinality(T) <= n
<1> DEFINE used == {i \in 1 .. n : f[i] \in T}
           g == [i \in used |-> f[i]]
<1>1. IsFiniteSet(1 .. n) /\ Cardinality(1 .. n) = n
  BY UpTo
<1>2. IsFiniteSet(used) /\ Cardinality(used) <= n /\ Cardinality(used) \in Nat
  BY <1>1, FS_Subset, FS_CardinalityType
<1>3. g \in Surjection(used, T)
  BY DEF Surjection
<1>4. IsFiniteSet(T) /\ Cardinality(T) <= Cardinality(used)
  BY <1>2, <1>3, FS_Surjection
<1> QED BY <1>2, <1>4, FS_CardinalityType

\* A function that tells the members of a set apart.
LEMMA Injected ==
  ASSUME NEW S, NEW T, IsFiniteSet(T), NEW f, \A x \in S : f[x] \in T,
         \A x, y \in S : f[x] = f[y] => x = y
  PROVE  IsFiniteSet(S) /\ Cardinality(S) \in Nat /\ Cardinality(S) <= Cardinality(T)
<1> DEFINE g == [x \in S |-> f[x]]
<1>1. g \in Injection(S, T)
  BY DEF Injection, IsInjective
<1> HIDE DEF g
<1> QED BY <1>1, FS_Injection, FS_CardinalityType

LEMMA MinOfTwo ==
  ASSUME NEW a \in Int, NEW b \in Int
  PROVE  Min({a, b}) = IF a <= b THEN a ELSE b
<1> DEFINE m == IF a <= b THEN a ELSE b
<1>1. m \in {a, b} /\ \A x \in {a, b} : m <= x
  OBVIOUS
<1>2. \A x \in {a, b} : (\A y \in {a, b} : x <= y) => x = m
  OBVIOUS
<1> QED BY <1>1, <1>2 DEF Min

\* What is on a page: the members of a list after offset, up to limit of them.
LEMMA Slice ==
  ASSUME NEW S, NEW q \in Seq(S), NEW offset \in Nat, NEW limit \in Nat
  PROVE  LET t == SubSeq(q, offset + 1, Min({offset + limit, Len(q)}))
             n == IF Len(q) <= offset THEN 0
                  ELSE IF Len(q) <= offset + limit THEN Len(q) - offset ELSE limit
         IN /\ t \in Seq(S) /\ Len(t) = n /\ n \in Nat
            /\ \A i \in 1 .. n : t[i] = q[offset + i] /\ offset + i \in 1 .. Len(q)
<1> DEFINE last == Min({offset + limit, Len(q)})
           t == SubSeq(q, offset + 1, last)
           n == IF Len(q) <= offset THEN 0
                ELSE IF Len(q) <= offset + limit THEN Len(q) - offset ELSE limit
<1>1. Len(q) \in Nat /\ offset + limit \in Int /\ Len(q) \in Int
      /\ \A i \in 1 .. Len(q) : q[i] \in S
  BY ElementOfSeq
<1>2. last = IF offset + limit <= Len(q) THEN offset + limit ELSE Len(q)
  BY <1>1, MinOfTwo
<1> HIDE DEF last
<1>3. last \in Nat /\ last <= Len(q) /\ n \in Nat
      /\ n = (IF offset + 1 <= last THEN last - (offset + 1) + 1 ELSE 0)
  BY <1>1, <1>2
<1>4. \A i \in offset + 1 .. last : q[i] \in S
  BY <1>1, <1>3
<1>5. /\ t \in Seq(S)
      /\ Len(t) = IF offset + 1 <= last THEN last - (offset + 1) + 1 ELSE 0
      /\ \A i \in 1 .. last - (offset + 1) + 1 : t[i] = q[(offset + 1) + i - 1]
  BY <1>1, <1>3, <1>4, SubSeqProperties
<1> HIDE DEF t
<1>6. ASSUME NEW i \in 1 .. n PROVE t[i] = q[offset + i] /\ offset + i \in 1 .. Len(q)
  <2>1. i \in 1 .. last - (offset + 1) + 1 /\ (offset + 1) + i - 1 = offset + i
        /\ offset + i \in 1 .. Len(q)
    BY <1>1, <1>3
  <2> QED BY <2>1, <1>5
<1> QED BY <1>3, <1>5, <1>6 DEF t, last

\* The page of a list with one more member: the loop that cuts pages.
LEMMA SliceMore ==
  ASSUME NEW S, NEW q \in Seq(S), NEW e \in S, NEW offset \in Nat, NEW limit \in Nat
  PROVE  LET more == Append(q, e)
             t == SubSeq(q, offset + 1, Min({offset + limit, Len(q)}))
             u == SubSeq(more, offset + 1, Min({offset + limit, Len(more)}))
         IN u = IF Len(q) >= offset /\ Len(t) < limit THEN Append(t, e) ELSE t
<1> DEFINE more == Append(q, e)
           t == SubSeq(q, offset + 1, Min({offset + limit, Len(q)}))
           u == SubSeq(more, offset + 1, Min({offset + limit, Len(more)}))
           L == Len(q)
           n == IF L <= offset THEN 0 ELSE IF L <= offset + limit THEN L - offset ELSE limit
           m == IF L + 1 <= offset THEN 0
                ELSE IF L + 1 <= offset + limit THEN L + 1 - offset ELSE limit
           w == IF L >= offset /\ Len(t) < limit THEN Append(t, e) ELSE t
<1> SUFFICES u = w
  OBVIOUS
<1>1. /\ more \in Seq(S) /\ Len(more) = L + 1 /\ L \in Nat
      /\ (\A i \in 1 .. L : more[i] = q[i]) /\ more[L + 1] = e
  BY AppendProperties
<1>2. /\ t \in Seq(S) /\ Len(t) = n /\ n \in Nat
      /\ \A i \in 1 .. n : t[i] = q[offset + i] /\ offset + i \in 1 .. L
  BY Slice
<1> HIDE DEF more
<1>3. /\ u \in Seq(S) /\ Len(u) = m /\ m \in Nat
      /\ \A i \in 1 .. m : u[i] = more[offset + i] /\ offset + i \in 1 .. L + 1
  <2> DEFINE k == IF Len(more) <= offset THEN 0
                  ELSE IF Len(more) <= offset + limit THEN Len(more) - offset ELSE limit
  <2>1. /\ u \in Seq(S) /\ Len(u) = k /\ k \in Nat
        /\ \A i \in 1 .. k : u[i] = more[offset + i] /\ offset + i \in 1 .. Len(more)
    BY <1>1, Slice
  <2>2. k = m
    BY <1>1
  <2> HIDE DEF k, m, u
  <2> QED BY <2>1, <2>2, <1>1
<1> HIDE DEF t, u, L
<1>4. CASE L >= offset /\ Len(t) < limit
  <2>1. m = n + 1 /\ offset + (n + 1) = L + 1
    BY <1>1, <1>2, <1>4
  <2> HIDE DEF m, n
  <2>2. /\ w = Append(t, e) /\ w \in Seq(S) /\ Len(w) = n + 1
        /\ (\A i \in 1 .. n : w[i] = t[i]) /\ w[n + 1] = e
    BY <1>2, <1>4, AppendProperties
  <2> HIDE DEF w
  <2>3. ASSUME NEW i \in 1 .. Len(u) PROVE u[i] = w[i]
    <3>1. CASE i = n + 1
      BY <3>1, <2>1, <2>2, <1>1, <1>3
    <3>2. CASE i \in 1 .. n
      BY <3>2, <2>2, <1>1, <1>2, <1>3
    <3> QED BY <3>1, <3>2, <2>1, <1>2, <1>3
  <2> QED BY <2>1, <2>2, <2>3, <1>3, SeqEqual
<1>5. CASE ~ (L >= offset /\ Len(t) < limit)
  <2>1. m = n /\ \A i \in 1 .. n : offset + i # L + 1
    BY <1>1, <1>2, <1>5
  <2>2. w = t
    BY <1>5
  <2> HIDE DEF m, n, w
  <2>3. ASSUME NEW i \in 1 .. Len(u) PROVE u[i] = t[i]
    BY <2>1, <1>1, <1>2, <1>3
  <2> QED BY <2>1, <2>2, <2>3, <1>2, <1>3, SeqEqual
<1> QED BY <1>4, <1>5

----------------------------------------------------------------------------
\* Products, which grow with their factors.
LEMMA Products ==
  /\ \A a, b \in Nat : a * b \in Nat
  /\ \A a, b \in Int : a * b \in Int
  /\ \A a, b, c, d \in Nat : a <= c /\ b <= d => a * b <= c * d
  /\ \A a, b, c, d \in Nat \ {0} : a <= c /\ b <= d /\ a * b = c * d => a = c /\ b = d
  /\ \A a, b, c \in Int : (a + b) * c = a * c + b * c /\ (a - b) * c = a * c - b * c
<1>1. \A a, b \in Nat : a * b \in Nat
  OBVIOUS
<1>2. \A a, b \in Int : a * b \in Int
  OBVIOUS
<1>3. ASSUME NEW a \in Nat, NEW b \in Nat, NEW c \in Nat, NEW d \in Nat, a <= c, b <= d
      PROVE  a * b <= c * d
  BY <1>3
<1>4. ASSUME NEW a \in Nat \ {0}, NEW b \in Nat \ {0}, NEW c \in Nat \ {0}, NEW d \in Nat \ {0},
             a <= c, b <= d, a * b = c * d
      PROVE  a = c /\ b = d
  BY <1>4
<1>5. \A a, b, c \in Int : (a + b) * c = a * c + b * c /\ (a - b) * c = a * c - b * c
  OBVIOUS
<1> QED BY <1>1, <1>2, <1>3, <1>4, <1>5

LEMMA Quotients ==
  ASSUME NEW a \in Nat, NEW b \in Nat \ {0}
  PROVE  /\ a \div b \in Nat
         /\ (a \div b) * b <= a /\ a < (a \div b + 1) * b
OBVIOUS

----------------------------------------------------------------------------
\* SumOf is what its recursion says.
LEMMA SumRecursive ==
  ASSUME NEW q \in Seq(Int)
  PROVE  \E f \in [0 .. Len(q) -> Int] :
           /\ f[0] = 0
           /\ \A k \in 1 .. Len(q) : f[k] = f[k - 1] + q[k]
           /\ SumOf(q) = f[Len(q)]
<1> DEFINE n == Len(q)
           step == [a \in Nat \X Int |-> IF a[1] \in 1 .. n THEN a[2] + q[a[1]] ELSE 0]
<1>1. n \in Nat /\ \A k \in 1 .. n : q[k] \in Int
  BY ElementOfSeq
<1>2. step \in [Nat \X Int -> Int]
  BY <1>1
<1>3. PICK f \in [0 .. n -> Int] : Recursive(f, n, 0, step)
  <2>1. 0 \in Int /\ n \in Nat
    BY <1>1
  <2> HIDE DEF n, step
  <2> QED BY <2>1, <1>2, Recursion
<1>4. ASSUME NEW k \in 1 .. n PROVE f[k] = f[k - 1] + q[k]
  <2>1. k - 1 \in 0 .. n /\ k \in Nat
    BY <1>1
  <2>2. f[k - 1] \in Int
    BY <2>1, <1>3
  <2>3. step[<<k, f[k - 1]>>] = f[k - 1] + q[k]
    BY <2>1, <2>2
  <2> QED BY <1>3, <2>3 DEF Recursive
<1>5. f[0] = 0
  BY <1>3 DEF Recursive
<1> HIDE DEF n, step
<1>6. f = [k \in 0 .. n |-> IF k = 0 THEN 0 ELSE f[k - 1] + q[k]]
  <2>1. \A k \in 0 .. n : k # 0 => k \in 1 .. n
    BY <1>1
  <2> QED BY <2>1, <1>1, <1>3, <1>4, <1>5
<1> DEFINE g == CHOOSE g : g = [k \in 0 .. n |-> IF k = 0 THEN 0 ELSE g[k - 1] + q[k]]
<1>7. g = [k \in 0 .. n |-> IF k = 0 THEN 0 ELSE g[k - 1] + q[k]]
  BY <1>6
<1>8. SumOf(q) = g[n]
  BY DEF SumOf, n
<1> HIDE DEF g
<1> DEFINE S == {k \in Nat : k <= n => g[k] = f[k]}
<1>9. 0 \in S
  BY <1>1, <1>5, <1>7
<1>10. ASSUME NEW k \in Nat, k \in S PROVE k + 1 \in S
  <2>1. CASE k + 1 <= n
    <3>1. k + 1 \in 1 .. n /\ k + 1 \in 0 .. n /\ (k + 1) - 1 = k /\ k <= n /\ k + 1 # 0
      BY <2>1, <1>1
    <3>2. g[k + 1] = g[k] + q[k + 1]
      BY <3>1, <1>7
    <3>3. f[k + 1] = f[k] + q[k + 1]
      BY <3>1, <1>4
    <3> QED BY <3>1, <3>2, <3>3, <1>10
  <2>2. CASE ~ (k + 1 <= n)
    BY <2>2
  <2> QED BY <2>1, <2>2
<1>11. \A k \in Nat : k \in S
  <2> HIDE DEF S
  <2> QED BY <1>9, <1>10, Induction
<1>12. g[n] = f[n]
  BY <1>1, <1>11
<1> QED BY <1>3, <1>4, <1>5, <1>8, <1>12 DEF n

\* Any function with that recursion has the sum as its last value.
LEMMA SumBy ==
  ASSUME NEW q \in Seq(Int), NEW f, f[0] = 0,
         \A k \in 1 .. Len(q) : f[k] = f[k - 1] + q[k]
  PROVE  SumOf(q) = f[Len(q)]
<1> DEFINE n == Len(q)
<1>1. PICK g \in [0 .. n -> Int] :
        g[0] = 0 /\ (\A k \in 1 .. n : g[k] = g[k - 1] + q[k]) /\ SumOf(q) = g[n]
  BY SumRecursive
<1>2. n \in Nat
  OBVIOUS
<1> DEFINE S == {k \in Nat : k <= n => g[k] = f[k]}
<1>3. 0 \in S
  BY <1>1
<1>4. ASSUME NEW k \in Nat, k \in S PROVE k + 1 \in S
  <2>1. CASE k + 1 <= n
    <3>1. k + 1 \in 1 .. n /\ (k + 1) - 1 = k /\ k <= n
      BY <2>1, <1>2
    <3>2. g[k + 1] = g[k] + q[k + 1] /\ f[k + 1] = f[k] + q[k + 1]
      BY <3>1, <1>1
    <3> QED BY <3>1, <3>2, <1>4
  <2>2. CASE ~ (k + 1 <= n)
    BY <2>2
  <2> QED BY <2>1, <2>2
<1>5. \A k \in Nat : k \in S
  <2> HIDE DEF S
  <2> QED BY <1>3, <1>4, Induction
<1> QED BY <1>1, <1>2, <1>5

LEMMA SumEmpty == SumOf(<< >>) = 0
<1> DEFINE f == [k \in {0} |-> 0]
<1>1. << >> \in Seq(Int) /\ Len(<< >>) = 0 /\ 1 .. 0 = {}
  OBVIOUS
<1>2. f[0] = 0
  OBVIOUS
<1> HIDE DEF f
<1> QED BY <1>1, <1>2, SumBy

LEMMA SumAppend ==
  ASSUME NEW q \in Seq(Int), NEW e \in Int
  PROVE  /\ SumOf(Append(q, e)) = SumOf(q) + e
         /\ SumOf(q) \in Int
<1> DEFINE n == Len(q)
           t == Append(q, e)
<1>1. t \in Seq(Int) /\ Len(t) = n + 1 /\ n \in Nat
      /\ (\A k \in 1 .. n : t[k] = q[k]) /\ t[n + 1] = e
  BY AppendProperties
<1>2. PICK f \in [0 .. Len(t) -> Int] :
        f[0] = 0 /\ (\A k \in 1 .. Len(t) : f[k] = f[k - 1] + t[k]) /\ SumOf(t) = f[Len(t)]
  BY <1>1, SumRecursive
<1> HIDE DEF t
<1>3. \A k \in 1 .. n : f[k] = f[k - 1] + q[k]
  BY <1>1, <1>2
<1>4. SumOf(q) = f[n]
  BY <1>2, <1>3, SumBy
<1>5. f[n + 1] = f[n] + e
  <2>1. n + 1 \in 1 .. Len(t) /\ (n + 1) - 1 = n
    BY <1>1
  <2> QED BY <2>1, <1>1, <1>2
<1>6. f[n] \in Int
  BY <1>1, <1>2
<1> QED BY <1>1, <1>2, <1>4, <1>5, <1>6 DEF t

LEMMA SumNat ==
  ASSUME NEW q \in Seq(Nat)
  PROVE  SumOf(q) \in Nat
<1> DEFINE n == Len(q)
<1>1. q \in Seq(Int) /\ n \in Nat /\ \A k \in 1 .. n : q[k] \in Nat
  BY ElementOfSeq
<1>2. PICK f \in [0 .. n -> Int] :
        f[0] = 0 /\ (\A k \in 1 .. n : f[k] = f[k - 1] + q[k]) /\ SumOf(q) = f[n]
  BY <1>1, SumRecursive
<1> DEFINE S == {k \in Nat : k <= n => f[k] \in Nat}
<1>3. 0 \in S
  BY <1>2
<1>4. ASSUME NEW k \in Nat, k \in S PROVE k + 1 \in S
  <2>1. CASE k + 1 <= n
    <3>1. k + 1 \in 1 .. n /\ (k + 1) - 1 = k /\ k <= n
      BY <2>1, <1>1
    <3>2. f[k + 1] = f[k] + q[k + 1] /\ q[k + 1] \in Nat
      BY <3>1, <1>1, <1>2
    <3> QED BY <3>1, <3>2, <1>4
  <2>2. CASE ~ (k + 1 <= n)
    BY <2>2
  <2> QED BY <2>1, <2>2
<1>5. \A k \in Nat : k \in S
  <2> HIDE DEF S
  <2> QED BY <1>3, <1>4, Induction
<1> QED BY <1>1, <1>2, <1>5

----------------------------------------------------------------------------
LEMMA GreatestOf ==
  ASSUME NEW n \in Nat, NEW S \in SUBSET (0 .. n), S # {}
  PROVE  \E i \in S : \A m \in S : m <= i
<1> DEFINE D == {n - i : i \in S}
<1>1. D \in SUBSET Nat /\ D # {}
  <2>1. \A i \in S : n - i \in Nat
    OBVIOUS
  <2> QED BY <2>1
<1>2. PICK d \in D : \A e \in D : d <= e
  <2> HIDE DEF D
  <2> QED BY <1>1, LeastOf
<1>3. PICK i \in S : d = n - i
  BY <1>2
<1>4. ASSUME NEW m \in S PROVE m <= i
  <2>1. n - m \in D
    OBVIOUS
  <2>2. n - i <= n - m
    BY <2>1, <1>2, <1>3
  <2> QED BY <2>2
<1> QED BY <1>4

\* Induction from above: a place is reached when all later ones are.
LEMMA Downward ==
  ASSUME NEW N \in Nat, NEW S,
         \A n \in 0 .. N : (\A m \in n + 1 .. N : m \in S) => n \in S
  PROVE  \A n \in 0 .. N : n \in S
<1> DEFINE Out == {n \in 0 .. N : n \notin S}
<1> SUFFICES ASSUME Out # {} PROVE FALSE
  OBVIOUS
<1>1. Out \in SUBSET (0 .. N)
  OBVIOUS
<1>2. PICK n \in Out : \A m \in Out : m <= n
  BY <1>1, GreatestOf
<1>3. n \in 0 .. N /\ n \notin S /\ \A m \in n + 1 .. N : m \notin Out
  BY <1>1, <1>2
<1>4. \A m \in n + 1 .. N : m \in S
  BY <1>3
<1> QED BY <1>3, <1>4

\* A loop that goes forward from place to place until one stops it has a value
\* at each: what makes its recursive definition one.
LEMMA Loop ==
  ASSUME NEW N \in Nat, NEW stop \in SUBSET (0 .. N), N \in stop, NEW ends, NEW next,
         \A n \in (0 .. N) \ stop : next[n] \in n + 1 .. N
  PROVE  \E f : f = [n \in 0 .. N |-> IF n \in stop THEN ends[n] ELSE f[next[n]]]
<1> DEFINE S == {d \in Nat : d <= N =>
                   \E f : f = [n \in N - d .. N |-> IF n \in stop THEN ends[n] ELSE f[next[n]]]}
<1>1. 0 \in S
  <2> DEFINE f == [n \in N .. N |-> ends[n]]
  <2>1. \A n \in N - 0 .. N : n = N /\ n \in stop /\ n \in N .. N
    OBVIOUS
  <2>2. N - 0 = N
    OBVIOUS
  <2>3. f = [n \in N - 0 .. N |-> IF n \in stop THEN ends[n] ELSE f[next[n]]]
    BY <2>1, <2>2
  <2> QED BY <2>3
<1>2. ASSUME NEW d \in Nat, d \in S PROVE d + 1 \in S
  <2> SUFFICES ASSUME d + 1 <= N
               PROVE  \E f : f = [n \in N - (d + 1) .. N |->
                                    IF n \in stop THEN ends[n] ELSE f[next[n]]]
    OBVIOUS
  <2> DEFINE a == N - (d + 1)
  <2>1. a \in Nat /\ a <= N /\ N - d = a + 1 /\ d <= N /\ a \in 0 .. N
    OBVIOUS
  <2>2. PICK f : f = [n \in N - d .. N |-> IF n \in stop THEN ends[n] ELSE f[next[n]]]
    BY <1>2, <2>1
  <2> HIDE DEF a
  <2> DEFINE g == [n \in a .. N |-> IF n = a THEN IF a \in stop THEN ends[a] ELSE f[next[a]]
                                    ELSE f[n]]
  <2>3. ASSUME NEW n \in a .. N
        PROVE  g[n] = IF n \in stop THEN ends[n] ELSE g[next[n]]
    <3>1. n \notin stop => next[n] \in n + 1 .. N /\ next[n] \in a .. N /\ next[n] # a
                           /\ g[next[n]] = f[next[n]]
      <4>1. n \in 0 .. N
        BY <2>1
      <4>2. n \notin stop => next[n] \in n + 1 .. N
        BY <4>1
      <4>3. n \notin stop => next[n] \in a .. N /\ next[n] # a
        BY <4>1, <4>2, <2>1
      <4> QED BY <4>2, <4>3
    <3>2. CASE n = a
      BY <3>1, <3>2
    <3>3. CASE n # a
      <4>1. n \in N - d .. N
        BY <3>3, <2>1
      <4>2. f[n] = IF n \in stop THEN ends[n] ELSE f[next[n]]
        BY <4>1, <2>2
      <4>3. g[n] = f[n]
        BY <3>3
      <4> QED BY <4>2, <4>3, <3>1
    <3> QED BY <3>2, <3>3
  <2>4. g = [n \in a .. N |-> IF n \in stop THEN ends[n] ELSE g[next[n]]]
    <3> DEFINE h == [n \in a .. N |-> IF n \in stop THEN ends[n] ELSE g[next[n]]]
    <3>1. \A n \in a .. N : g[n] = h[n]
      BY <2>3
    <3>2. DOMAIN g = DOMAIN h
      OBVIOUS
    <3> QED BY <3>1
  <2> QED BY <2>4 DEF a
<1>3. \A d \in Nat : d \in S
  <2> HIDE DEF S
  <2> QED BY <1>1, <1>2, Induction
<1>4. N \in S /\ N - N = 0
  BY <1>3
<1> QED BY <1>4

\* The same for a loop that goes one place on at a time ...
LEMMA Advance ==
  ASSUME NEW N \in Nat, NEW stop \in SUBSET (0 .. N), N \in stop, NEW ends
  PROVE  \E f : f = [n \in 0 .. N |-> IF n \in stop THEN ends[n] ELSE f[n + 1]]
<1> DEFINE next == [n \in 0 .. N |-> n + 1]
<1>1. \A n \in (0 .. N) \ stop : next[n] \in n + 1 .. N
  <2>1. \A n \in (0 .. N) \ stop : n # N
    OBVIOUS
  <2> QED BY <2>1
<1>2. PICK f : f = [n \in 0 .. N |-> IF n \in stop THEN ends[n] ELSE f[next[n]]]
  <2> HIDE DEF next
  <2> QED BY <1>1, Loop
<1>3. f = [n \in 0 .. N |-> IF n \in stop THEN ends[n] ELSE f[n + 1]]
  BY <1>2
<1> QED BY <1>3

\* ... which ends at the first place that stops it.
LEMMA AdvanceTo ==
  ASSUME NEW N \in Nat, NEW stop \in SUBSET (0 .. N), N \in stop, NEW ends, NEW f,
         \A n \in 0 .. N : f[n] = IF n \in stop THEN ends[n] ELSE f[n + 1]
  PROVE  \A n \in 0 .. N :
           \E v \in n .. N : /\ v \in stop
                             /\ \A m \in n .. v - 1 : m \notin stop
                             /\ f[n] = ends[v]
<1> DEFINE First(n, v) == v \in stop /\ (\A m \in n .. v - 1 : m \notin stop) /\ f[n] = ends[v]
           S == {n \in 0 .. N : \E v \in n .. N : First(n, v)}
<1>1. ASSUME NEW n \in 0 .. N, \A m \in n + 1 .. N : m \in S PROVE n \in S
  <2>1. CASE n \in stop
    <3>1. f[n] = ends[n] /\ n \in n .. N /\ n .. n - 1 = {}
      BY <2>1
    <3> QED BY <2>1, <3>1
  <2>2. CASE n \notin stop
    <3>1. n + 1 \in n + 1 .. N /\ f[n] = f[n + 1]
      <4>1. n # N
        BY <2>2
      <4> QED BY <2>2, <4>1
    <3>2. PICK v \in n + 1 .. N : First(n + 1, v)
      BY <1>1, <3>1
    <3>3. \A m \in n .. v - 1 : m = n \/ m \in n + 1 .. v - 1
      OBVIOUS
    <3>4. v \in n .. N /\ First(n, v)
      BY <2>2, <3>1, <3>2, <3>3
    <3> QED BY <3>4
  <2> QED BY <2>1, <2>2
<1>2. \A n \in 0 .. N : n \in S
  <2> HIDE DEF S
  <2> QED BY <1>1, Downward
<1> QED BY <1>2

\* The remainder is the only one.
LEMMA Remainder ==
  ASSUME NEW b \in Nat \ {0}, NEW q \in Nat, NEW r \in Nat, r < b
  PROVE  (q * b + r) % b = r
<1> DEFINE x == q * b + r
           d == x \div b
           s == x % b
<1>1. x \in Nat
  BY Products
<1>2. d \in Nat /\ s \in Nat /\ s < b /\ x = d * b + s
  <2> HIDE DEF x
  <2> QED BY <1>1
<1>3. x = q * b + r
  OBVIOUS
<1> HIDE DEF x, d, s
<1>4. q * b \in Nat /\ d * b \in Nat
  BY <1>2, Products
<1>5. ~ (q >= d + 1)
  <2>1. q >= d + 1 => (d + 1) * b <= q * b
    BY <1>2, Products
  <2>2. (d + 1) * b = d * b + b
    BY <1>2
  <2> QED BY <2>1, <2>2, <1>2, <1>3, <1>4
<1>6. ~ (d >= q + 1)
  <2>1. d >= q + 1 => (q + 1) * b <= d * b
    BY <1>2, Products
  <2>2. (q + 1) * b = q * b + b
    OBVIOUS
  <2> QED BY <2>1, <2>2, <1>2, <1>3, <1>4
<1>7. q = d
  BY <1>2, <1>5, <1>6
<1>8. s = r
  BY <1>2, <1>3, <1>4, <1>7
<1> QED BY <1>8 DEF s, x

\* A sum of remainders.
LEMMA RemainderOfSum ==
  ASSUME NEW a \in Nat, NEW c \in Nat, NEW b \in Nat \ {0}
  PROVE  /\ ((a % b) + c) % b = (a + c) % b
         /\ a % b \in Nat /\ a % b < b
<1>1. PICK q \in Nat, r \in Nat : a = q * b + r /\ r < b /\ r = a % b
  <2>1. a \div b \in Nat /\ a % b \in Nat /\ a % b < b /\ a = (a \div b) * b + (a % b)
    OBVIOUS
  <2> QED BY <2>1
<1>2. PICK p \in Nat, s \in Nat : r + c = p * b + s /\ s < b
  <2> DEFINE x == r + c
  <2>1. x \in Nat
    BY <1>1
  <2> HIDE DEF x
  <2>2. x \div b \in Nat /\ x % b \in Nat /\ x % b < b /\ x = (x \div b) * b + (x % b)
    BY <2>1
  <2> QED BY <2>2 DEF x
<1>3. (r + c) % b = s
  BY <1>2, Remainder
<1>4. a + c = (q + p) * b + s
  <2>1. (q + p) * b = q * b + p * b
    BY <1>1, <1>2
  <2>2. q * b \in Nat /\ p * b \in Nat
    BY <1>1, <1>2, Products
  <2> QED BY <2>1, <2>2, <1>1, <1>2
<1>5. (a + c) % b = s
  <2>1. q + p \in Nat
    BY <1>1, <1>2
  <2> QED BY <2>1, <1>2, <1>4, Remainder
<1> QED BY <1>1, <1>3, <1>5

\* Two texts one after the other.
LEMMA Joined ==
  ASSUME NEW S, NEW s \in Seq(S), NEW t \in Seq(S), NEW u, u = s \o t
  PROVE  /\ u \in Seq(S) /\ Len(u) = Len(s) + Len(t) /\ Len(s) \in Nat /\ Len(t) \in Nat
         /\ \A n \in 1 .. Len(s) : u[n] = s[n]
         /\ \A n \in 1 .. Len(t) : u[Len(s) + n] = t[n]
<1>1. /\ u \in Seq(S) /\ Len(u) = Len(s) + Len(t) /\ Len(s) \in Nat /\ Len(t) \in Nat
      /\ \A n \in 1 .. Len(s) + Len(t) : u[n] = IF n <= Len(s) THEN s[n] ELSE t[n - Len(s)]
  BY ConcatProperties
<1>2. \A n \in 1 .. Len(s) : u[n] = s[n]
  BY <1>1
<1>3. ASSUME NEW n \in 1 .. Len(t) PROVE u[Len(s) + n] = t[n]
  <2>1. Len(s) + n \in 1 .. Len(s) + Len(t) /\ ~ (Len(s) + n <= Len(s))
        /\ (Len(s) + n) - Len(s) = n
    BY <1>1
  <2> QED BY <2>1, <1>1
<1> QED BY <1>1, <1>2, <1>3

\* The least element is the one that none is below.
LEMMA MinIs ==
  ASSUME NEW S \in SUBSET Nat, NEW n \in S, \A m \in S : n <= m
  PROVE  Min(S) = n
<1>1. Min(S) \in S /\ \A m \in S : Min(S) <= m
  BY MinOf
<1>2. n <= Min(S) /\ Min(S) <= n /\ Min(S) \in Nat /\ n \in Nat
  BY <1>1
<1> QED BY <1>2

\* An element in front of a sequence.
LEMMA MarkFirst ==
  ASSUME NEW S, NEW e \in S, NEW s \in Seq(S), NEW u, u = <<e>> \o s
  PROVE  /\ u \in Seq(S) /\ Len(u) = 1 + Len(s) /\ Len(s) \in Nat
         /\ u[1] = e /\ \A n \in 1 .. Len(s) : u[1 + n] = s[n]
<1>1. /\ u \in Seq(S) /\ Len(s) \in Nat /\ Len(u) = Len(s) + 1
      /\ u[1] = e /\ \A n \in 1 .. Len(s) : u[n + 1] = s[n]
  BY InFront
<1> QED BY <1>1

\* What stands at a place of a stretch.
LEMMA StretchAt ==
  ASSUME NEW S, NEW q \in Seq(S), NEW from \in Nat, NEW to \in Nat, to <= Len(q),
         NEW i \in 1 .. to - from
  PROVE  SubSeq(q, from + 1, to)[i] = q[from + i]
<1>1. Len(q) \in Nat /\ \A n \in 1 .. Len(q) : q[n] \in S
  BY ElementOfSeq
<1>2. \A n \in from + 1 .. to : q[n] \in S
  BY <1>1
<1>3. from + 1 \in Int /\ to \in Int
  OBVIOUS
<1>4. \A n \in 1 .. to - (from + 1) + 1 : SubSeq(q, from + 1, to)[n] = q[from + 1 + n - 1]
  BY ONLY <1>2, <1>3, SubSeqProperties
<1>5. i \in 1 .. to - (from + 1) + 1 /\ from + 1 + i - 1 = from + i
  OBVIOUS
<1> QED BY ONLY <1>4, <1>5

\* The part of a sequence that equals another one.
LEMMA PieceIs ==
  ASSUME NEW S, NEW q \in Seq(S), NEW t \in Seq(S), NEW from \in Nat, from + Len(t) <= Len(q),
         \A n \in 1 .. Len(t) : q[from + n] = t[n]
  PROVE  SubSeq(q, from + 1, from + Len(t)) = t
<1> DEFINE u == SubSeq(q, from + 1, from + Len(t))
<1>1. Len(t) \in Nat /\ Len(q) \in Nat /\ \A n \in 1 .. Len(q) : q[n] \in S
  BY ElementOfSeq
<1>2. \A n \in from + 1 .. from + Len(t) : q[n] \in S
  BY <1>1
<1>3. /\ u \in Seq(S)
      /\ Len(u) = IF from + 1 <= from + Len(t) THEN from + Len(t) - (from + 1) + 1 ELSE 0
      /\ \A n \in 1 .. from + Len(t) - (from + 1) + 1 : u[n] = q[from + 1 + n - 1]
  BY <1>1, <1>2, SubSeqProperties
<1> HIDE DEF u
<1>4. Len(u) = Len(t)
  BY <1>1, <1>3
<1>5. ASSUME NEW n \in 1 .. Len(t) PROVE u[n] = t[n]
  <2>1. n \in 1 .. from + Len(t) - (from + 1) + 1 /\ from + 1 + n - 1 = from + n
    BY <1>1
  <2> QED BY <2>1, <1>3
<1>6. u = t
  BY <1>3, <1>4, <1>5, SeqEqual
<1> QED BY <1>6 DEF u

\* A recursive definition over 0 .. n has the function it means.
Unrolls(f, n, base, step) ==
  f = [k \in 0 .. n |-> IF k = 0 THEN base ELSE step[<<k, f[k - 1]>>]]

LEMMA Unrolled ==
  ASSUME NEW V, NEW base \in V, NEW step \in [Nat \X V -> V], NEW n \in Nat
  PROVE  \E f \in [0 .. n -> V] : Unrolls(f, n, base, step)
<1>1. PICK f \in [0 .. n -> V] : Recursive(f, n, base, step)
  BY Recursion
<1>2. ASSUME NEW k \in 0 .. n PROVE f[k] = IF k = 0 THEN base ELSE step[<<k, f[k - 1]>>]
  <2>1. k = 0 \/ k \in 1 .. n
    OBVIOUS
  <2> QED BY <2>1, <1>1 DEF Recursive
<1>3. f = [k \in 0 .. n |-> f[k]]
  BY <1>1
<1>4. f = [k \in 0 .. n |-> IF k = 0 THEN base ELSE step[<<k, f[k - 1]>>]]
  BY ONLY <1>2, <1>3
<1> QED BY <1>1, <1>4 DEF Unrolls

\* The stack of calls: taking the last one off.
LEMMA LastOff ==
  ASSUME NEW S, NEW s \in Seq(S), s # << >>
  PROVE  /\ Len(s) \in Nat /\ Len(s) >= 1
         /\ Last(s) = s[Len(s)] /\ Last(s) \in S
         /\ Front(s) \in Seq(S) /\ Len(Front(s)) = Len(s) - 1
         /\ \A i \in 1 .. Len(s) - 1 : Front(s)[i] = s[i]
<1>1. Len(s) \in Nat /\ Len(s) >= 1
  OBVIOUS
<1>2. Last(s) = s[Len(s)] /\ Last(s) \in S
  BY <1>1, ElementOfSeq DEF Last
<1> DEFINE n == Len(s)
<1>3. /\ 1 \in Int /\ n - 1 \in Int /\ \A i \in 1 .. n - 1 : i \in 1 .. n /\ s[i] \in S
  BY <1>1, ElementOfSeq
<1>4. /\ SubSeq(s, 1, n - 1) \in Seq(S)
      /\ Len(SubSeq(s, 1, n - 1)) = IF 1 <= n - 1 THEN (n - 1) - 1 + 1 ELSE 0
      /\ \A i \in 1 .. (n - 1) - 1 + 1 : SubSeq(s, 1, n - 1)[i] = s[1 + i - 1]
  BY <1>3, SubSeqProperties
<1>5. \A i \in 1 .. n - 1 : i \in 1 .. (n - 1) - 1 + 1 /\ 1 + i - 1 = i
  BY <1>1
<1>6. Front(s) = SubSeq(s, 1, n - 1)
  BY DEF Front
<1>a. n \in Nat /\ n >= 1
  BY <1>1
<1> HIDE DEF n
<1>7. (IF 1 <= n - 1 THEN (n - 1) - 1 + 1 ELSE 0) = n - 1
  BY ONLY <1>a
<1>8. Front(s) \in Seq(S) /\ Len(Front(s)) = n - 1 /\ \A i \in 1 .. n - 1 : Front(s)[i] = s[i]
  BY ONLY <1>4, <1>5, <1>6, <1>7
<1> QED BY <1>1, <1>2, <1>8 DEF n

\* Its last one replaced, and one put on.
LEMMA LastReplaced ==
  ASSUME NEW S, NEW s \in Seq(S), s # << >>, NEW e \in S, NEW t, t = Append(Front(s), e)
  PROVE  /\ t \in Seq(S) /\ Len(t) = Len(s) /\ t # << >>
         /\ t[Len(s)] = e /\ \A i \in 1 .. Len(s) - 1 : t[i] = s[i]
<1> DEFINE f == Front(s)
<1>1. /\ Len(s) \in Nat /\ Len(s) >= 1 /\ f \in Seq(S) /\ Len(f) = Len(s) - 1
      /\ \A i \in 1 .. Len(s) - 1 : f[i] = s[i]
  BY LastOff
<1> HIDE DEF f
<1>2. /\ Append(f, e) \in Seq(S) /\ Len(Append(f, e)) = Len(f) + 1
      /\ \A i \in 1 .. Len(f) : Append(f, e)[i] = f[i]
      /\ Append(f, e)[Len(f) + 1] = e
  BY <1>1, AppendProperties
<1>3. Len(s) - 1 + 1 = Len(s)
  BY <1>1
<1>4. t = Append(f, e)
  BY DEF f
<1>5. t \in Seq(S) /\ Len(t) = Len(s) /\ t[Len(s)] = e /\ \A i \in 1 .. Len(s) - 1 : t[i] = s[i]
  BY ONLY <1>1, <1>2, <1>3, <1>4
<1> QED BY <1>5, <1>1

LEMMA PutOn ==
  ASSUME NEW S, NEW s \in Seq(S), NEW e \in S, NEW t, t = Append(s, e)
  PROVE  /\ t \in Seq(S) /\ Len(s) \in Nat /\ Len(t) = Len(s) + 1 /\ t # << >>
         /\ t[Len(t)] = e /\ \A i \in 1 .. Len(s) : t[i] = s[i]
<1>1. /\ t \in Seq(S) /\ Len(t) = Len(s) + 1 /\ Len(s) \in Nat
      /\ \A i \in 1 .. Len(s) : t[i] = s[i]
      /\ t[Len(s) + 1] = e
  BY AppendProperties
<1> QED BY <1>1
=============================================================================

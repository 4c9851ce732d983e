---------------------------- MODULE MemoryProofs ----------------------------
(***************************************************************************)
(* The engines of memory, for every value of their constants: the arena's  *)
(* safety and, for a heap snapshot fed in any way, the bounds of what the  *)
(* memory engine hands out; for one fed as snapshots are, that the         *)
(* dominators and retained sizes are the true ones once the passes settle. *)
(***************************************************************************)
EXTENDS Arena, HeapSnapshot, DataLemmas

\* A sum below the modulus is its own remainder.
LEMMA SmallRemainder ==
  ASSUME NEW m \in Nat, NEW n \in Nat, n < m
  PROVE  n % m = n
  BY Z3

\* What allocate adds in front of a block: fewer than 8 bytes, up to the
\* next multiple of 8.
LEMMA PaddingFacts ==
  ASSUME NEW off \in Nat
  PROVE  /\ Padding(off) \in 0 .. 7
         /\ (off + Padding(off)) % Alignment = 0
  BY SMT DEF Padding, Alignment

\* Under the assumption no sum in allocate wraps around.
LEMMA NoWrapInAllocate ==
  ASSUME NEW off \in 0 .. Capacity, NEW size \in Sizes
  PROVE  /\ Taken(off, size) = size + Padding(off)
         /\ (off + Taken(off, size)) % Word = off + size + Padding(off)
<1> DEFINE pad == Padding(off)
<1>1. /\ Capacity \in Nat /\ Word \in Nat /\ size \in Nat /\ off \in Nat
      /\ off <= Capacity /\ Capacity + 8 + size <= Word
  BY ArenaAssumption DEF NoWrap, Alignment
<1>2. pad \in 0 .. 7
  BY <1>1, PaddingFacts
<1> HIDE DEF pad
<1>3. (size + pad) % Word = size + pad
  <2>1. size + pad \in Nat /\ size + pad < Word
    BY <1>1, <1>2
  <2> QED BY <2>1, <1>1, SmallRemainder
<1>4. (off + (size + pad)) % Word = off + (size + pad)
  <2>1. off + (size + pad) \in Nat /\ off + (size + pad) < Word
    BY <1>1, <1>2
  <2> QED BY <2>1, <1>1, SmallRemainder
<1>5. Taken(off, size) = size + pad
  BY <1>3 DEF Taken, pad
<1>6. off + (size + pad) = off + size + pad
  BY <1>1, <1>2
<1> QED BY <1>4, <1>5, <1>6 DEF pad

----------------------------------------------------------------------------
\* What one successful allocation does, without the modular arithmetic.
LEMMA AllocateStep ==
  ASSUME TypeOK, NEW size \in Sizes, Allocate(size)
  PROVE  \E pad \in 0 .. 7 :
           /\ (offset + pad) % Alignment = 0
           /\ offset' = offset + size + pad
           /\ offset' <= Capacity
           /\ blocks' = blocks \union {[at |-> offset + pad, size |-> size]}
<1>1. offset \in Nat
  BY ArenaAssumption DEF TypeOK
<1>2. /\ Padding(offset) \in 0 .. 7
      /\ (offset + Padding(offset)) % Alignment = 0
  BY <1>1, PaddingFacts
<1>3. (offset + Taken(offset, size)) % Word = offset + size + Padding(offset)
  BY NoWrapInAllocate DEF TypeOK
<1>4. /\ offset' = offset + size + Padding(offset)
      /\ offset' <= Capacity
  BY <1>3 DEF Allocate, Fits
<1> QED BY <1>2, <1>4 DEF Allocate, BlockAt

----------------------------------------------------------------------------
\* BlocksDisjoint alone is not inductive: that the new block misses the old
\* ones follows from the old ones lying below the offset.
ArenaInv ==
  /\ TypeOK
  /\ BlocksInBuffer
  /\ BlocksDisjoint
  /\ BlocksAligned

LEMMA InitInv == Init => ArenaInv
BY ArenaAssumption
DEF Init, ArenaInv, TypeOK, BlocksInBuffer, BlocksDisjoint, BlocksAligned

LEMMA AllocateInv ==
  ASSUME ArenaInv, NEW size \in Sizes, Allocate(size)
  PROVE  ArenaInv'
<1> USE DEF ArenaInv
<1>1. PICK pad \in 0 .. 7 :
        /\ (offset + pad) % Alignment = 0
        /\ offset' = offset + size + pad
        /\ offset' <= Capacity
        /\ blocks' = blocks \union {[at |-> offset + pad, size |-> size]}
  BY AllocateStep
<1> DEFINE new == [at |-> offset + pad, size |-> size]
<1>2. /\ offset \in Nat /\ offset <= Capacity
      /\ Capacity \in Nat
      /\ size \in Nat /\ pad \in Nat
      /\ \A b \in blocks : b.at \in Nat /\ b.size \in Nat
  <2>1. \A b \in blocks : b.at \in Nat /\ b.size \in Sizes
    BY DEF TypeOK, Blocks
  <2>2. offset \in Nat /\ offset <= Capacity /\ Capacity \in Nat
    BY ArenaAssumption DEF TypeOK
  <2>3. Sizes \subseteq Nat
    BY ArenaAssumption
  <2>4. pad \in Nat
    OBVIOUS
  <2>5. size \in Nat
    BY <2>3
  <2>6. \A b \in blocks : b.at \in Nat /\ b.size \in Nat
    BY <2>1, <2>3, Zenon
  <2> QED BY <2>2, <2>4, <2>5, <2>6
<1>3. /\ new \in Blocks
      /\ new.at = offset + pad
      /\ new.size = size
  BY <1>2 DEF Blocks
<1>4. blocks' = blocks \union {new}
  BY <1>1
<1> HIDE DEF new
<1>5. TypeOK'
  BY <1>1, <1>2, <1>3, <1>4 DEF TypeOK
<1>6. BlocksInBuffer'
  <2> SUFFICES ASSUME NEW b \in blocks'
               PROVE  b.at + b.size <= offset'
    BY DEF BlocksInBuffer
  <2>1. CASE b = new
    BY <2>1, <1>1, <1>2, <1>3
  <2>2. CASE b \in blocks
    BY <2>2, <1>1, <1>2 DEF BlocksInBuffer
  <2> QED BY <2>1, <2>2, <1>4
<1>7. BlocksDisjoint'
  <2>1. \A b \in blocks : b.at + b.size <= new.at
    BY <1>2, <1>3 DEF BlocksInBuffer
  <2> QED BY <2>1, <1>4 DEF BlocksDisjoint
<1>8. BlocksAligned'
  BY <1>1, <1>3, <1>4 DEF BlocksAligned
<1> QED BY <1>5, <1>6, <1>7, <1>8

LEMMA StepInv == ArenaInv /\ [Next]_arenaVars => ArenaInv'
<1> SUFFICES ASSUME ArenaInv, [Next]_arenaVars
             PROVE  ArenaInv'
  OBVIOUS
<1>1. ASSUME NEW size \in Sizes, Allocate(size)
      PROVE  ArenaInv'
  BY <1>1, AllocateInv
<1>2. ASSUME NEW size \in Sizes, AllocateFails(size)
      PROVE  ArenaInv'
  BY <1>2 DEF AllocateFails, arenaVars, ArenaInv, TypeOK, BlocksInBuffer,
              BlocksDisjoint, BlocksAligned
<1>3. CASE Reset
  BY <1>3, ArenaAssumption DEF Reset, ArenaInv, TypeOK, BlocksInBuffer,
              BlocksDisjoint, BlocksAligned
<1>4. CASE UNCHANGED arenaVars
  BY <1>4 DEF arenaVars, ArenaInv, TypeOK, BlocksInBuffer,
              BlocksDisjoint, BlocksAligned
<1> QED BY <1>1, <1>2, <1>3, <1>4 DEF Next

LEMMA InvHolds == Spec => []ArenaInv
<1> QED BY InitInv, StepInv, PTL DEF Spec

\* Blocks lie inside the buffer, below the offset.
THEOREM ArenaTypeOK == Spec => []TypeOK
<1>1. ArenaInv => TypeOK BY DEF ArenaInv
<1> QED BY InvHolds, <1>1, PTL

THEOREM ArenaBlocksInBuffer == Spec => []BlocksInBuffer
<1>1. ArenaInv => BlocksInBuffer BY DEF ArenaInv
<1> QED BY InvHolds, <1>1, PTL

\* No two callers share a byte between two resets.
THEOREM ArenaBlocksDisjoint == Spec => []BlocksDisjoint
<1>1. ArenaInv => BlocksDisjoint BY DEF ArenaInv
<1> QED BY InvHolds, <1>1, PTL

\* Both together: inside the buffer and apart.
THEOREM ArenaBlocksApart == Spec => []BlocksApart
<1>1. ArenaInv => BlocksApart BY DEF ArenaInv, TypeOK, BlocksApart
<1> QED BY InvHolds, <1>1, PTL

\* Every block starts on an 8-byte boundary of the buffer.
THEOREM ArenaBlocksAligned == Spec => []BlocksAligned
<1>1. ArenaInv => BlocksAligned BY DEF ArenaInv
<1> QED BY InvHolds, <1>1, PTL

----------------------------------------------------------------------------
\* The padding of a later offset does not make up for the distance to it:
\* rounding up to multiples of 8 is monotonic.
LEMMA RoundingMonotonic ==
  ASSUME NEW off \in Nat, NEW later \in Nat, off <= later
  PROVE  off + Padding(off) <= later + Padding(later)
  BY SMT DEF Padding, Alignment

\* Fits, without the modular arithmetic.
LEMMA FitsMeans ==
  ASSUME NEW off \in 0 .. Capacity, NEW size \in Sizes
  PROVE  Fits(off, size) <=> off + size + Padding(off) <= Capacity
  BY NoWrapInAllocate DEF Fits

\* What is refused at one offset is refused at every later one.
LEMMA LaterRefused ==
  ASSUME NEW off \in 0 .. Capacity, NEW later \in 0 .. Capacity, off <= later,
         NEW size \in Sizes, ~ Fits(off, size)
  PROVE  ~ Fits(later, size)
<1>1. /\ off \in Nat /\ later \in Nat /\ size \in Nat /\ Capacity \in Nat
  BY ArenaAssumption
<1>2. Padding(off) \in 0 .. 7 /\ Padding(later) \in 0 .. 7
  BY <1>1, PaddingFacts
<1>3. off + Padding(off) <= later + Padding(later)
  BY <1>1, RoundingMonotonic
<1>4. ~ (off + size + Padding(off) <= Capacity)
  BY FitsMeans
<1>5. ~ (later + size + Padding(later) <= Capacity)
  BY <1>1, <1>2, <1>3, <1>4
<1> QED BY <1>5, FitsMeans

\* Exhaustion is final: until the reset, a size refused once is refused.
THEOREM ArenaRefusedStaysRefused == Spec => RefusedStaysRefused
<1> DEFINE Step == ~ Reset =>
             \A size \in Sizes : ~ Fits(offset, size) => ~ Fits(offset', size)
<1>1. ASSUME TypeOK, TypeOK', [Next]_arenaVars
      PROVE  [Step]_arenaVars
  <2> SUFFICES ASSUME Next, ~ Reset,
                      NEW size \in Sizes, ~ Fits(offset, size)
               PROVE  ~ Fits(offset', size)
    BY <1>1
  <2>1. offset \in 0 .. Capacity /\ offset' \in 0 .. Capacity
    BY <1>1 DEF TypeOK
  <2>2. ASSUME NEW other \in Sizes, Allocate(other)
        PROVE  offset <= offset'
    <3>1. PICK pad \in 0 .. 7 : offset' = offset + other + pad
      BY <1>1, <2>2, AllocateStep
    <3> QED BY <3>1, <2>1, ArenaAssumption
  <2>3. ASSUME NEW other \in Sizes, AllocateFails(other)
        PROVE  offset <= offset'
    BY <2>1, <2>3, ArenaAssumption DEF AllocateFails, arenaVars
  <2>4. offset <= offset'
    BY <2>2, <2>3 DEF Next
  <2> QED BY <2>1, <2>4, LaterRefused
<1> HIDE DEF Step
<1>2. [][Step]_arenaVars => RefusedStaysRefused
  BY PTL DEF RefusedStaysRefused, Step
<1> QED BY <1>1, <1>2, ArenaTypeOK, PTL DEF Spec

----------------------------------------------------------------------------
(* The heap snapshot.                                                      *)

\* What every turn of a loop keeps holds at its end.
LEMMA LoopKeeps ==
  ASSUME NEW n \in Nat, NEW value, NEW step, NEW Good, <<0, value>> \in Good,
         \A i \in 1 .. n : \A v : <<i - 1, v>> \in Good => <<i, step[i][v]>> \in Good
  PROVE  <<n, Looped(n, value, step)>> \in Good
<1> DEFINE V == {p[2] : p \in Good}
           next == [a \in Nat \X V |->
                      IF <<a[1], step[a[1]][a[2]]>> \in Good THEN step[a[1]][a[2]] ELSE value]
<1>1. \A k, v : <<k, v>> \in Good => v \in V
  OBVIOUS
<1>2. value \in V
  BY <1>1
<1>3. next \in [Nat \X V -> V]
  <2>1. ASSUME NEW a \in Nat \X V
        PROVE  (IF <<a[1], step[a[1]][a[2]]>> \in Good THEN step[a[1]][a[2]] ELSE value) \in V
    <3> HIDE DEF V
    <3> QED BY <1>1, <1>2
  <2> HIDE DEF V
  <2> QED BY <2>1
<1> HIDE DEF V
<1>4. PICK f \in [0 .. n -> V] : Unrolls(f, n, value, next)
  <2> HIDE DEF next
  <2> QED BY <1>2, <1>3, Unrolled
<1>5. f = [k \in 0 .. n |-> IF k = 0 THEN value ELSE next[<<k, f[k - 1]>>]]
  BY <1>4 DEF Unrolls
<1>6. \A k \in Nat : k <= n => <<k, f[k]>> \in Good
  <2> DEFINE S == {k \in Nat : k <= n => <<k, f[k]>> \in Good}
  <2>1. 0 \in S
    BY <1>5
  <2>2. ASSUME NEW k \in Nat, k \in S PROVE k + 1 \in S
    <3>1. SUFFICES ASSUME k + 1 <= n PROVE <<k + 1, f[k + 1]>> \in Good
      OBVIOUS
    <3>2. k + 1 \in 1 .. n /\ (k + 1) - 1 = k /\ k <= n /\ k + 1 \in 0 .. n /\ k + 1 # 0 /\ k + 1 \in Nat
          /\ k \in 0 .. n
      BY <3>1
    <3>3. f[k + 1] = next[<<k + 1, f[k]>>] /\ f[k] \in V
      <4> HIDE DEF next
      <4> QED BY ONLY <3>2, <1>5, <1>4
    <3>4. <<k + 1, step[k + 1][f[k]]>> \in Good
      <4>1. <<(k + 1) - 1, f[k]>> \in Good
        BY <2>2, <3>2
      <4> QED BY <4>1, <3>2
    <3>5. next[<<k + 1, f[k]>>] = step[k + 1][f[k]]
      BY <3>2, <3>3, <3>4
    <3> QED BY <3>3, <3>4, <3>5
  <2>3. \A k \in Nat : k \in S
    <3> HIDE DEF S
    <3> QED BY <2>1, <2>2, Induction
  <2> QED BY <2>3
<1>7. ASSUME NEW k \in 0 .. n
      PROVE  (IF k = 0 THEN value ELSE next[<<k, f[k - 1]>>]) = IF k = 0 THEN value ELSE step[k][f[k - 1]]
  <2>1. CASE k = 0
    BY <2>1
  <2>2. CASE k # 0
    <3>1. k \in 1 .. n /\ k - 1 \in Nat /\ k - 1 <= n /\ k \in Nat /\ k - 1 \in 0 .. n
      BY <2>2
    <3>2. <<k - 1, f[k - 1]>> \in Good /\ f[k - 1] \in V
      BY <3>1, <1>4, <1>6
    <3>3. <<k, step[k][f[k - 1]]>> \in Good
      BY <3>1, <3>2
    <3> QED BY <2>2, <3>1, <3>2, <3>3
  <2> QED BY <2>1, <2>2
<1>8. f = [k \in 0 .. n |-> IF k = 0 THEN value ELSE step[k][f[k - 1]]]
  BY ONLY <1>5, <1>7
<1> DEFINE e == CHOOSE after : after = [k \in 0 .. n |-> IF k = 0 THEN value ELSE step[k][after[k - 1]]]
<1>9. e = [k \in 0 .. n |-> IF k = 0 THEN value ELSE step[k][e[k - 1]]]
  BY <1>8
<1>10. Looped(n, value, step) = e[n]
  BY DEF Looped
<1> HIDE DEF e
<1>11. \A k \in Nat : k <= n => <<k, e[k]>> \in Good
  <2> DEFINE S == {k \in Nat : k <= n => <<k, e[k]>> \in Good}
  <2>1. 0 \in S
    BY <1>9
  <2>2. ASSUME NEW k \in Nat, k \in S PROVE k + 1 \in S
    <3>1. SUFFICES ASSUME k + 1 <= n PROVE <<k + 1, e[k + 1]>> \in Good
      OBVIOUS
    <3>2. k + 1 \in 1 .. n /\ (k + 1) - 1 = k /\ k <= n /\ k + 1 \in 0 .. n /\ k + 1 # 0
      BY <3>1
    <3>3. e[k + 1] = step[k + 1][e[k]]
      BY ONLY <3>2, <1>9
    <3>4. <<(k + 1) - 1, e[k]>> \in Good
      BY <2>2, <3>2
    <3> QED BY <3>2, <3>3, <3>4
  <2>3. \A k \in Nat : k \in S
    <3> HIDE DEF S
    <3> QED BY <2>1, <2>2, Induction
  <2> QED BY <2>3
<1> QED BY <1>10, <1>11

\* What feeding keeps: the map leads to nodes of its ids, and what is linked
\* at a node are edges that were added.
HeapFed ==
  /\ nodes \in Seq(Ids) /\ edges \in Seq(Edges)
  /\ map \in [Ids -> 0 .. Size]
  /\ \A id \in Ids : map[id] # 0 => nodes[map[id]] = id
  /\ \A i \in Indices : map[nodes[i]] # 0
  /\ outgoing \in [Indices -> Seq(Ids)] /\ retainers \in [Indices -> Seq(Ids)]
  /\ \A i \in Indices : \A k \in 1 .. Len(outgoing[i]) : <<nodes[i], outgoing[i][k]>> \in ToSet(edges)
  /\ \A i \in Indices : \A k \in 1 .. Len(retainers[i]) : <<retainers[i][k], nodes[i]>> \in ToSet(edges)

LEMMA HeapFedInitial == HeapInit => HeapFed
<1> SUFFICES ASSUME HeapInit PROVE HeapFed
  OBVIOUS
<1>1. Size = 0 /\ Indices = {}
  BY DEF HeapInit, Size, Indices
<1>2. << >> \in Seq(Ids) /\ << >> \in Seq(Edges)
  OBVIOUS
<1>3. << >> \in [{} -> Seq(Ids)]
  OBVIOUS
<1>4. map \in [Ids -> 0 .. Size] /\ \A id \in Ids : map[id] = 0
  BY <1>1 DEF HeapInit
<1> QED BY <1>1, <1>2, <1>3, <1>4 DEF HeapInit, HeapFed

\* One more list, and an entry in front of one of them.
LEMMA ListAdded ==
  ASSUME NEW n \in Nat, NEW S, NEW lists \in [1 .. n -> Seq(S)]
  PROVE  /\ Append(lists, << >>) \in [1 .. n + 1 -> Seq(S)]
         /\ \A i \in 1 .. n : Append(lists, << >>)[i] = lists[i]
         /\ Append(lists, << >>)[n + 1] = << >>
<1>1. lists \in Seq(Seq(S)) /\ Len(lists) = n
  OBVIOUS
<1>2. << >> \in Seq(S)
  OBVIOUS
<1> DEFINE t == Append(lists, << >>)
<1>3. /\ t \in Seq(Seq(S)) /\ Len(t) = n + 1
      /\ \A i \in 1 .. n : t[i] = lists[i]
      /\ t[n + 1] = << >>
  <2> HIDE DEF t
  <2>1. t = Append(lists, << >>)
    BY DEF t
  <2> QED BY <1>1, <1>2, <2>1, AppendProperties
<1> HIDE DEF t
<1>4. t \in [1 .. n + 1 -> Seq(S)]
  BY <1>3
<1> QED BY <1>3, <1>4 DEF t

LEMMA HeapAddNode ==
  ASSUME HeapFed, NEW id \in Ids, AddNode(id)
  PROVE  HeapFed'
<1>1. /\ nodes' = Append(nodes, id) /\ edges' = edges
      /\ map' = [map EXCEPT ![id] = Size + 1]
      /\ outgoing' = Append(outgoing, << >>) /\ retainers' = Append(retainers, << >>)
  BY DEF AddNode
<1>2. /\ nodes \in Seq(Ids) /\ edges \in Seq(Edges) /\ map \in [Ids -> 0 .. Size]
      /\ \A x \in Ids : map[x] # 0 => nodes[map[x]] = x
      /\ \A i \in 1 .. Size : map[nodes[i]] # 0
      /\ outgoing \in [1 .. Size -> Seq(Ids)] /\ retainers \in [1 .. Size -> Seq(Ids)]
  BY DEF HeapFed, Indices
<1>3. /\ nodes' \in Seq(Ids) /\ Size \in Nat /\ Size' = Size + 1
      /\ Indices' = 1 .. Size + 1 /\ Indices = 1 .. Size
      /\ \A i \in 1 .. Size : nodes'[i] = nodes[i] /\ nodes[i] \in Ids
      /\ nodes'[Size + 1] = id
  <2>1. /\ nodes' \in Seq(Ids) /\ Len(nodes') = Len(nodes) + 1 /\ Len(nodes) \in Nat
        /\ \A i \in 1 .. Len(nodes) : nodes'[i] = nodes[i]
        /\ nodes'[Len(nodes) + 1] = id
    BY <1>1, <1>2, AppendProperties
  <2>2. \A i \in 1 .. Len(nodes) : nodes[i] \in Ids
    BY <1>2, ElementOfSeq
  <2> QED BY <2>1, <2>2 DEF Size, Indices
<1>4. \A i \in 1 .. Size + 1 : i \in 1 .. Size \/ i = Size + 1
  BY <1>3
<1>5. map' \in [Ids -> 0 .. Size + 1]
      /\ \A x \in Ids : map'[x] = IF x = id THEN Size + 1 ELSE map[x]
  BY <1>1, <1>2, <1>3
<1>6. \A x \in Ids : map'[x] # 0 => nodes'[map'[x]] = x
  <2> SUFFICES ASSUME NEW x \in Ids, map'[x] # 0 PROVE nodes'[map'[x]] = x
    OBVIOUS
  <2>1. CASE x = id
    BY <2>1, <1>3, <1>5
  <2>2. CASE x # id
    <3>1. map'[x] = map[x] /\ map[x] \in 1 .. Size
      BY <2>2, <1>2, <1>3, <1>5
    <3> QED BY <3>1, <1>2, <1>3
  <2> QED BY <2>1, <2>2
<1>7. \A i \in 1 .. Size + 1 : map'[nodes'[i]] # 0
  <2> TAKE i \in 1 .. Size + 1
  <2>1. CASE i = Size + 1
    BY <2>1, <1>3, <1>5
  <2>2. CASE i \in 1 .. Size
    <3>1. nodes'[i] = nodes[i] /\ nodes[i] \in Ids /\ map[nodes[i]] # 0 /\ Size + 1 # 0
      BY <2>2, <1>2, <1>3
    <3> QED BY <3>1, <1>5
  <2> QED BY <2>1, <2>2, <1>4
<1>8. /\ outgoing' \in [1 .. Size + 1 -> Seq(Ids)]
      /\ \A i \in 1 .. Size : outgoing'[i] = outgoing[i]
      /\ outgoing'[Size + 1] = << >>
      /\ retainers' \in [1 .. Size + 1 -> Seq(Ids)]
      /\ \A i \in 1 .. Size : retainers'[i] = retainers[i]
      /\ retainers'[Size + 1] = << >>
  <2>1. ASSUME NEW lists \in [1 .. Size -> Seq(Ids)]
        PROVE  /\ Append(lists, << >>) \in [1 .. Size + 1 -> Seq(Ids)]
               /\ \A i \in 1 .. Size : Append(lists, << >>)[i] = lists[i]
               /\ Append(lists, << >>)[Size + 1] = << >>
    <3> HIDE DEF Size
    <3> QED BY <1>3, ListAdded
  <2> HIDE DEF Size
  <2> QED BY <1>1, <1>2, <2>1
<1>9. \A i \in 1 .. Size + 1 : \A k \in 1 .. Len(outgoing'[i]) :
        <<nodes'[i], outgoing'[i][k]>> \in ToSet(edges)
  <2> TAKE i \in 1 .. Size + 1
  <2>1. CASE i = Size + 1
    BY <2>1, <1>8
  <2>2. CASE i \in 1 .. Size
    BY <2>2, <1>3, <1>8 DEF HeapFed
  <2> QED BY <2>1, <2>2, <1>4
<1>10. \A i \in 1 .. Size + 1 : \A k \in 1 .. Len(retainers'[i]) :
         <<retainers'[i][k], nodes'[i]>> \in ToSet(edges)
  <2> TAKE i \in 1 .. Size + 1
  <2>1. CASE i = Size + 1
    BY <2>1, <1>8
  <2>2. CASE i \in 1 .. Size
    BY <2>2, <1>3, <1>8 DEF HeapFed
  <2> QED BY <2>1, <2>2, <1>4
<1> HIDE DEF Size, Indices
<1> QED BY <1>1, <1>2, <1>3, <1>5, <1>6, <1>7, <1>8, <1>9, <1>10 DEF HeapFed

LEMMA HeapAddEdge ==
  ASSUME HeapFed, NEW e \in Edges, NEW room \in BOOLEAN, AddEdge(e, room)
  PROVE  HeapFed'
<1> DEFINE from == Index(e[1])
           to == Index(e[2])
<1>1. /\ nodes' = nodes /\ map' = map /\ edges' = Append(edges, e)
      /\ outgoing' = IF from = 0 THEN outgoing ELSE [outgoing EXCEPT ![from] = <<e[2]>> \o @]
      /\ retainers' = IF to = 0 \/ ~ room THEN retainers
                      ELSE [retainers EXCEPT ![to] = <<e[1]>> \o @]
  BY DEF AddEdge
<1>2. /\ nodes \in Seq(Ids) /\ edges \in Seq(Edges) /\ map \in [Ids -> 0 .. Size]
      /\ \A x \in Ids : map[x] # 0 => nodes[map[x]] = x
      /\ outgoing \in [Indices -> Seq(Ids)] /\ retainers \in [Indices -> Seq(Ids)]
      /\ Size \in Nat
  BY DEF HeapFed, Size
<1>3. Size' = Size /\ Indices' = Indices
  BY <1>1 DEF Size, Indices
<1>4. e[1] \in Ids /\ e[2] \in Ids /\ e = <<e[1], e[2]>>
  BY HeapAssumption
<1>5. /\ from # 0 => from \in Indices /\ nodes[from] = e[1]
      /\ to # 0 => to \in Indices /\ nodes[to] = e[2]
  BY <1>2, <1>4 DEF Index, Indices
<1>6. /\ edges' \in Seq(Edges) /\ e \in ToSet(edges')
      /\ \A f : f \in ToSet(edges) => f \in ToSet(edges')
  <2>1. /\ edges' \in Seq(Edges) /\ Len(edges) \in Nat /\ Len(edges') = Len(edges) + 1
        /\ DOMAIN edges = 1 .. Len(edges) /\ DOMAIN edges' = 1 .. Len(edges) + 1
        /\ edges'[Len(edges) + 1] = e /\ \A i \in 1 .. Len(edges) : edges'[i] = edges[i]
    BY <1>1, <1>2, AppendProperties
  <2>2. Len(edges) + 1 \in 1 .. Len(edges) + 1 /\ \A i \in 1 .. Len(edges) : i \in 1 .. Len(edges) + 1
    BY <2>1
  <2> QED BY <2>1, <2>2 DEF ToSet
<1> HIDE DEF from, to
<1>7. ASSUME NEW list \in Seq(Ids), NEW x \in Ids
      PROVE  /\ <<x>> \o list \in Seq(Ids)
             /\ \A k \in 1 .. Len(<<x>> \o list) :
                  \/ (<<x>> \o list)[k] = x
                  \/ \E j \in 1 .. Len(list) : (<<x>> \o list)[k] = list[j]
  <2>1. LET t == <<x>> \o list IN
        /\ t \in Seq(Ids) /\ Len(list) \in Nat /\ Len(t) = Len(list) + 1 /\ t[1] = x
        /\ \A i \in 2 .. Len(list) + 1 : t[i] = list[i - 1]
    BY InFront
  <2> DEFINE t == <<x>> \o list
  <2>2. ASSUME NEW k \in 1 .. Len(t), k # 1 PROVE \E j \in 1 .. Len(list) : t[k] = list[j]
    <3>1. k \in 2 .. Len(list) + 1 /\ k - 1 \in 1 .. Len(list)
      BY <2>1, <2>2
    <3> QED BY <2>1, <3>1
  <2> QED BY <2>1, <2>2
<1>8. /\ outgoing' \in [Indices -> Seq(Ids)]
      /\ \A i \in Indices : \A k \in 1 .. Len(outgoing'[i]) :
           <<nodes[i], outgoing'[i][k]>> \in ToSet(edges')
  <2>1. \A i \in Indices : \A k \in 1 .. Len(outgoing[i]) : <<nodes[i], outgoing[i][k]>> \in ToSet(edges')
    BY <1>6 DEF HeapFed
  <2>2. CASE from = 0
    BY <2>1, <2>2, <1>1, <1>2
  <2>3. CASE from # 0
    <3>1. from \in Indices /\ nodes[from] = e[1] /\ outgoing[from] \in Seq(Ids)
      BY <2>3, <1>5, <1>2
    <3>2. outgoing' = [outgoing EXCEPT ![from] = <<e[2]>> \o outgoing[from]]
      BY <2>3, <1>1
    <3>3. <<e[2]>> \o outgoing[from] \in Seq(Ids)
      BY <1>7, <1>4, <3>1
    <3>4. /\ outgoing' \in [Indices -> Seq(Ids)]
          /\ outgoing'[from] = <<e[2]>> \o outgoing[from]
          /\ \A i \in Indices : i # from => outgoing'[i] = outgoing[i]
      BY <3>1, <3>2, <3>3, <1>2
    <3>5. ASSUME NEW k \in 1 .. Len(outgoing'[from])
          PROVE  <<nodes[from], outgoing'[from][k]>> \in ToSet(edges')
      <4>1. \/ outgoing'[from][k] = e[2]
            \/ \E j \in 1 .. Len(outgoing[from]) : outgoing'[from][k] = outgoing[from][j]
        BY <1>7, <1>4, <3>1, <3>4
      <4> QED BY <4>1, <2>1, <3>1, <1>4, <1>6
    <3> QED BY <3>4, <3>5, <2>1
  <2> QED BY <2>2, <2>3
<1>9. /\ retainers' \in [Indices -> Seq(Ids)]
      /\ \A i \in Indices : \A k \in 1 .. Len(retainers'[i]) :
           <<retainers'[i][k], nodes[i]>> \in ToSet(edges')
  <2>1. \A i \in Indices : \A k \in 1 .. Len(retainers[i]) : <<retainers[i][k], nodes[i]>> \in ToSet(edges')
    BY <1>6 DEF HeapFed
  <2>2. CASE to = 0 \/ ~ room
    BY <2>1, <2>2, <1>1, <1>2
  <2>3. CASE ~ (to = 0 \/ ~ room)
    <3>1. to \in Indices /\ nodes[to] = e[2] /\ retainers[to] \in Seq(Ids)
      BY <2>3, <1>5, <1>2
    <3>2. retainers' = [retainers EXCEPT ![to] = <<e[1]>> \o retainers[to]]
      BY <2>3, <1>1
    <3>3. <<e[1]>> \o retainers[to] \in Seq(Ids)
      BY <1>7, <1>4, <3>1
    <3>4. /\ retainers' \in [Indices -> Seq(Ids)]
          /\ retainers'[to] = <<e[1]>> \o retainers[to]
          /\ \A i \in Indices : i # to => retainers'[i] = retainers[i]
      BY <3>1, <3>2, <3>3, <1>2
    <3>5. ASSUME NEW k \in 1 .. Len(retainers'[to])
          PROVE  <<retainers'[to][k], nodes[to]>> \in ToSet(edges')
      <4>1. \/ retainers'[to][k] = e[1]
            \/ \E j \in 1 .. Len(retainers[to]) : retainers'[to][k] = retainers[to][j]
        BY <1>7, <1>4, <3>1, <3>4
      <4> QED BY <4>1, <2>1, <3>1, <1>4, <1>6
    <3> QED BY <3>4, <3>5, <2>1
  <2> QED BY <2>2, <2>3
<1> QED BY <1>1, <1>2, <1>3, <1>6, <1>8, <1>9 DEF HeapFed

LEMMA HeapFedStep == HeapFed /\ [HeapNext]_heapVars => HeapFed'
<1> SUFFICES ASSUME HeapFed, [HeapNext]_heapVars PROVE HeapFed'
  OBVIOUS
<1>1. ASSUME UNCHANGED <<nodes, map, edges, outgoing, retainers>> PROVE HeapFed'
  BY <1>1 DEF HeapFed, Size, Indices
<1>2. ASSUME NEW room \in BOOLEAN, Compute(room) PROVE HeapFed'
  BY <1>1, <1>2 DEF Compute
<1>3. CASE UNCHANGED heapVars
  BY <1>1, <1>3 DEF heapVars
<1> QED BY <1>2, <1>3, HeapAddNode, HeapAddEdge DEF HeapNext

\* What distances are to the passes over the dominators: the root is at none,
\* or nothing is reached.
Distanced(dist) ==
  /\ dist \in [Indices -> 0 .. Unreached]
  /\ dist[RootIndex] = 0 \/ \A i \in Indices : dist[i] = Unreached

\* The nodes that have a dominator, and those of them that their ids lead to.
Had(dom) == {i \in Indices : dom[i] # 0}
Led(dom) == {i \in Had(dom) : Index(nodes[i]) = i}

\* The dominators between two turns: ord is the order in which nodes had their
\* first, and leads from every node to the root both along dominators and
\* along retainers.
Headed(dist, dom, ord) ==
  /\ dom \in [Indices -> Ids \union {0}]
  /\ ord \in [Indices -> Nat]
  /\ dom[RootIndex] = nodes[RootIndex]
  /\ \A i \in Had(dom) : ord[i] < Cardinality(Had(dom))
  /\ \A i \in Had(dom) \ {RootIndex} :
       /\ dist[i] # Unreached
       /\ Index(dom[i]) \in Led(dom) /\ ord[Index(dom[i])] < ord[i]
       /\ \E k \in 1 .. Len(retainers[i]) :
            Index(retainers[i][k]) \in Led(dom) /\ ord[Index(retainers[i][k])] < ord[i]

\* The sets of nodes that no way up along dominators leaves, and those that no
\* two fingers do.
UpClosed(dom, U) == U \subseteq Led(dom) /\ \A x \in U : Index(dom[x]) \in U
FingersStay(dist, dom, S) ==
  /\ S \subseteq Led(dom)
  /\ \A f, g \in S : f # g /\ dist[f] >= dist[g] => Index(dom[f]) \in S

LEMMA Indexed ==
  ASSUME HeapFed
  PROVE  /\ Size \in Nat /\ Indices = 1 .. Size
         /\ \A i \in Indices : nodes[i] \in Ids /\ Index(nodes[i]) # 0
         /\ \A x : Index(x) # 0 => Index(x) \in Indices /\ nodes[Index(x)] = x /\ x \in Ids
         /\ \A x : Index(x) \in 0 .. Size
         /\ 0 \notin Ids /\ Loops \notin Ids /\ Index(0) = 0 /\ 0 \notin Indices /\ Loops # 0
         /\ nodes # << >> => RootIndex \in Indices /\ Size > 0
<1>1. nodes \in Seq(Ids) /\ map \in [Ids -> 0 .. Size] /\ Size \in Nat
  BY DEF HeapFed, Size
<1>2. \A i \in Indices : nodes[i] \in Ids /\ map[nodes[i]] # 0
  <2>1. \A i \in 1 .. Len(nodes) : nodes[i] \in Ids
    BY <1>1, ElementOfSeq
  <2> QED BY <2>1 DEF HeapFed, Indices, Size
<1>3. 0 \notin Ids /\ Loops \notin Ids /\ Loops # 0
  BY HeapAssumption DEF Loops
<1>4. \A x : Index(x) # 0 => Index(x) \in Indices /\ nodes[Index(x)] = x /\ x \in Ids
  <2> SUFFICES ASSUME NEW x, Index(x) # 0 PROVE Index(x) \in Indices /\ nodes[Index(x)] = x /\ x \in Ids
    OBVIOUS
  <2>1. x \in Ids /\ Index(x) = map[x]
    BY DEF Index
  <2>2. map[x] \in 1 .. Size
    BY <2>1, <1>1
  <2>3. nodes[map[x]] = x
    BY <2>1 DEF HeapFed
  <2> QED BY <2>1, <2>2, <2>3 DEF Indices
<1>5. \A x : Index(x) \in 0 .. Size
  BY <1>1 DEF Index
<1>6. nodes # << >> => RootIndex \in Indices /\ Size > 0
  <2> SUFFICES ASSUME nodes # << >> PROVE RootIndex \in Indices /\ Size > 0
    OBVIOUS
  <2>1. Size > 0
    BY <1>1, EmptySeq DEF Size
  <2>2. 1 \in Indices
    BY <2>1, <1>1 DEF Indices
  <2> QED BY <2>1, <2>2, <1>4 DEF RootIndex
<1>7. \A i \in Indices : Index(nodes[i]) # 0
  BY <1>2 DEF Index
<1>8. Index(0) = 0 /\ 0 \notin Indices /\ Indices = 1 .. Size
  BY <1>3, <1>1 DEF Index, Indices
<1> QED BY <1>1, <1>2, <1>3, <1>4, <1>5, <1>6, <1>7, <1>8

\* What an id leads to is led to by its own id.
LEMMA LedTo ==
  ASSUME HeapFed, NEW dom, NEW x, Index(x) # 0, dom[Index(x)] # 0
  PROVE  Index(x) \in Led(dom) /\ nodes[Index(x)] = x
BY Indexed DEF Led, Had

\* One step of two fingers that have not met.
LEMMA ClimbStep ==
  ASSUME HeapFed, nodes # << >>, NEW dist, Distanced(dist), NEW dom, NEW ord, Headed(dist, dom, ord),
         NEW f \in Led(dom), NEW g \in Led(dom), f # g
  PROVE  \E h \in Led(dom), j \in Led(dom) :
           /\ Climb(dist, dom, <<f, g>>) = <<h, j>>
           /\ ord[h] + ord[j] < ord[f] + ord[g]
           /\ \A U : UpClosed(dom, U) => (f \in U => h \in U) /\ (g \in U => j \in U)
           /\ \A S : FingersStay(dist, dom, S) /\ f \in S /\ g \in S => h \in S /\ j \in S
<1> DEFINE a == Index(dom[f])
           b == Index(dom[g])
<1>1. /\ f \in Indices /\ g \in Indices /\ f # 0 /\ g # 0 /\ dom[f] # 0 /\ dom[g] # 0
      /\ Index(nodes[f]) = f /\ Index(nodes[g]) = g /\ RootIndex \in Indices
  BY Indexed DEF Led, Had
<1>2. /\ dist[f] \in 0 .. Unreached /\ dist[g] \in 0 .. Unreached /\ Unreached \in Nat
      /\ ord[f] \in Nat /\ ord[g] \in Nat
  BY <1>1, HeapAssumption DEF Distanced, Headed
<1>3. /\ a \in Led(dom) /\ b \in Led(dom)
      /\ a \in Indices /\ b \in Indices /\ ord[a] \in Nat /\ ord[b] \in Nat
      /\ f # RootIndex => ord[a] < ord[f]
      /\ g # RootIndex => ord[b] < ord[g]
      /\ f = RootIndex => a = f
      /\ g = RootIndex => b = g
  <2>1. f = RootIndex => a = f
    BY <1>1 DEF Headed
  <2>2. g = RootIndex => b = g
    BY <1>1 DEF Headed
  <2>3. f # RootIndex => a \in Led(dom) /\ ord[a] < ord[f]
    BY <1>1 DEF Headed, Led
  <2>4. g # RootIndex => b \in Led(dom) /\ ord[b] < ord[g]
    BY <1>1 DEF Headed, Led
  <2>5. a \in Led(dom) /\ b \in Led(dom)
    BY <2>1, <2>2, <2>3, <2>4
  <2>6. a \in Indices /\ b \in Indices
    BY <2>5 DEF Led, Had
  <2>7. ord[a] \in Nat /\ ord[b] \in Nat
    BY <2>6 DEF Headed
  <2> QED BY <2>1, <2>2, <2>3, <2>4, <2>5, <2>6, <2>7
<1>4. f = RootIndex => dist[g] >= dist[f]
  <2>1. SUFFICES ASSUME f = RootIndex, g # RootIndex PROVE dist[g] >= dist[f]
    OBVIOUS
  <2>2. dist[g] # Unreached
    BY <1>1, <2>1 DEF Headed, Led
  <2>3. dist[f] = 0
    BY <1>1, <2>1, <2>2 DEF Distanced
  <2> QED BY <2>3, <1>2
<1>5. g = RootIndex => dist[f] >= dist[g]
  <2>1. SUFFICES ASSUME g = RootIndex, f # RootIndex PROVE dist[f] >= dist[g]
    OBVIOUS
  <2>2. dist[f] # Unreached
    BY <1>1, <2>1 DEF Headed, Led
  <2>3. dist[g] = 0
    BY <1>1, <2>1, <2>2 DEF Distanced
  <2> QED BY <2>3, <1>2
<1>6. Climb(dist, dom, <<f, g>>) = IF dist[f] > dist[g] THEN <<a, g>>
                                   ELSE IF dist[g] > dist[f] THEN <<f, b>> ELSE <<a, b>>
  BY <1>1 DEF Climb
<1>7. \A U : UpClosed(dom, U) => (f \in U => a \in U) /\ (g \in U => b \in U)
  BY DEF UpClosed
<1>8. \A S : FingersStay(dist, dom, S) /\ f \in S /\ g \in S =>
        (dist[f] >= dist[g] => a \in S) /\ (dist[g] >= dist[f] => b \in S)
  BY DEF FingersStay
<1> HIDE DEF a, b
<1>9. CASE dist[f] > dist[g]
  <2>1. f # RootIndex /\ Climb(dist, dom, <<f, g>>) = <<a, g>> /\ dist[f] >= dist[g]
    BY <1>9, <1>4, <1>2, <1>6
  <2>2. ord[a] + ord[g] < ord[f] + ord[g]
    BY <2>1, <1>2, <1>3
  <2> QED BY <2>1, <2>2, <1>3, <1>7, <1>8
<1>10. CASE dist[g] > dist[f]
  <2>1. g # RootIndex /\ Climb(dist, dom, <<f, g>>) = <<f, b>> /\ dist[g] >= dist[f]
    BY <1>10, <1>5, <1>2, <1>6
  <2>2. ord[f] + ord[b] < ord[f] + ord[g]
    BY <2>1, <1>2, <1>3
  <2> QED BY <2>1, <2>2, <1>3, <1>7, <1>8
<1>11. CASE ~ (dist[f] > dist[g]) /\ ~ (dist[g] > dist[f])
  <2>1. Climb(dist, dom, <<f, g>>) = <<a, b>> /\ dist[f] >= dist[g] /\ dist[g] >= dist[f]
    BY <1>11, <1>2, <1>6
  <2>2. ord[a] + ord[b] < ord[f] + ord[g]
    BY <1>1, <1>2, <1>3
  <2> QED BY <2>1, <2>2, <1>3, <1>7, <1>8
<1> QED BY <1>9, <1>10, <1>11

\* The fingers meet, at a node that every way up from either has on it and that
\* no set leaves out that they stay in.
LEMMA MeetEnds ==
  ASSUME HeapFed, nodes # << >>, NEW dist, Distanced(dist), NEW dom, NEW ord, Headed(dist, dom, ord),
         NEW x, NEW y, Index(x) \in Led(dom), Index(y) \in Led(dom)
  PROVE  \E c \in Led(dom) :
           /\ Meet(dist, dom, x, y) = nodes[c]
           /\ \A U : UpClosed(dom, U) /\ (Index(x) \in U \/ Index(y) \in U) => c \in U
           /\ \A S : FingersStay(dist, dom, S) /\ Index(x) \in S /\ Index(y) \in S => c \in S
<1> DEFINE C == Led(dom)
           n == Size * Size
           at0 == <<Index(x), Index(y)>>
           step == [k \in 1 .. n |-> [a \in (0 .. Size) \X (0 .. Size) |-> Climb(dist, dom, a)]]
           X == {a \in C \X C :
                   /\ \A U : UpClosed(dom, U) =>
                        (Index(x) \in U => a[1] \in U) /\ (Index(y) \in U => a[2] \in U)
                   /\ \A S : FingersStay(dist, dom, S) /\ Index(x) \in S /\ Index(y) \in S =>
                        a[1] \in S /\ a[2] \in S}
           total == ord[Index(x)] + ord[Index(y)]
           Good == {p \in (0 .. n) \X X : p[2][1] = p[2][2] \/ ord[p[2][1]] + ord[p[2][2]] + p[1] <= total}
<1>1. Size \in Nat /\ Size > 0 /\ n \in Nat /\ 0 \in 0 .. n /\ n \in 0 .. n /\ n > Size - 1 + Size - 1
  <2>1. Size \in Nat /\ Size > 0
    BY Indexed
  <2>2. n >= Size /\ n \in Nat
    BY <2>1
  <2>3. Size = 1 \/ Size >= 2
    BY <2>1
  <2>4. Size >= 2 => n >= 2 * Size
    BY <2>1
  <2>5. Size = 1 => n = 1
    OBVIOUS
  <2> HIDE DEF n
  <2> QED BY <2>1, <2>2, <2>3, <2>4, <2>5
<1>2. C \subseteq Indices /\ 0 \notin C /\ C \subseteq 0 .. Size
  BY Indexed DEF Led, Had
<1>3. \A f \in C : ord[f] \in Nat /\ ord[f] <= Size - 1
  <2> TAKE f \in C
  <2>1. f \in Indices /\ f \in Had(dom)
    BY DEF Led, Had
  <2>2. ord[f] \in Nat /\ ord[f] < Cardinality(Had(dom))
    BY <2>1 DEF Headed
  <2>3. Cardinality(Had(dom)) \in Nat /\ Cardinality(Had(dom)) <= Size
    <3>1. IsFiniteSet(1 .. Size) /\ Cardinality(1 .. Size) = Size
      BY <1>1, UpTo
    <3>2. Had(dom) \subseteq 1 .. Size
      BY Indexed DEF Had
    <3> QED BY <3>1, <3>2, FS_Subset, FS_CardinalityType
  <2> QED BY <2>2, <2>3, <1>1
<1>4. at0 \in X /\ total \in Nat
  BY <1>3
<1> HIDE DEF X, C
<1>5. X \subseteq C \X C
  BY DEF X
<1>6. <<0, at0>> \in Good
  <2>1. at0[1] = Index(x) /\ at0[2] = Index(y)
    OBVIOUS
  <2>2. ord[at0[1]] + ord[at0[2]] + 0 <= total
    BY <2>1, <1>4
  <2> HIDE DEF at0, total
  <2> QED BY <1>1, <1>4, <2>2
<1>7. \A k \in 1 .. n : \A v : <<k - 1, v>> \in Good => <<k, step[k][v]>> \in Good
  <2> SUFFICES ASSUME NEW k \in 1 .. n, NEW v, <<k - 1, v>> \in Good
               PROVE  <<k, step[k][v]>> \in Good
    OBVIOUS
  <2>1. /\ v \in X /\ v[1] \in C /\ v[2] \in C /\ v = <<v[1], v[2]>> /\ v \in (0 .. Size) \X (0 .. Size)
        /\ k \in 0 .. n /\ (v[1] = v[2] \/ ord[v[1]] + ord[v[2]] + (k - 1) <= total)
    <3>1. v \in X /\ (v[1] = v[2] \/ ord[v[1]] + ord[v[2]] + (k - 1) <= total)
      OBVIOUS
    <3>2. v \in C \X C
      BY <3>1, <1>5
    <3>3. k \in 0 .. n
      <4> HIDE DEF n
      <4> QED BY <1>1
    <3>4. v[1] \in C /\ v[2] \in C /\ v = <<v[1], v[2]>>
      BY ONLY <3>2
    <3>5. v \in (0 .. Size) \X (0 .. Size)
      BY ONLY <3>2, <1>2
    <3> HIDE DEF Good, total, n
    <3> QED BY ONLY <3>1, <3>3, <3>4, <3>5
  <2>2. step[k][v] = Climb(dist, dom, v)
    BY <2>1
  <2>3. CASE v[1] = v[2]
    <3>1. Climb(dist, dom, v) = v
      BY <2>3 DEF Climb
    <3> HIDE DEF step
    <3> QED BY <2>1, <2>2, <2>3, <3>1
  <2>4. CASE v[1] # v[2]
    <3>1. PICK h \in C, j \in C :
            /\ Climb(dist, dom, <<v[1], v[2]>>) = <<h, j>>
            /\ ord[h] + ord[j] < ord[v[1]] + ord[v[2]]
            /\ \A U : UpClosed(dom, U) => (v[1] \in U => h \in U) /\ (v[2] \in U => j \in U)
            /\ \A S : FingersStay(dist, dom, S) /\ v[1] \in S /\ v[2] \in S => h \in S /\ j \in S
      BY <2>1, <2>4, ClimbStep DEF C
    <3>2. <<h, j>> \in X
      BY <2>1, <3>1 DEF X
    <3>3. ord[h] + ord[j] + k <= total
      <4>1. ord[h] \in Nat /\ ord[j] \in Nat /\ ord[v[1]] \in Nat /\ ord[v[2]] \in Nat
        BY <1>3, <2>1, <3>1
      <4> HIDE DEF total, n
      <4>2. ord[v[1]] + ord[v[2]] + (k - 1) <= total /\ k \in 0 .. n
        BY <2>1, <2>4
      <4>3. ord[h] + ord[j] < ord[v[1]] + ord[v[2]]
        BY <3>1
      <4>4. total \in Nat /\ n \in Nat
        BY <1>1, <1>4
      <4> QED BY ONLY <4>1, <4>2, <4>3, <4>4
    <3> DEFINE w == <<h, j>>
    <3>4. w[1] = h /\ w[2] = j /\ step[k][v] = w
      BY <2>1, <2>2, <3>1
    <3> HIDE DEF w, step, total
    <3> QED BY <3>2, <3>3, <3>4, <2>1 DEF w
  <2> QED BY <2>3, <2>4
<1>8. <<n, Looped(n, at0, step)>> \in Good
  <2> HIDE DEF n, at0, step, Good
  <2> QED BY ONLY <1>1, <1>6, <1>7, LoopKeeps
<1> DEFINE at == Looped(n, at0, step)
<1>9. Meet(dist, dom, x, y) = IF at[1] = 0 THEN 0 ELSE IF at[2] = 0 \/ at[1] = at[2] THEN nodes[at[1]] ELSE Loops
  BY DEF Meet
<1> HIDE DEF at
<1>10. at \in X /\ (at[1] = at[2] \/ ord[at[1]] + ord[at[2]] + n <= total)
  BY <1>8 DEF at
<1>11. at[1] \in C /\ at[2] \in C
  BY <1>10, <1>5
<1>12. at[1] = at[2]
  <2>1. SUFFICES ASSUME ord[at[1]] + ord[at[2]] + n <= total PROVE FALSE
    BY <1>10
  <2>2. ord[at[1]] \in Nat /\ ord[at[2]] \in Nat
    BY <1>3, <1>11
  <2>3. ord[Index(x)] \in Nat /\ ord[Index(y)] \in Nat /\ ord[Index(x)] <= Size - 1 /\ ord[Index(y)] <= Size - 1
    BY <1>3 DEF C
  <2> HIDE DEF n
  <2> QED BY <2>1, <2>2, <2>3, <1>1
<1>13. Meet(dist, dom, x, y) = nodes[at[1]]
  BY <1>9, <1>11, <1>12, <1>2
<1>14. /\ \A U : UpClosed(dom, U) /\ (Index(x) \in U \/ Index(y) \in U) => at[1] \in U
       /\ \A S : FingersStay(dist, dom, S) /\ Index(x) \in S /\ Index(y) \in S => at[1] \in S
  BY <1>10, <1>12 DEF X
<1> QED BY <1>11, <1>13, <1>14 DEF C

\* The retainers of a node that have a dominator.
Sources(dom, i) == {Index(retainers[i][k]) : k \in 1 .. Len(retainers[i])} \cap Led(dom)

\* The new dominator: none without such a retainer, and otherwise on every way
\* up from one of them, and in every set that holds them all and that two
\* fingers stay in.
LEMMA NewDominatorIs ==
  ASSUME HeapFed, nodes # << >>, NEW dist, Distanced(dist), NEW dom, NEW ord, Headed(dist, dom, ord),
         NEW i \in Indices
  PROVE  /\ Sources(dom, i) = {} => NewDominator(dist, dom, i) = 0
         /\ Sources(dom, i) # {} => \E c \in Led(dom) :
              /\ NewDominator(dist, dom, i) = nodes[c]
              /\ \A U : UpClosed(dom, U) /\ (\E r \in Sources(dom, i) : r \in U) => c \in U
              /\ \A S : FingersStay(dist, dom, S) /\ Sources(dom, i) \subseteq S => c \in S
<1> DEFINE from == retainers[i]
           n == Len(from)
           Processed(k) == Index(from[k]) # 0 /\ dom[Index(from[k])] # 0
           first == {k \in DOMAIN from : Processed(k) /\ \A m \in 1 .. k - 1 : ~ Processed(m)}
           start == IF first = {} THEN 0 ELSE from[CHOOSE k \in first : TRUE]
           step == [k \in 1 .. n |-> [idom \in Dominator |->
                      IF Processed(k) /\ from[k] # idom /\ idom # Loops
                      THEN Meet(dist, dom, from[k], idom) ELSE idom]]
<1>1. NewDominator(dist, dom, i) = Looped(n, start, step)
  BY DEF NewDominator
<1>2. from \in Seq(Ids) /\ n \in Nat /\ DOMAIN from = 1 .. n /\ 0 \in 0 .. n /\ n \in 0 .. n
  BY DEF HeapFed
<1>3. \A k \in 1 .. n : Processed(k) => Index(from[k]) \in Led(dom) /\ Index(from[k]) \in Sources(dom, i)
  BY LedTo DEF Sources
<1>4. \A r \in Sources(dom, i) : \E k \in 1 .. n : r = Index(from[k]) /\ Processed(k)
  BY Indexed DEF Sources, Led, Had
<1> HIDE DEF from, n, start, step, Processed
<1>5. ASSUME Sources(dom, i) = {} PROVE NewDominator(dist, dom, i) = 0
  <2> DEFINE Good == {p \in (0 .. n) \X {0} : TRUE}
  <2>1. \A k \in 1 .. n : ~ Processed(k)
    BY <1>5, <1>3
  <2>2. start = 0
    BY <2>1, <1>2 DEF start
  <2>3. <<0, start>> \in Good
    BY <2>2, <1>2
  <2>4. \A k \in 1 .. n : \A v : <<k - 1, v>> \in Good => <<k, step[k][v]>> \in Good
    <3> SUFFICES ASSUME NEW k \in 1 .. n, NEW v, <<k - 1, v>> \in Good PROVE <<k, step[k][v]>> \in Good
      OBVIOUS
    <3>1. v = 0 /\ 0 \in Dominator
      BY DEF Dominator
    <3>2. step[k][v] = 0
      BY <2>1, <3>1 DEF step
    <3>3. k \in 0 .. n
      BY <1>2
    <3> QED BY <3>2, <3>3
  <2>5. <<n, Looped(n, start, step)>> \in Good
    <3> HIDE DEF Good
    <3> QED BY ONLY <1>2, <2>3, <2>4, LoopKeeps
  <2> QED BY <2>5, <1>1
<1>6. ASSUME Sources(dom, i) # {}
      PROVE  \E c \in Led(dom) :
              /\ NewDominator(dist, dom, i) = nodes[c]
              /\ \A U : UpClosed(dom, U) /\ (\E r \in Sources(dom, i) : r \in U) => c \in U
              /\ \A S : FingersStay(dist, dom, S) /\ Sources(dom, i) \subseteq S => c \in S
  <2>1. PICK f \in 1 .. n : Processed(f) /\ start = from[f]
    <3>1. PICK k \in 1 .. n : Processed(k)
      BY <1>6, <1>4
    <3> DEFINE P == {m \in 1 .. n : Processed(m)}
    <3>2. P \subseteq Nat /\ k \in P
      BY <3>1, <1>2
    <3>3. PICK m \in P : \A j \in P : m <= j
      <4> HIDE DEF P
      <4> QED BY <3>2, LeastOf
    <3>4. m \in first
      <4>1. m \in 1 .. n /\ Processed(m)
        BY <3>3
      <4>2. \A j \in 1 .. m - 1 : ~ Processed(j)
        <5> SUFFICES ASSUME NEW j \in 1 .. m - 1, Processed(j) PROVE FALSE
          OBVIOUS
        <5>1. j \in 1 .. n /\ j < m
          BY <4>1, <1>2
        <5> QED BY <5>1, <3>3, <4>1
      <4> QED BY <4>1, <4>2, <1>2
    <3>5. \A k2 \in first : k2 \in 1 .. n /\ Processed(k2)
      BY <1>2
    <3> HIDE DEF first
    <3> QED BY <3>4, <3>5 DEF start
  <2>2. Index(from[f]) \in Led(dom)
    BY <2>1, <1>3
  <2> DEFINE Meets(k, c) ==
               /\ \A U : UpClosed(dom, U) =>
                    /\ Index(from[f]) \in U => c \in U
                    /\ \A m \in 1 .. k : Processed(m) /\ Index(from[m]) \in U => c \in U
               /\ \A S : FingersStay(dist, dom, S) /\ Sources(dom, i) \subseteq S => c \in S
             Good == {p \in (0 .. n) \X Ids : \E c \in Led(dom) : p[2] = nodes[c] /\ Meets(p[1], c)}
  <2>3. \A c \in Led(dom) : nodes[c] \in Ids /\ nodes[c] \in Dominator /\ nodes[c] # Loops /\ Index(nodes[c]) = c
    BY Indexed DEF Led, Had, Dominator
  <2>4. <<0, start>> \in Good
    <3>1. start = nodes[Index(from[f])] /\ start \in Ids
      BY <2>1, <2>2, Indexed DEF Processed
    <3>2. Meets(0, Index(from[f]))
      BY <2>1, <1>3
    <3> HIDE DEF Meets
    <3> QED BY <3>1, <3>2, <2>2, <1>2
  <2>5. \A k \in 1 .. n : \A v : <<k - 1, v>> \in Good => <<k, step[k][v]>> \in Good
    <3> SUFFICES ASSUME NEW k \in 1 .. n, NEW v, <<k - 1, v>> \in Good PROVE <<k, step[k][v]>> \in Good
      OBVIOUS
    <3>1. PICK c \in Led(dom) : v = nodes[c] /\ Meets(k - 1, c)
      OBVIOUS
    <3>2. k \in 0 .. n /\ \A m \in 1 .. k : m = k \/ m \in 1 .. k - 1
      BY <1>2
    <3>3. v \in Dominator /\ v # Loops /\ Index(v) = c /\ v \in Ids
      BY <3>1, <2>3
    <3>4. step[k][v] = IF Processed(k) /\ from[k] # v THEN Meet(dist, dom, from[k], v) ELSE v
      BY <3>3 DEF step
    <3>5. ASSUME NEW d \in Led(dom), step[k][v] = nodes[d], Meets(k, d) PROVE <<k, step[k][v]>> \in Good
      <4>1. step[k][v] \in Ids
        BY <3>5, <2>3
      <4> HIDE DEF Meets
      <4> QED BY <3>5, <4>1, <3>2
    <3>6. CASE ~ Processed(k)
      <4>1. Meets(k, c)
        BY <3>1, <3>2, <3>6
      <4> QED BY <4>1, <3>1, <3>4, <3>5, <3>6
    <3>7. CASE Processed(k) /\ from[k] = v
      <4>1. Meets(k, c)
        BY <3>1, <3>2, <3>3, <3>7
      <4> QED BY <4>1, <3>1, <3>4, <3>5, <3>7
    <3>8. CASE Processed(k) /\ from[k] # v
      <4>1. Index(from[k]) \in Led(dom) /\ Index(from[k]) \in Sources(dom, i)
        BY <3>8, <1>3
      <4>2. PICK d \in Led(dom) :
           /\ Meet(dist, dom, from[k], v) = nodes[d]
           /\ \A U : UpClosed(dom, U) /\ (Index(from[k]) \in U \/ Index(v) \in U) => d \in U
           /\ \A S : FingersStay(dist, dom, S) /\ Index(from[k]) \in S /\ Index(v) \in S => d \in S
        BY <4>1, <3>3, MeetEnds
      <4>3. Meets(k, d)
        BY <3>1, <3>2, <3>3, <4>1, <4>2
      <4> HIDE DEF Meets, Good
      <4> QED BY <4>2, <4>3, <3>4, <3>5, <3>8
    <3> QED BY <3>6, <3>7, <3>8
  <2>6. <<n, Looped(n, start, step)>> \in Good
    <3> HIDE DEF Good
    <3> QED BY ONLY <1>2, <2>4, <2>5, LoopKeeps
  <2>7. PICK c \in Led(dom) : NewDominator(dist, dom, i) = nodes[c] /\ Meets(n, c)
    BY <2>6, <1>1
  <2>8. \A U : UpClosed(dom, U) /\ (\E r \in Sources(dom, i) : r \in U) => c \in U
    BY <2>7, <1>4
  <2> QED BY <2>7, <2>8
<1> QED BY <1>5, <1>6

\* One turn of a pass.
Turned(dist, dom, i) ==
  IF i = RootIndex \/ dist[i] = Unreached THEN dom
  ELSE [dom EXCEPT ![i] = NewDominator(dist, dom, i)]

\* The nodes that had their first dominator no later than one of them.
LEMMA EarlierUpClosed ==
  ASSUME HeapFed, nodes # << >>, NEW dist, NEW dom, NEW ord, Headed(dist, dom, ord), NEW most \in Nat
  PROVE  UpClosed(dom, {x \in Led(dom) : ord[x] <= most})
<1> SUFFICES ASSUME NEW x \in Led(dom), ord[x] <= most
             PROVE  Index(dom[x]) \in Led(dom) /\ ord[Index(dom[x])] <= most
  BY DEF UpClosed
<1>1. CASE x = RootIndex
  BY <1>1 DEF Headed, Led
<1>2. CASE x # RootIndex
  <2>1. Index(dom[x]) \in Led(dom) /\ ord[Index(dom[x])] < ord[x]
    BY <1>2 DEF Headed, Led
  <2>2. ord[x] \in Nat /\ ord[Index(dom[x])] \in Nat
    BY <2>1 DEF Headed, Led, Had
  <2> QED BY <2>1, <2>2
<1> QED BY <1>1, <1>2

\* A turn leaves the dominators as they should be.
LEMMA TurnKept ==
  ASSUME HeapFed, nodes # << >>, NEW dist, Distanced(dist), NEW dom, NEW ord, Headed(dist, dom, ord),
         NEW i \in Indices
  PROVE  \E ord1 : Headed(dist, Turned(dist, dom, i), ord1)
<1>1. CASE i = RootIndex \/ dist[i] = Unreached
  BY <1>1 DEF Turned
<1>2. CASE ~ (i = RootIndex \/ dist[i] = Unreached)
  <2> DEFINE d1 == Turned(dist, dom, i)
             new == NewDominator(dist, dom, i)
             N == Cardinality(Had(dom))
  <2>1. d1 = [dom EXCEPT ![i] = new] /\ i # RootIndex /\ dist[i] # Unreached
    BY <1>2 DEF Turned
  <2>2. /\ dom \in [Indices -> Ids \union {0}] /\ ord \in [Indices -> Nat]
        /\ dom[RootIndex] = nodes[RootIndex] /\ RootIndex \in Indices
        /\ \A j \in Indices : nodes[j] \in Ids
    BY Indexed DEF Headed
  <2> HIDE DEF d1, new
  <2>3. N \in Nat /\ IsFiniteSet(Had(dom))
    <3>1. IsFiniteSet(1 .. Size) /\ Had(dom) \subseteq 1 .. Size
      BY Indexed, UpTo DEF Had
    <3> QED BY <3>1, FS_Subset, FS_CardinalityType
  <2> HIDE DEF N
  <2>4. ASSUME new \in Ids \union {0}
        PROVE  d1 \in [Indices -> Ids \union {0}] /\ d1[i] = new /\ \A j \in Indices : j # i => d1[j] = dom[j]
    BY <2>1, <2>2, <2>4
  <2>5. CASE Sources(dom, i) = {}
    <3>1. new = 0
      BY <2>5, NewDominatorIs DEF new
    <3>2. i \notin Had(dom)
      <4> SUFFICES ASSUME i \in Had(dom) PROVE FALSE
        OBVIOUS
      <4>1. \E k \in 1 .. Len(retainers[i]) : Index(retainers[i][k]) \in Led(dom)
        BY <2>1 DEF Headed
      <4> QED BY <4>1, <2>5 DEF Sources
    <3>3. dom[i] = 0
      BY <3>2 DEF Had
    <3>4. d1 = dom
      BY <3>1, <3>3, <2>1, <2>2
    <3> QED BY <3>4 DEF d1
  <2>6. CASE Sources(dom, i) # {}
    <3>1. PICK c \in Led(dom) :
           /\ new = nodes[c]
           /\ \A U : UpClosed(dom, U) /\ (\E r \in Sources(dom, i) : r \in U) => c \in U
      BY <2>6, NewDominatorIs DEF new
    <3>2. /\ c \in Indices /\ Index(new) = c /\ new \in Ids /\ new # 0
      BY <3>1, Indexed DEF Led, Had
    <3>3. d1 \in [Indices -> Ids \union {0}] /\ d1[i] = new /\ \A j \in Indices : j # i => d1[j] = dom[j]
      BY <2>4, <3>2
    <3>4. Had(d1) = Had(dom) \union {i}
      BY <3>2, <3>3 DEF Had
    <3>5. Led(dom) \subseteq Led(d1)
      BY <3>4 DEF Led
    <3>6. \A r \in Sources(dom, i) : r \in Indices /\ ord[r] \in Nat /\ ord[c] <= ord[r]
      <4> TAKE r \in Sources(dom, i)
      <4>1. r \in Led(dom) /\ r \in Indices /\ ord[r] \in Nat
        BY <2>2 DEF Sources, Led, Had
      <4> DEFINE U == {x \in Led(dom) : ord[x] <= ord[r]}
      <4>2. UpClosed(dom, U)
        BY <4>1, EarlierUpClosed
      <4>3. r \in U
        BY <4>1
      <4> HIDE DEF U
      <4>4. c \in U
        BY <3>1, <4>2, <4>3
      <4> QED BY <4>1, <4>4 DEF U
    <3>7. \A j \in Had(dom) \ {RootIndex, i} :
            /\ dist[j] # Unreached
            /\ Index(d1[j]) \in Led(d1) /\ ord[Index(d1[j])] < ord[j]
            /\ \E k \in 1 .. Len(retainers[j]) :
                 Index(retainers[j][k]) \in Led(d1) /\ ord[Index(retainers[j][k])] < ord[j]
      <4> TAKE j \in Had(dom) \ {RootIndex, i}
      <4>1. d1[j] = dom[j]
        BY <3>3 DEF Had
      <4>2. /\ dist[j] # Unreached
            /\ Index(dom[j]) \in Led(dom) /\ ord[Index(dom[j])] < ord[j]
            /\ \E k \in 1 .. Len(retainers[j]) :
                 Index(retainers[j][k]) \in Led(dom) /\ ord[Index(retainers[j][k])] < ord[j]
        BY DEF Headed
      <4> QED BY <4>1, <4>2, <3>5
    <3>8. d1[RootIndex] = nodes[RootIndex]
      BY <3>3, <2>1, <2>2
    <3>9. CASE i \in Had(dom)
      <4>1. Had(d1) = Had(dom) /\ Led(d1) = Led(dom)
        BY <3>9, <3>4 DEF Led
      <4>2. PICK k \in 1 .. Len(retainers[i]) :
              Index(retainers[i][k]) \in Led(dom) /\ ord[Index(retainers[i][k])] < ord[i]
        BY <3>9, <2>1 DEF Headed
      <4>3. Index(retainers[i][k]) \in Sources(dom, i)
        BY <4>2 DEF Sources
      <4>4. ord[c] < ord[i]
        BY <4>2, <4>3, <3>6, <3>2, <2>2
      <4>5. \A j \in Had(d1) : ord[j] < Cardinality(Had(d1))
        BY <4>1 DEF Headed
      <4>6. /\ dist[i] # Unreached
            /\ Index(d1[i]) \in Led(d1) /\ ord[Index(d1[i])] < ord[i]
            /\ Index(retainers[i][k]) \in Led(d1) /\ ord[Index(retainers[i][k])] < ord[i]
        BY <4>1, <4>2, <4>4, <2>1, <3>1, <3>2, <3>3
      <4>7. Headed(dist, d1, ord)
        BY <2>2, <3>3, <3>7, <3>8, <4>1, <4>5, <4>6 DEF Headed
      <4> QED BY <4>7 DEF d1
    <3>10. CASE i \notin Had(dom)
      <4> DEFINE ord1 == [ord EXCEPT ![i] = N]
      <4>1. ord1 \in [Indices -> Nat] /\ ord1[i] = N /\ \A j \in Indices : j # i => ord1[j] = ord[j]
        BY <2>2, <2>3
      <4> HIDE DEF ord1
      <4>2. Cardinality(Had(d1)) = N + 1
        BY <3>4, <3>10, <2>3, FS_AddElement DEF N
      <4>3. \A j \in Had(dom) : j \in Indices /\ j # i /\ ord1[j] = ord[j] /\ ord1[j] < N
        BY <4>1, <3>10 DEF Had, Headed, N
      <4>4. \A j \in Led(dom) : ord1[j] = ord[j] /\ ord1[j] < N
        BY <4>3 DEF Led
      <4>5. \A j \in Had(d1) : ord1[j] < Cardinality(Had(d1))
        <5> TAKE j \in Had(d1)
        <5>1. ord1[j] \in Nat /\ (ord1[j] < N \/ ord1[j] = N)
          BY <3>4, <4>1, <4>3 DEF Had
        <5> QED BY <5>1, <4>2, <2>3
      <4>6. \A j \in Had(d1) \ {RootIndex} :
            /\ dist[j] # Unreached
            /\ Index(d1[j]) \in Led(d1) /\ ord1[Index(d1[j])] < ord1[j]
            /\ \E k \in 1 .. Len(retainers[j]) :
                 Index(retainers[j][k]) \in Led(d1) /\ ord1[Index(retainers[j][k])] < ord1[j]
        <5> TAKE j \in Had(d1) \ {RootIndex}
        <5>1. CASE j = i
          <6>1. PICK r \in Sources(dom, i) : TRUE
            BY <2>6
          <6>2. PICK k \in 1 .. Len(retainers[i]) : r = Index(retainers[i][k]) /\ r \in Led(dom)
            BY <6>1 DEF Sources
          <6>3. Index(retainers[i][k]) \in Led(d1) /\ ord1[Index(retainers[i][k])] < ord1[i]
            BY <6>2, <3>5, <4>1, <4>4
          <6>4. Index(d1[i]) \in Led(d1) /\ ord1[Index(d1[i])] < ord1[i]
            BY <3>1, <3>2, <3>3, <3>5, <4>1, <4>4
          <6> QED BY <5>1, <6>3, <6>4, <2>1
        <5>2. CASE j # i
          <6>1. j \in Had(dom) \ {RootIndex, i}
            BY <5>2, <3>4
          <6>2. dom[j] = d1[j]
            BY <6>1, <3>3 DEF Had
          <6>3. /\ dist[j] # Unreached
                /\ Index(dom[j]) \in Led(dom) /\ ord[Index(dom[j])] < ord[j]
                /\ \E k \in 1 .. Len(retainers[j]) :
                     Index(retainers[j][k]) \in Led(dom) /\ ord[Index(retainers[j][k])] < ord[j]
            BY <6>1 DEF Headed
          <6>4. ord1[j] = ord[j]
            BY <6>1, <4>3
          <6> QED BY <6>2, <6>3, <6>4, <3>5, <4>4
        <5> QED BY <5>1, <5>2
      <4>7. Headed(dist, d1, ord1)
        BY <3>3, <3>8, <4>1, <4>5, <4>6 DEF Headed
      <4> QED BY <4>7 DEF d1
    <3> QED BY <3>9, <3>10
  <2> QED BY <2>5, <2>6
<1> QED BY <1>1, <1>2

\* A set of dominators that no turn leaves, no pass does.
LEMMA PassKeeps ==
  ASSUME HeapFed, nodes # << >>, NEW dist, Distanced(dist), NEW K,
         \A d \in K, i \in Indices : \A ord : Headed(dist, d, ord) => Turned(dist, d, i) \in K,
         NEW dom \in K, NEW ord0, Headed(dist, dom, ord0)
  PROVE  Pass(dist, dom) \in K /\ \E ord : Headed(dist, Pass(dist, dom), ord)
<1> DEFINE step == [i \in Indices |-> [d \in Doms |->
                      IF i = RootIndex \/ dist[i] = Unreached THEN d
                      ELSE [d EXCEPT ![i] = NewDominator(dist, d, i)]]]
           Good == {p \in (0 .. Size) \X K : \E ord : Headed(dist, p[2], ord)}
<1>1. Size \in Nat /\ Indices = 1 .. Size /\ 0 \in 0 .. Size
  BY Indexed
<1>2. \A d, ord : Headed(dist, d, ord) => d \in Doms
  BY DEF Headed, Doms, Dominator
<1>3. <<0, dom>> \in Good
  BY <1>1
<1>4. \A i \in 1 .. Size : \A v : <<i - 1, v>> \in Good => <<i, step[i][v]>> \in Good
  <2> SUFFICES ASSUME NEW i \in 1 .. Size, NEW v, <<i - 1, v>> \in Good PROVE <<i, step[i][v]>> \in Good
    OBVIOUS
  <2>1. v \in K /\ \E ord : Headed(dist, v, ord)
    OBVIOUS
  <2>2. v \in Doms /\ i \in Indices
    BY <2>1, <1>1, <1>2
  <2>3. step[i][v] = Turned(dist, v, i)
    BY <2>2 DEF Turned
  <2>4. Turned(dist, v, i) \in K /\ \E ord : Headed(dist, Turned(dist, v, i), ord)
    <3>1. PICK ord : Headed(dist, v, ord)
      BY <2>1
    <3>2. Turned(dist, v, i) \in K
      BY <2>1, <2>2, <3>1
    <3>3. \E ord1 : Headed(dist, Turned(dist, v, i), ord1)
      BY <2>2, <3>1, TurnKept
    <3> QED BY <3>2, <3>3
  <2>5. i \in 0 .. Size
    BY <1>1
  <2> HIDE DEF step
  <2> QED BY <2>3, <2>4, <2>5
<1>5. Pass(dist, dom) = Looped(Size, dom, step)
  BY DEF Pass
<1>6. <<Size, Looped(Size, dom, step)>> \in Good
  <2> HIDE DEF Good, step
  <2> QED BY ONLY <1>1, <1>3, <1>4, LoopKeeps
<1> QED BY <1>5, <1>6

\* The dominators before the first pass.
FirstDom == [i \in Indices |-> IF i = RootIndex THEN nodes[i] ELSE 0]

LEMMA FirstHeaded ==
  ASSUME HeapFed, nodes # << >>, NEW dist
  PROVE  \E ord : Headed(dist, FirstDom, ord)
<1> DEFINE ord == [i \in Indices |-> 0]
<1>1. RootIndex \in Indices /\ nodes[RootIndex] \in Ids /\ 0 \notin Ids
  BY Indexed
<1>2. /\ FirstDom \in [Indices -> Ids \union {0}] /\ FirstDom[RootIndex] = nodes[RootIndex]
      /\ Had(FirstDom) = {RootIndex}
  BY <1>1 DEF FirstDom, Had
<1>3. Cardinality(Had(FirstDom)) = 1
  BY <1>2, FS_Singleton
<1>4. Headed(dist, FirstDom, ord)
  BY <1>1, <1>2, <1>3 DEF Headed
<1> QED BY <1>4

\* The dominators that are handed out; where the passes ended by themselves one
\* more would change nothing.
LEMMA DominatorsKept ==
  ASSUME HeapFed, nodes # << >>, NEW dist, Distanced(dist), NEW K, FirstDom \in K,
         \A d \in K, i \in Indices : \A ord : Headed(dist, d, ord) => Turned(dist, d, i) \in K
  PROVE  LET last == Dominators(dist) IN
         /\ last.dom \in K /\ \E ord : Headed(dist, last.dom, ord)
         /\ ~ last.changed => Pass(dist, last.dom) = last.dom
<1> DEFINE States == [dom : Doms, changed : BOOLEAN]
           start == [dom |-> FirstDom, changed |-> TRUE]
           step == [k \in 1 .. IterationCap |-> [s \in States |-> IF s.changed THEN PassAgain(dist, s) ELSE s]]
           Good == {p \in (0 .. IterationCap) \X States :
                      /\ p[2].dom \in K /\ \E ord : Headed(dist, p[2].dom, ord)
                      /\ ~ p[2].changed => Pass(dist, p[2].dom) = p[2].dom}
<1>1. IterationCap \in Nat
  BY HeapAssumption
<1>2. \A d, ord : Headed(dist, d, ord) => d \in Doms
  BY DEF Headed, Doms, Dominator
<1>3. <<0, start>> \in Good
  <2>1. \E ord : Headed(dist, FirstDom, ord)
    BY FirstHeaded
  <2>2. FirstDom \in Doms
    BY <2>1, <1>2
  <2>3. start \in States /\ start.dom = FirstDom /\ start.changed
    BY <2>2
  <2>4. 0 \in 0 .. IterationCap
    BY <1>1
  <2> HIDE DEF start, States
  <2> QED BY <2>1, <2>3, <2>4
<1>4. \A k \in 1 .. IterationCap : \A v : <<k - 1, v>> \in Good => <<k, step[k][v]>> \in Good
  <2> SUFFICES ASSUME NEW k \in 1 .. IterationCap, NEW v, <<k - 1, v>> \in Good PROVE <<k, step[k][v]>> \in Good
    OBVIOUS
  <2>1. /\ v \in States /\ v.dom \in K /\ (\E ord : Headed(dist, v.dom, ord))
        /\ ~ v.changed => Pass(dist, v.dom) = v.dom
    OBVIOUS
  <2>2. k \in 0 .. IterationCap
    BY <1>1
  <2>3. step[k][v] = IF v.changed THEN PassAgain(dist, v) ELSE v
    BY <2>1
  <2>4. CASE ~ v.changed
    <3>1. step[k][v] = v
      BY <2>3, <2>4
    <3> HIDE DEF step, States
    <3> QED BY <2>1, <2>2, <3>1
  <2>5. CASE v.changed
    <3> DEFINE next == Pass(dist, v.dom)
               w == [dom |-> next, changed |-> next # v.dom]
    <3>1. next \in K /\ \E ord : Headed(dist, next, ord)
      BY <2>1, PassKeeps
    <3>2. next \in Doms
      BY <3>1, <1>2
    <3> HIDE DEF next
    <3>3. w \in States /\ w.dom = next /\ (w.changed <=> next # v.dom)
      BY <3>2
    <3>4. ~ w.changed => Pass(dist, w.dom) = w.dom
      BY <3>3 DEF next
    <3>5. step[k][v] = w
      BY <2>3, <2>5 DEF PassAgain, next
    <3> HIDE DEF w, step, States
    <3> QED BY <2>2, <3>1, <3>3, <3>4, <3>5
  <2> QED BY <2>4, <2>5
<1>5. Dominators(dist) = Looped(IterationCap, start, step)
  BY DEF Dominators, FirstDom
<1>6. <<IterationCap, Looped(IterationCap, start, step)>> \in Good
  <2> HIDE DEF Good, step, start
  <2> QED BY ONLY <1>1, <1>3, <1>4, LoopKeeps
<1> HIDE DEF step, start
<1> QED BY <1>5, <1>6

\* Sums of lists of one length, entry by entry.
LEMMA SumMost ==
  ASSUME NEW n \in Nat, NEW a \in [1 .. n -> Int], NEW b \in [1 .. n -> Int],
         \A k \in 1 .. n : a[k] <= b[k]
  PROVE  SumOf(a) <= SumOf(b)
<1>1. a \in Seq(Int) /\ b \in Seq(Int) /\ Len(a) = n /\ Len(b) = n
  OBVIOUS
<1>2. PICK f \in [0 .. n -> Int] : f[0] = 0 /\ (\A k \in 1 .. n : f[k] = f[k - 1] + a[k]) /\ SumOf(a) = f[n]
  BY <1>1, SumRecursive
<1>3. PICK g \in [0 .. n -> Int] : g[0] = 0 /\ (\A k \in 1 .. n : g[k] = g[k - 1] + b[k]) /\ SumOf(b) = g[n]
  BY <1>1, SumRecursive
<1> DEFINE S == {k \in Nat : k <= n => f[k] <= g[k]}
<1>4. 0 \in S
  BY <1>2, <1>3
<1>5. ASSUME NEW k \in Nat, k \in S PROVE k + 1 \in S
  <2>1. SUFFICES ASSUME k + 1 <= n PROVE f[k + 1] <= g[k + 1]
    OBVIOUS
  <2>2. k + 1 \in 1 .. n /\ (k + 1) - 1 = k /\ k <= n /\ k \in 0 .. n
    BY <2>1
  <2>3. f[k + 1] = f[k] + a[k + 1] /\ g[k + 1] = g[k] + b[k + 1] /\ a[k + 1] <= b[k + 1]
    BY <2>2, <1>2, <1>3
  <2>4. f[k] \in Int /\ g[k] \in Int /\ a[k + 1] \in Int /\ b[k + 1] \in Int
    BY <2>2
  <2> QED BY <2>2, <2>3, <2>4, <1>5
<1>6. \A k \in Nat : k \in S
  <2> HIDE DEF S
  <2> QED BY <1>4, <1>5, Induction
<1> QED BY <1>2, <1>3, <1>6

LEMMA SumPair ==
  ASSUME NEW n \in Nat, NEW a \in [1 .. n -> Int], NEW b \in [1 .. n -> Int], NEW c \in [1 .. n -> Int],
         \A k \in 1 .. n : c[k] = a[k] + b[k]
  PROVE  SumOf(c) = SumOf(a) + SumOf(b) /\ SumOf(a) \in Int /\ SumOf(b) \in Int
<1>1. /\ a \in Seq(Int) /\ b \in Seq(Int) /\ Len(a) = n /\ Len(b) = n
      /\ c \in Seq(Int) /\ Len(c) = n
  OBVIOUS
<1>2. PICK f \in [0 .. n -> Int] : f[0] = 0 /\ (\A k \in 1 .. n : f[k] = f[k - 1] + a[k]) /\ SumOf(a) = f[n]
  BY <1>1, SumRecursive
<1>3. PICK g \in [0 .. n -> Int] : g[0] = 0 /\ (\A k \in 1 .. n : g[k] = g[k - 1] + b[k]) /\ SumOf(b) = g[n]
  BY <1>1, SumRecursive
<1> DEFINE h == [k \in 0 .. n |-> f[k] + g[k]]
<1>4. h[0] = 0 /\ h[n] = f[n] + g[n] /\ f[n] \in Int /\ g[n] \in Int
  BY <1>2, <1>3
<1>5. ASSUME NEW k \in 1 .. n PROVE h[k] = h[k - 1] + c[k]
  <2>1. k \in 0 .. n /\ k - 1 \in 0 .. n
    OBVIOUS
  <2>2. f[k] = f[k - 1] + a[k] /\ g[k] = g[k - 1] + b[k] /\ c[k] = a[k] + b[k]
    BY <1>2, <1>3
  <2>3. f[k - 1] \in Int /\ g[k - 1] \in Int /\ a[k] \in Int /\ b[k] \in Int
    BY <2>1
  <2>4. h[k] = f[k] + g[k] /\ h[k - 1] = f[k - 1] + g[k - 1]
    BY <2>1
  <2> QED BY <2>2, <2>3, <2>4
<1> HIDE DEF h
<1>6. SumOf(c) = h[n]
  BY <1>1, <1>4, <1>5, SumBy
<1> QED BY <1>2, <1>3, <1>4, <1>6

LEMMA SumTyped ==
  ASSUME NEW n \in Nat, NEW a \in [1 .. n -> Int]
  PROVE  SumOf(a) \in Int
<1>1. a \in Seq(Int) /\ Len(a) = n
  OBVIOUS
<1>2. PICK f \in [0 .. n -> Int] : SumOf(a) = f[n]
  BY <1>1, SumRecursive
<1> QED BY <1>2

LEMMA SumOne ==
  ASSUME NEW n \in Nat, NEW x \in 1 .. n, NEW v \in Int
  PROVE  SumOf([k \in 1 .. n |-> IF k = x THEN v ELSE 0]) = v
<1> DEFINE q == [k \in 1 .. n |-> IF k = x THEN v ELSE 0]
           h == [k \in 0 .. n |-> IF k < x THEN 0 ELSE v]
<1>1. q \in Seq(Int) /\ Len(q) = n
  OBVIOUS
<1>2. h[0] = 0 /\ h[n] = v
  OBVIOUS
<1>3. ASSUME NEW k \in 1 .. n PROVE h[k] = h[k - 1] + q[k]
  <2>1. k \in 0 .. n /\ k - 1 \in 0 .. n
    OBVIOUS
  <2>2. q[k] = (IF k = x THEN v ELSE 0) /\ h[k] = (IF k < x THEN 0 ELSE v) /\ h[k - 1] = IF k - 1 < x THEN 0 ELSE v
    BY <2>1
  <2> QED BY <2>2
<1> HIDE DEF h, q
<1>4. SumOf(q) = h[n]
  BY <1>1, <1>2, <1>3, SumBy
<1> QED BY <1>2, <1>4 DEF q

\* An amount that goes from one place to another.
LEMMA SumMoves ==
  ASSUME NEW n \in Nat, NEW a \in [1 .. n -> Int], NEW b \in [1 .. n -> Int],
         \E x, g \in 1 .. n :
           /\ x # g /\ b[x] = 0 /\ b[g] = a[g] + a[x]
           /\ \A k \in 1 .. n : k # x /\ k # g => b[k] = a[k]
  PROVE  SumOf(b) = SumOf(a)
<1>1. PICK x \in 1 .. n, g \in 1 .. n :
        /\ x # g /\ b[x] = 0 /\ b[g] = a[g] + a[x]
        /\ \A k \in 1 .. n : k # x /\ k # g => b[k] = a[k]
  OBVIOUS
<1> DEFINE v == a[x]
           p == [k \in 1 .. n |-> IF k = g THEN v ELSE 0]
           q == [k \in 1 .. n |-> IF k = x THEN v ELSE 0]
           c == [k \in 1 .. n |-> a[k] + (IF k = g THEN v ELSE 0)]
<1>2. v \in Int
  OBVIOUS
<1>3. p \in [1 .. n -> Int] /\ q \in [1 .. n -> Int] /\ c \in [1 .. n -> Int]
  BY <1>2
<1>4. \A k \in 1 .. n : c[k] = a[k] + p[k]
  OBVIOUS
<1>5. \A k \in 1 .. n : c[k] = b[k] + q[k]
  <2> TAKE k \in 1 .. n
  <2>1. a[k] \in Int /\ b[k] \in Int /\ c[k] = a[k] + (IF k = g THEN v ELSE 0)
        /\ q[k] = IF k = x THEN v ELSE 0
    OBVIOUS
  <2>2. CASE k = x
    BY <2>1, <2>2, <1>1, <1>2
  <2>3. CASE k = g
    BY <2>1, <2>3, <1>1, <1>2
  <2>4. CASE k # x /\ k # g
    BY <2>1, <2>4, <1>1
  <2> QED BY <2>2, <2>3, <2>4
<1> HIDE DEF v
<1>6. SumOf(p) = v /\ SumOf(q) = v
  BY <1>2, SumOne
<1> HIDE DEF p, q, c
<1>7. SumOf(c) = SumOf(a) + SumOf(p) /\ SumOf(a) \in Int
  BY ONLY n \in Nat, a \in [1 .. n -> Int], <1>3, <1>4, SumPair
<1>8. SumOf(c) = SumOf(b) + SumOf(q) /\ SumOf(b) \in Int
  BY ONLY n \in Nat, b \in [1 .. n -> Int], <1>3, <1>5, SumPair
<1> QED BY <1>2, <1>6, <1>7, <1>8

----------------------------------------------------------------------------
\* A node hands its size to its dominator.
Handed(dom, s, x) ==
  IF GivesTo(dom, x) # 0 THEN [s EXCEPT ![GivesTo(dom, x)] = @ + s[x]] ELSE s

\* What holds before any size is handed up, and is kept where a node hands up
\* its size once and after those further from the root, holds in the end.
LEMMA RetainedKeeps ==
  ASSUME HeapFed, nodes # << >>, NEW dist \in [Indices -> 0 .. Unreached], NEW dom,
         NEW K, \A H, s : <<H, s>> \in K => s \in Amounts,
         <<{x \in Indices : dist[x] >= Size}, Alone>> \in K,
         \A H, s : \A x \in Indices :
           /\ <<H, s>> \in K
           /\ x \notin H
           /\ \A y \in Indices : (dist[y] > dist[x] => y \in H) /\ (y \in H => dist[y] >= dist[x])
           => <<H \union {x}, Handed(dom, s, x)>> \in K
  PROVE  <<Indices, Retained(dist, dom)>> \in K
<1> DEFINE far(k) == {x \in Indices : dist[x] >= Size - k}
           step == [k \in Indices |-> [s \in Amounts |-> HandUp(dist, dom, s, Size - k)]]
           Good == {p \in (0 .. Size) \X Amounts : <<far(p[1]), p[2]>> \in K}
<1>1. Size \in Nat /\ Indices = 1 .. Size /\ 0 \in 0 .. Size /\ Unreached \in Nat
  BY Indexed, HeapAssumption
<1>2. \A x \in Indices : dist[x] \in Nat
  BY <1>1
<1>3. <<0, Alone>> \in Good
  <2>1. far(0) = {x \in Indices : dist[x] >= Size}
    BY <1>1
  <2> QED BY <2>1, <1>1
<1>4. ASSUME NEW k \in 1 .. Size, NEW v, <<k - 1, v>> \in Good PROVE <<k, step[k][v]>> \in Good
  <2> DEFINE d == Size - k
             H(i) == {x \in Indices : dist[x] > d \/ (dist[x] = d /\ x <= i)}
             turn == [i \in Indices |-> [s \in Amounts |->
                        IF dist[i] = d /\ GivesTo(dom, i) # 0
                        THEN [s EXCEPT ![GivesTo(dom, i)] = @ + s[i]] ELSE s]]
             Fine == {p \in (0 .. Size) \X Amounts : <<H(p[1]), p[2]>> \in K}
  <2>1. d \in Nat /\ v \in Amounts /\ k \in Indices /\ k \in 0 .. Size
    BY <1>1, <1>4
  <2>2. H(0) = far(k - 1) /\ H(Size) = far(k)
    <3>1. \A x \in Indices : /\ dist[x] > d <=> dist[x] >= Size - (k - 1)
                             /\ dist[x] >= Size - k <=> dist[x] > d \/ dist[x] = d
                             /\ x <= Size /\ ~ (x <= 0)
      <4> TAKE x \in Indices
      <4>1. dist[x] \in Nat /\ x \in 1 .. Size /\ k \in 1 .. Size /\ Size \in Nat
        BY <1>1, <1>2
      <4> QED BY ONLY <4>1
    <3> HIDE DEF d
    <3> QED BY <3>1
  <2>3. <<0, v>> \in Fine
    BY <2>1, <2>2, <1>1, <1>4
  <2> HIDE DEF d
  <2>4. \A i \in 1 .. Size : \A s : <<i - 1, s>> \in Fine => <<i, turn[i][s]>> \in Fine
    <3> SUFFICES ASSUME NEW i \in 1 .. Size, NEW s, <<i - 1, s>> \in Fine PROVE <<i, turn[i][s]>> \in Fine
      OBVIOUS
    <3>1. i \in Indices /\ i \in 0 .. Size /\ s \in Amounts /\ <<H(i - 1), s>> \in K
      <4>1. s \in Amounts /\ <<H(i - 1), s>> \in K
        <5> HIDE DEF H
        <5> QED OBVIOUS
      <4>2. i \in Indices /\ i \in 0 .. Size
        BY ONLY <1>1, i \in 1 .. Size
      <4> QED BY <4>1, <4>2
    <3>2. CASE dist[i] # d
      <4>1. turn[i][s] = s
        BY <3>1, <3>2
      <4>2. H(i) = H(i - 1)
        <5>1. \A x \in Indices : dist[x] = d /\ x <= i => x <= i - 1
          BY <3>2, <3>1, <1>1
        <5>2. \A x \in Indices : x <= i - 1 => x <= i
          BY <3>1, <1>1
        <5> QED BY <5>1, <5>2
      <4> HIDE DEF turn, H
      <4> QED BY <4>1, <4>2, <3>1
    <3>3. CASE dist[i] = d
      <4>1. turn[i][s] = Handed(dom, s, i)
        BY <3>1, <3>3 DEF Handed
      <4>2. H(i) = H(i - 1) \union {i}
        <5>1. \A x \in Indices : x <= i <=> x <= i - 1 \/ x = i
          BY <3>1, <1>1
        <5> QED BY <5>1, <3>1, <3>3
      <4>3. i \notin H(i - 1)
        BY <3>1, <3>3, <1>1, <2>1
      <4>4. \A y \in Indices : (dist[y] > dist[i] => y \in H(i - 1)) /\ (y \in H(i - 1) => dist[y] >= dist[i])
        BY <3>3, <1>2, <2>1
      <4> HIDE DEF H, turn
      <4>5. <<H(i - 1) \union {i}, Handed(dom, s, i)>> \in K
        BY <3>1, <4>3, <4>4
      <4> QED BY <4>1, <4>2, <4>5, <3>1
    <3> QED BY <3>2, <3>3
  <2>5. HandUp(dist, dom, v, d) = Looped(Size, v, turn)
    BY DEF HandUp
  <2>6. <<Size, Looped(Size, v, turn)>> \in Fine
    <3> HIDE DEF turn, Fine
    <3> QED BY ONLY <1>1, <2>3, <2>4, LoopKeeps
  <2>7. step[k][v] = HandUp(dist, dom, v, d)
    BY <2>1 DEF d
  <2> HIDE DEF step, turn
  <2>8. <<far(k), step[k][v]>> \in K /\ step[k][v] \in Amounts
    <3>1. <<H(Size), step[k][v]>> \in K /\ step[k][v] \in Amounts
      BY <2>5, <2>6, <2>7
    <3> HIDE DEF H, far
    <3> QED BY <3>1, <2>2
  <2> HIDE DEF far
  <2> QED BY <2>1, <2>8
<1>5. Retained(dist, dom) = Looped(Size, Alone, step)
  BY DEF Retained
<1>6. <<Size, Looped(Size, Alone, step)>> \in Good
  <2> HIDE DEF step, Good
  <2> QED BY ONLY <1>1, <1>3, <1>4, LoopKeeps
<1>7. far(Size) = Indices
  BY <1>1, <1>2
<1> QED BY <1>5, <1>6, <1>7

\* Whom a node hands its size to had its dominator before it.
LEMMA GivesEarlier ==
  ASSUME HeapFed, nodes # << >>, NEW dist, NEW dom, NEW ord, Headed(dist, dom, ord),
         NEW x \in Indices, GivesTo(dom, x) # 0
  PROVE  /\ x \in Had(dom) \ {RootIndex} /\ GivesTo(dom, x) = Index(dom[x])
         /\ GivesTo(dom, x) \in Led(dom) /\ GivesTo(dom, x) \in Indices
         /\ ord[GivesTo(dom, x)] < ord[x] /\ GivesTo(dom, x) # x
<1>1. GivesTo(dom, x) = Index(dom[x]) /\ dom[x] # nodes[x] /\ Index(dom[x]) # 0
  BY DEF GivesTo
<1>2. x # RootIndex
  BY <1>1 DEF Headed
<1>3. dom[x] # 0
  BY <1>1, Indexed
<1>4. x \in Had(dom) \ {RootIndex}
  BY <1>2, <1>3 DEF Had
<1>5. Index(dom[x]) \in Led(dom) /\ ord[Index(dom[x])] < ord[x]
  BY <1>4 DEF Headed
<1>6. ord[x] \in Nat /\ Index(dom[x]) \in Indices
  BY <1>5 DEF Headed, Led, Had
<1> QED BY <1>1, <1>4, <1>5, <1>6

\* What a handing changes.
LEMMA HandedIs ==
  ASSUME HeapFed, nodes # << >>, NEW dist, NEW dom, NEW ord, Headed(dist, dom, ord),
         NEW x \in Indices, NEW s \in Amounts, GivesTo(dom, x) # 0
  PROVE  LET g == GivesTo(dom, x)
             t == Handed(dom, s, x)
         IN /\ t \in Amounts /\ t[g] = s[g] + s[x]
            /\ \A y \in Indices : y # g => t[y] = s[y]
<1> DEFINE g == GivesTo(dom, x)
           t == Handed(dom, s, x)
<1>1. g \in Indices /\ t = [s EXCEPT ![g] = s[g] + s[x]]
  BY GivesEarlier DEF Handed, Amounts
<1> HIDE DEF g, t
<1>2. s[g] + s[x] \in Nat
  BY <1>1 DEF Amounts
<1> QED BY <1>1, <1>2 DEF Amounts, g, t

LEMMA AloneTyped ==
  HeapFed => Alone \in Amounts
<1> SUFFICES ASSUME HeapFed PROVE Alone \in Amounts
  OBVIOUS
<1>1. \A id \in Ids : Shallow[id] \in Nat
  BY HeapAssumption
<1>2. \A i \in Indices : nodes[i] \in Ids
  BY Indexed
<1> QED BY <1>1, <1>2 DEF Alone, Amounts

\* Amounts that are below the modulus are kept as they are.
LEMMA KeptWhole ==
  ASSUME NEW r, NEW i \in Indices, r[i] \in Nat, NEW all \in Int, all < SizeWord, r[i] <= all
  PROVE  Wrapped(r)[i] = r[i]
<1>1. SizeWord \in Nat /\ r[i] < SizeWord
  BY HeapAssumption
<1>2. r[i] % SizeWord = r[i]
  BY <1>1, SmallRemainder
<1> QED BY <1>2 DEF Wrapped

\* The amounts of some nodes.
Part(S, s) == [x \in 1 .. Size |-> IF x \in S THEN s[x] ELSE 0]

LEMMA PartTyped ==
  ASSUME HeapFed, NEW s \in Amounts, NEW S
  PROVE  Part(S, s) \in [1 .. Size -> Int] /\ SumOf(Part(S, s)) \in Int
<1>1. Size \in Nat /\ Indices = 1 .. Size
  BY Indexed
<1>2. Part(S, s) \in [1 .. Size -> Int]
  BY <1>1 DEF Part, Amounts
<1> QED BY <1>1, <1>2, SumTyped

\* The node and what had its dominator after it and has not handed its size
\* up yet: together they never have more than there is.
LEMMA RetainedBounded ==
  ASSUME HeapFed, nodes # << >>, NEW dist, Distanced(dist), NEW dom, NEW ord, Headed(dist, dom, ord),
         NEW i \in Indices
  PROVE  /\ Retained(dist, dom)[i] \in Nat /\ SumOf(Alone) \in Int
         /\ Shallow[nodes[i]] <= Retained(dist, dom)[i] /\ Retained(dist, dom)[i] <= SumOf(Alone)
<1> DEFINE Open(t, H) == {x \in Indices : x = t \/ (ord[x] > ord[t] /\ x \notin H)}
           At(t, H, s) == Part(Open(t, H), s)
           K == {p \in (SUBSET Indices) \X Amounts :
                   \A t \in Indices : /\ Alone[t] <= p[2][t]
                                      /\ SumOf(At(t, p[1], p[2])) <= SumOf(Alone)}
<1>1. Size \in Nat /\ Indices = 1 .. Size /\ Alone \in Amounts
  BY Indexed, AloneTyped
<1>2. /\ dist \in [Indices -> 0 .. Unreached]
      /\ ord \in [Indices -> Nat]
  BY DEF Distanced, Headed
<1>3. \A s \in Amounts : \A x \in Indices : s[x] \in Nat
  BY DEF Amounts
<1>4. \A s \in Amounts : \A S : Part(S, s) \in [1 .. Size -> Int] /\ SumOf(Part(S, s)) \in Int
  BY PartTyped
<1>5. \A H, s : <<H, s>> \in K => s \in Amounts
  OBVIOUS
<1>6. <<{x \in Indices : dist[x] >= Size}, Alone>> \in K
  <2> DEFINE H0 == {x \in Indices : dist[x] >= Size}
  <2>1. H0 \in SUBSET Indices
    OBVIOUS
  <2> HIDE DEF H0
  <2>2. ASSUME NEW t \in Indices PROVE Alone[t] <= Alone[t] /\ SumOf(At(t, H0, Alone)) <= SumOf(Alone)
    <3>1. \A x \in 1 .. Size : Alone[x] \in Nat /\ At(t, H0, Alone)[x] <= Alone[x]
      BY <1>1, <1>3 DEF Part
    <3>2. Alone \in [1 .. Size -> Int]
      BY <1>1 DEF Amounts
    <3>3. At(t, H0, Alone) \in [1 .. Size -> Int]
      BY <1>4, <1>1
    <3> HIDE DEF At
    <3>4. SumOf(At(t, H0, Alone)) <= SumOf(Alone)
      BY <1>1, <3>1, <3>2, <3>3, SumMost
    <3> QED BY <3>1, <3>4, <1>1
  <2> HIDE DEF At
  <2>3. <<H0, Alone>> \in K
    BY <2>1, <2>2, <1>1
  <2> QED BY <2>3 DEF H0
<1>7. ASSUME NEW H, NEW s, NEW x \in Indices, <<H, s>> \in K, x \notin H
      PROVE  <<H \union {x}, Handed(dom, s, x)>> \in K
  <2> DEFINE H1 == H \union {x}
             s1 == Handed(dom, s, x)
             g == GivesTo(dom, x)
  <2>1. /\ H \in SUBSET Indices /\ s \in Amounts /\ H1 \in SUBSET Indices
        /\ \A t \in Indices : Alone[t] <= s[t] /\ SumOf(At(t, H, s)) <= SumOf(Alone)
    BY <1>7
  <2>2. SumOf(Alone) \in Int
    <3>1. Alone \in [1 .. Size -> Int]
      BY <1>1 DEF Amounts
    <3> QED BY <3>1, <1>1, SumTyped
  <2>3. ASSUME s1 \in Amounts,
               \A t \in Indices : Alone[t] <= s1[t] /\ SumOf(At(t, H1, s1)) <= SumOf(At(t, H, s))
        PROVE  <<H1, s1>> \in K
    <3> HIDE DEF H1, s1
    <3>1. \A t \in Indices : SumOf(At(t, H1, s1)) <= SumOf(Alone)
      <4> TAKE t \in Indices
      <4>1. SumOf(At(t, H1, s1)) \in Int /\ SumOf(At(t, H, s)) \in Int
        BY <1>4, <2>1, <2>3
      <4> HIDE DEF At
      <4> QED BY <4>1, <2>1, <2>2, <2>3
    <3> QED BY <2>1, <2>3, <3>1
  <2>4. CASE g = 0
    <3>1. s1 = s
      BY <2>4 DEF Handed
    <3>2. ASSUME NEW t \in Indices PROVE SumOf(At(t, H1, s)) <= SumOf(At(t, H, s))
      <4>1. \A y \in 1 .. Size : At(t, H1, s)[y] <= At(t, H, s)[y]
        BY <1>1, <1>3, <2>1 DEF Part
      <4>2. At(t, H1, s) \in [1 .. Size -> Int] /\ At(t, H, s) \in [1 .. Size -> Int]
        BY <1>4, <2>1
      <4> HIDE DEF At, H1
      <4> QED BY <1>1, <4>1, <4>2, SumMost
    <3> HIDE DEF At, H1, s1
    <3> QED BY <2>1, <2>3, <3>1, <3>2 DEF H1, s1
  <2>5. CASE g # 0
    <3>1. /\ g \in Indices /\ ord[g] < ord[x] /\ g # x
          /\ s1 \in Amounts /\ s1[g] = s[g] + s[x] /\ \A y \in Indices : y # g => s1[y] = s[y]
      BY <2>1, <2>5, GivesEarlier, HandedIs
    <3> HIDE DEF s1, g, H1
    <3>2. ASSUME NEW t \in Indices PROVE Alone[t] <= s1[t]
      <4>1. Alone[t] \in Nat /\ s[t] \in Nat /\ s[g] \in Nat /\ s[x] \in Nat /\ Alone[t] <= s[t]
        BY <1>1, <1>3, <2>1, <3>1
      <4> QED BY <3>1, <4>1
    <3>3. ASSUME NEW t \in Indices PROVE SumOf(At(t, H1, s1)) <= SumOf(At(t, H, s))
      <4>1. ord[t] \in Nat /\ ord[x] \in Nat /\ ord[g] \in Nat
        BY <1>2, <3>1
      <4>2. /\ At(t, H1, s1) \in [1 .. Size -> Int] /\ At(t, H, s) \in [1 .. Size -> Int]
            /\ \A y \in 1 .. Size : /\ s[y] \in Nat /\ s1[y] \in Nat
                                    /\ At(t, H, s)[y] = (IF y \in Open(t, H) THEN s[y] ELSE 0)
                                    /\ At(t, H1, s1)[y] = IF y \in Open(t, H1) THEN s1[y] ELSE 0
        BY <1>1, <1>3, <1>4, <2>1, <3>1 DEF Part
      <4>3. \A y \in Indices : y \in Open(t, H1) <=> y \in Open(t, H) /\ (y = t \/ y # x)
        BY DEF H1
      <4>4. CASE g \notin Open(t, H1)
        <5>1. \A y \in 1 .. Size : At(t, H1, s1)[y] <= At(t, H, s)[y]
          <6> TAKE y \in 1 .. Size
          <6>1. y \in Open(t, H1) => y # g /\ y \in Open(t, H) /\ s1[y] = s[y]
            BY <4>3, <4>4, <3>1, <1>1
          <6> HIDE DEF Open, At
          <6> QED BY <4>2, <6>1
        <5> HIDE DEF At
        <5> QED BY <1>1, <4>2, <5>1, SumMost
      <4>5. CASE g \in Open(t, H1)
        <5>1. x # t /\ x \in Open(t, H) /\ x \notin Open(t, H1)
          BY <4>1, <4>3, <4>5, <3>1, <1>7
        <5>2. x \in Indices /\ x \in 1 .. Size /\ g \in 1 .. Size /\ s[x] \in Int /\ s[x] \in Nat /\ s[g] \in Nat
          BY <1>1, <1>3, <2>1, <3>1
        <5> DEFINE a == At(t, H, s)
                   b == At(t, H1, s1)
        <5>3. \A k \in 1 .. Size : k # x /\ k # g => b[k] = a[k]
          <6> TAKE k \in 1 .. Size
          <6>1. k # g => s1[k] = s[k]
            BY <3>1, <1>1
          <6>2. k # x => (k \in Open(t, H1) <=> k \in Open(t, H))
            BY <4>3, <1>1
          <6> HIDE DEF Open, At
          <6> QED BY <4>2, <6>1, <6>2
        <5>4. b[x] = 0 /\ b[g] = a[g] + a[x]
          <6>1. b[x] = 0 /\ a[x] = s[x]
            BY <4>2, <5>1, <5>2
          <6>2. g \in Open(t, H)
            BY <4>5, <4>3, <3>1
          <6>3. b[g] = s[g] + s[x] /\ a[g] = s[g]
            BY <4>2, <4>5, <5>2, <6>2, <3>1
          <6> HIDE DEF a, b
          <6> QED BY <6>1, <6>3, <5>2
        <5> HIDE DEF a, b
        <5>6. SumOf(b) = SumOf(a)
          <6>1. a \in [1 .. Size -> Int] /\ b \in [1 .. Size -> Int]
            BY <4>2 DEF a, b
          <6>2. x \in 1 .. Size /\ g \in 1 .. Size /\ x # g /\ Size \in Nat
            BY <5>2, <3>1, <1>1
          <6>3. \E y, h \in 1 .. Size :
                  /\ y # h /\ b[y] = 0 /\ b[h] = a[h] + a[y]
                  /\ \A k \in 1 .. Size : k # y /\ k # h => b[k] = a[k]
            BY <6>2, <5>3, <5>4
          <6>4. Size \in Nat
            BY <1>1
          <6> QED BY ONLY <6>1, <6>3, <6>4, SumMoves
        <5>5. SumOf(At(t, H, s)) \in Int
          BY <1>4, <2>1 DEF At
        <5> QED BY <5>5, <5>6 DEF a, b
      <4> QED BY <4>4, <4>5
    <3> HIDE DEF At
    <3> QED BY <2>3, <3>1, <3>2, <3>3 DEF H1, s1
  <2> QED BY <2>4, <2>5
<1> HIDE DEF K
<1>8. <<Indices, Retained(dist, dom)>> \in K
  BY <1>2, <1>5, <1>6, <1>7, RetainedKeeps
<1> DEFINE r == Retained(dist, dom)
<1>9. r \in Amounts /\ Alone[i] <= r[i] /\ SumOf(At(i, Indices, r)) <= SumOf(Alone)
  <2> HIDE DEF r, At
  <2>1. <<Indices, r>> \in K
    BY <1>8 DEF r
  <2> QED BY <2>1 DEF K
<1> HIDE DEF r
<1>10. SumOf(At(i, Indices, r)) = r[i]
  <2>1. At(i, Indices, r) = [k \in 1 .. Size |-> IF k = i THEN r[i] ELSE 0]
    BY <1>1 DEF Part
  <2>2. r[i] \in Int /\ i \in 1 .. Size
    BY <1>1, <1>9 DEF Amounts
  <2>3. SumOf([k \in 1 .. Size |-> IF k = i THEN r[i] ELSE 0]) = r[i]
    BY ONLY <2>2, <1>1, SumOne
  <2> HIDE DEF At
  <2> QED BY <2>1, <2>3
<1>11. Alone[i] = Shallow[nodes[i]]
  BY DEF Alone
<1>12. r[i] \in Nat
  BY <1>3, <1>9
<1>13. SumOf(Alone) \in Int
  <2>1. Alone \in [1 .. Size -> Int]
    BY <1>1 DEF Amounts
  <2> QED BY <2>1, <1>1, SumTyped
<1> QED BY <1>9, <1>10, <1>11, <1>12, <1>13 DEF r

\* The search, for what the passes need of it.
LEMMA UnreachedPositive ==
  ASSUME HeapFed, nodes # << >>
  PROVE  Unreached \in Nat /\ Unreached > 0
<1>1. nodes[RootIndex] \in Ids
  BY Indexed
<1>2. Cardinality(Ids) # 0 /\ Cardinality(Ids) \in Nat
  BY <1>1, HeapAssumption, FS_EmptySet, FS_CardinalityType
<1> QED BY <1>2, HeapAssumption

\* One edge of the search.
Looked(t, curr, id) ==
  IF Index(id) # 0 /\ t.dist[Index(id)] = Unreached
  THEN [dist |-> [t.dist EXCEPT ![Index(id)] = Further(t.dist[Index(curr)])],
        queue |-> Append(t.queue, id)]
  ELSE t

\* The searches that only have nodes in the queue.
Sought == {s \in Searches : \A p \in 1 .. Len(s.queue) : Index(s.queue[p]) # 0}

LEMMA LookedIs ==
  ASSUME HeapFed, nodes # << >>, NEW t \in Sought, NEW curr, Index(curr) # 0, NEW id \in Ids
  PROVE  LET u == Looked(t, curr, id) IN
         /\ u \in Sought
         /\ Index(id) # 0 /\ t.dist[Index(id)] = Unreached =>
              /\ u.dist[Index(id)] = Further(t.dist[Index(curr)])
              /\ \A i \in Indices : i # Index(id) => u.dist[i] = t.dist[i]
              /\ u.queue = Append(t.queue, id) /\ Len(u.queue) = Len(t.queue) + 1
              /\ \A p \in 1 .. Len(t.queue) : u.queue[p] = t.queue[p]
              /\ u.queue[Len(t.queue) + 1] = id
         /\ ~ (Index(id) # 0 /\ t.dist[Index(id)] = Unreached) => u = t
<1> DEFINE u == Looked(t, curr, id)
           n == Index(id)
           w == Further(t.dist[Index(curr)])
<1>1. CASE ~ (Index(id) # 0 /\ t.dist[Index(id)] = Unreached)
  BY <1>1 DEF Looked
<1>2. CASE Index(id) # 0 /\ t.dist[Index(id)] = Unreached
  <2>1. u = [dist |-> [t.dist EXCEPT ![n] = w], queue |-> Append(t.queue, id)]
    BY <1>2 DEF Looked
  <2>2. t.dist \in [Indices -> 0 .. Unreached] /\ t.queue \in Seq(Ids)
        /\ \A p \in 1 .. Len(t.queue) : Index(t.queue[p]) # 0
    BY DEF Sought, Searches
  <2>3. n \in Indices /\ n # 0
    BY <1>2, Indexed
  <2>4. w \in 0 .. Unreached
    <3>1. t.dist[Index(curr)] \in 0 .. Unreached /\ Unreached \in Nat
      BY <2>2, Indexed, HeapAssumption
    <3> DEFINE e == t.dist[Index(curr)]
    <3> HIDE DEF e
    <3>2. (e + 1) % (Unreached + 1) \in 0 .. Unreached
      BY <3>1 DEF e
    <3> QED BY <3>2 DEF Further, e
  <2> HIDE DEF u, n, w
  <2>5. /\ u.dist = [t.dist EXCEPT ![n] = w] /\ u.queue = Append(t.queue, id)
    BY <2>1
  <2>6. /\ u.dist \in [Indices -> 0 .. Unreached] /\ u.dist[n] = w
        /\ \A i \in Indices : i # n => u.dist[i] = t.dist[i]
    BY <2>2, <2>3, <2>4, <2>5
  <2>7. /\ u.queue \in Seq(Ids) /\ Len(u.queue) = Len(t.queue) + 1 /\ Len(t.queue) \in Nat
        /\ \A p \in 1 .. Len(t.queue) : u.queue[p] = t.queue[p]
        /\ u.queue[Len(t.queue) + 1] = id
    BY <2>2, <2>5, AppendProperties
  <2>8. \A p \in 1 .. Len(u.queue) : Index(u.queue[p]) # 0
    <3> TAKE p \in 1 .. Len(u.queue)
    <3>1. p \in 1 .. Len(t.queue) \/ p = Len(t.queue) + 1
      BY <2>7
    <3> QED BY <3>1, <2>2, <2>3, <2>7 DEF n
  <2>9. u \in Searches
    BY <2>1, <2>5, <2>6, <2>7 DEF Searches
  <2> QED BY <1>2, <2>5, <2>6, <2>7, <2>8, <2>9 DEF Sought, u, n, w
<1> QED BY <1>1, <1>2

\* A set of searches that no edge leaves, no node does.
LEMMA LookAtKeeps ==
  ASSUME HeapFed, NEW curr, Index(curr) # 0, NEW Good,
         \A p : p \in Good => p[2] \in Sought,
         NEW s, <<0, s>> \in Good,
         \A j \in 1 .. Len(outgoing[Index(curr)]) : \A t :
           <<j - 1, t>> \in Good => <<j, Looked(t, curr, outgoing[Index(curr)][j])>> \in Good
  PROVE  <<Len(outgoing[Index(curr)]), LookAt(s, curr)>> \in Good
<1> DEFINE to == outgoing[Index(curr)]
           n == Len(to)
           step == [j \in 1 .. n |-> [t \in Searches |->
                      LET m == Index(to[j]) IN
                      IF m # 0 /\ t.dist[m] = Unreached
                      THEN [dist |-> [t.dist EXCEPT ![m] = Further(t.dist[Index(curr)])],
                            queue |-> Append(t.queue, to[j])]
                      ELSE t]]
<1>1. LookAt(s, curr) = Looped(n, s, step)
  BY DEF LookAt
<1>2. n \in Nat
  <2>1. to \in Seq(Ids)
    BY Indexed DEF HeapFed
  <2> QED BY <2>1
<1>3. \A j \in 1 .. n : \A t : <<j - 1, t>> \in Good => <<j, step[j][t]>> \in Good
  <2> SUFFICES ASSUME NEW j \in 1 .. n, NEW t, <<j - 1, t>> \in Good PROVE <<j, step[j][t]>> \in Good
    OBVIOUS
  <2>1. t \in Searches
    <3>1. <<j - 1, t>>[2] \in Sought
      <4> DEFINE p == <<j - 1, t>>
      <4> HIDE DEF p
      <4>1. p \in Good
        BY DEF p
      <4>2. p[2] \in Sought
        BY <4>1
      <4> QED BY <4>2 DEF p
    <3> QED BY <3>1 DEF Sought
  <2>2. step[j][t] = Looked(t, curr, to[j])
    BY <2>1 DEF Looked
  <2> HIDE DEF step
  <2> QED BY <2>2
<1> HIDE DEF step, to
<1>4. <<n, Looped(n, s, step)>> \in Good
  <2> HIDE DEF n
  <2> QED BY ONLY <1>2, <1>3, <<0, s>> \in Good, LoopKeeps
<1> QED BY <1>1, <1>4 DEF to

LEMMA SearchKeeps ==
  ASSUME HeapFed, NEW Good,
         \A p : p \in Good => p[2] \in Searches,
         NEW start, <<0, start>> \in Good,
         \A head \in Indices : \A s :
           <<head - 1, s>> \in Good =>
             <<head, IF head <= Len(s.queue) THEN LookAt(s, s.queue[head]) ELSE s>> \in Good
  PROVE  <<Size, Search(start)>> \in Good
<1> DEFINE step == [head \in Indices |-> [s \in Searches |->
                      IF head <= Len(s.queue) THEN LookAt(s, s.queue[head]) ELSE s]]
<1>1. Search(start) = Looped(Size, start, step)
  BY DEF Search
<1>2. Size \in Nat /\ Indices = 1 .. Size
  BY Indexed
<1>3. \A head \in 1 .. Size : \A s : <<head - 1, s>> \in Good => <<head, step[head][s]>> \in Good
  <2> SUFFICES ASSUME NEW head \in Indices, NEW s, <<head - 1, s>> \in Good PROVE <<head, step[head][s]>> \in Good
    BY <1>2
  <2>1. s \in Searches
    <3> DEFINE p == <<head - 1, s>>
    <3> HIDE DEF p
    <3>1. p \in Good
      BY DEF p
    <3>2. p[2] \in Searches
      BY <3>1
    <3> QED BY <3>2 DEF p
  <2>2. step[head][s] = IF head <= Len(s.queue) THEN LookAt(s, s.queue[head]) ELSE s
    BY <2>1
  <2> HIDE DEF step
  <2> QED BY <2>2
<1> HIDE DEF step
<1>4. <<Size, Looped(Size, start, step)>> \in Good
  BY ONLY <1>2, <1>3, <<0, start>> \in Good, LoopKeeps
<1> QED BY <1>1, <1>4

\* The search before the first node is looked at.
FirstSearch == [dist |-> [[i \in Indices |-> Unreached] EXCEPT ![RootIndex] = 0],
                queue |-> <<nodes[RootIndex]>>]

LEMMA FirstSearchIs ==
  ASSUME HeapFed, nodes # << >>
  PROVE  /\ FirstSearch \in Sought
         /\ FirstSearch.dist[RootIndex] = 0
         /\ \A i \in Indices : i # RootIndex => FirstSearch.dist[i] = Unreached
         /\ Len(FirstSearch.queue) = 1 /\ FirstSearch.queue[1] = nodes[RootIndex]
<1>1. RootIndex \in Indices /\ nodes[RootIndex] \in Ids /\ Index(nodes[RootIndex]) # 0
  BY Indexed
<1>2. Unreached \in Nat
  BY HeapAssumption
<1> DEFINE d == [[i \in Indices |-> Unreached] EXCEPT ![RootIndex] = 0]
           q == <<nodes[RootIndex]>>
<1>3. d \in [Indices -> 0 .. Unreached] /\ d[RootIndex] = 0 /\ \A i \in Indices : i # RootIndex => d[i] = Unreached
  BY <1>1, <1>2
<1>4. q \in Seq(Ids) /\ Len(q) = 1 /\ q[1] = nodes[RootIndex]
  BY <1>1
<1> HIDE DEF d, q
<1>5. FirstSearch = [dist |-> d, queue |-> q]
  BY DEF FirstSearch, d, q
<1>6. FirstSearch \in Searches /\ FirstSearch.dist = d /\ FirstSearch.queue = q
  BY <1>3, <1>4, <1>5 DEF Searches
<1>7. \A p \in 1 .. Len(q) : Index(q[p]) # 0
  BY <1>1, <1>4
<1> QED BY <1>3, <1>4, <1>6, <1>7 DEF Sought

\* However a snapshot was fed, the root is at no distance or nothing is reached.
LEMMA DistancesAre ==
  ASSUME HeapFed, nodes # << >>, NEW room \in BOOLEAN
  PROVE  Distanced(Distances(room))
<1>1. CASE ~ room
  <2>1. Distances(room) = [i \in Indices |-> Unreached] /\ Unreached \in 0 .. Unreached
    BY <1>1, HeapAssumption DEF Distances
  <2> QED BY <2>1 DEF Distanced
<1>2. CASE room
  <2> DEFINE K == {t \in Sought : t.dist[RootIndex] = 0}
             Good == Nat \X K
  <2>1. Distances(room) = Search(FirstSearch).dist
    BY <1>2 DEF Distances, FirstSearch
  <2>2. \A p : p \in Good => p[2] \in Searches /\ p[2] \in Sought
    BY DEF Sought
  <2>3. <<0, FirstSearch>> \in Good
    BY FirstSearchIs
  <2>4. ASSUME NEW head \in Indices, NEW s, <<head - 1, s>> \in Good
        PROVE  <<head, IF head <= Len(s.queue) THEN LookAt(s, s.queue[head]) ELSE s>> \in Good
    <3>1. s \in K /\ s \in Sought /\ head \in Nat /\ head \in 1 .. Size /\ Size \in Nat
      BY <2>4, Indexed
    <3>2. CASE ~ (head <= Len(s.queue))
      BY <3>1, <3>2
    <3>3. CASE head <= Len(s.queue)
      <4> DEFINE curr == s.queue[head]
                 to == outgoing[Index(curr)]
      <4>1. Index(curr) # 0
        <5>1. s.queue \in Seq(Ids) /\ \A p \in 1 .. Len(s.queue) : Index(s.queue[p]) # 0
          BY <3>1 DEF Sought, Searches
        <5>2. head \in 1 .. Len(s.queue)
          BY <5>1, <3>1, <3>3
        <5> QED BY <5>1, <5>2
      <4>2. to \in Seq(Ids)
        BY <4>1, Indexed DEF HeapFed
      <4>3. <<0, s>> \in Good
        BY <3>1
      <4> HIDE DEF curr
      <4>4. ASSUME NEW j \in 1 .. Len(to), NEW t, <<j - 1, t>> \in Good
            PROVE  <<j, Looked(t, curr, to[j])>> \in Good
        <5>1. t \in Sought /\ t.dist[RootIndex] = 0 /\ j \in Nat
          BY <4>4, <4>2
        <5>2. to[j] \in Ids
          BY <4>2, ElementOfSeq
        <5> DEFINE id == to[j]
                   u == Looked(t, curr, id)
        <5>3. /\ u \in Sought
              /\ Index(id) # 0 /\ t.dist[Index(id)] = Unreached =>
                   \A i \in Indices : i # Index(id) => u.dist[i] = t.dist[i]
              /\ ~ (Index(id) # 0 /\ t.dist[Index(id)] = Unreached) => u = t
          <6> HIDE DEF id
          <6> QED BY <5>1, <5>2, <4>1, LookedIs DEF id
        <5> HIDE DEF id, u
        <5>4. RootIndex \in Indices /\ Unreached # 0
          BY Indexed, UnreachedPositive
        <5>5. u.dist[RootIndex] = 0
          BY <5>1, <5>3, <5>4
        <5> QED BY <5>1, <5>3, <5>5 DEF id, u
      <4> HIDE DEF Good
      <4>5. <<Len(to), LookAt(s, curr)>> \in Good
        BY <2>2, <4>1, <4>3, <4>4, LookAtKeeps
      <4>6. LookAt(s, curr) \in K
        BY <4>5 DEF Good
      <4> QED BY <3>1, <3>3, <4>6 DEF curr, Good
    <3> QED BY <3>2, <3>3
  <2> HIDE DEF Good
  <2>5. <<Size, Search(FirstSearch)>> \in Good
    BY <2>2, <2>3, <2>4, SearchKeeps
  <2>6. Search(FirstSearch) \in K
    BY <2>5 DEF Good
  <2> QED BY <2>1, <2>6 DEF Distanced, Sought, Searches
<1> QED BY <1>1, <1>2

----------------------------------------------------------------------------
\* What a computation hands out.
LEMMA HeapComputed ==
  ASSUME HeapFed, NEW room \in BOOLEAN, Compute(room)
  PROVE  AnyFeedBounded'
<1> DEFINE dist == Distances(room)
           last == Dominators(dist)
           r == Retained(dist, last.dom)
<1>1. nodes # << >> /\ UNCHANGED <<nodes, map, edges, outgoing, retainers>>
      /\ result' = [room |-> room, dist |-> dist, dom |-> last.dom, changed |-> last.changed, retained |-> Wrapped(r)]
  BY DEF Compute
<1>2. Distanced(dist)
  BY <1>1, DistancesAre
<1> HIDE DEF dist
<1>3. PICK ord : Headed(dist, last.dom, ord)
  <2> DEFINE K == {FirstDom} \union {Turned(dist, p[1], p[2]) : p \in Doms \X Indices}
  <2>1. \A d, ord : Headed(dist, d, ord) => d \in Doms
    BY DEF Headed, Doms, Dominator
  <2>2. FirstDom \in K
    OBVIOUS
  <2>3. \A d \in K, i \in Indices : \A ord : Headed(dist, d, ord) => Turned(dist, d, i) \in K
    <3> SUFFICES ASSUME NEW d, NEW i \in Indices, NEW ord, Headed(dist, d, ord) PROVE Turned(dist, d, i) \in K
      OBVIOUS
    <3>1. <<d, i>> \in Doms \X Indices
      BY <2>1
    <3> QED BY <3>1
  <2> HIDE DEF K
  <2> QED BY <1>1, <1>2, <2>2, <2>3, DominatorsKept
<1> HIDE DEF last
<1>4. ASSUME NEW i \in Indices
      PROVE  /\ last.dom[i] # Loops
             /\ SumOf(Alone) < SizeWord => /\ Shallow[nodes[i]] <= Wrapped(r)[i]
                                           /\ Wrapped(r)[i] <= SumOf(Alone)
  <2>1. last.dom[i] \in Ids \union {0}
    BY <1>3 DEF Headed
  <2>2. last.dom[i] # Loops
    BY <2>1, Indexed
  <2>3. /\ r[i] \in Nat /\ SumOf(Alone) \in Int
        /\ Shallow[nodes[i]] <= r[i] /\ r[i] <= SumOf(Alone)
    BY <1>1, <1>2, <1>3, RetainedBounded
  <2>4. SumOf(Alone) < SizeWord => Wrapped(r)[i] = r[i]
    BY <2>3, KeptWhole
  <2> QED BY <2>2, <2>3, <2>4
<1>5. result'.dom = last.dom /\ result'.retained = Wrapped(r)
  BY <1>1
<1> HIDE DEF r
<1>6. Indices' = Indices /\ Alone' = Alone
  BY <1>1 DEF Indices, Size, Alone
<1> QED BY <1>1, <1>4, <1>5, <1>6 DEF AnyFeedBounded

\* Between two changes to what was fed, the last result stands.
LEMMA HeapStands ==
  ASSUME [HeapNext]_heapVars, \A room \in BOOLEAN : ~ Compute(room)
  PROVE  \/ ~ Computed'
         \/ UNCHANGED heapVars
BY DEF HeapNext, AddNode, AddEdge, Computed, heapVars

\* However a snapshot is fed, with retainers missing, ids twice or edges ahead of
\* their nodes, the intersection of dominators ends, and no node retains less
\* than itself or more than all there is where the sizes together fit their
\* 32 bits (compute_dominators_and_retained_sizes).
THEOREM AnyFeedBoundedAlways == HeapSpec => []AnyFeedBounded
<1>1. HeapInit => HeapFed /\ AnyFeedBounded
  BY HeapFedInitial DEF HeapInit, AnyFeedBounded, Computed
<1>2. HeapFed /\ AnyFeedBounded /\ [HeapNext]_heapVars => (HeapFed /\ AnyFeedBounded)'
  <2> SUFFICES ASSUME HeapFed, AnyFeedBounded, [HeapNext]_heapVars PROVE AnyFeedBounded'
    BY HeapFedStep
  <2>1. ASSUME NEW room \in BOOLEAN, Compute(room) PROVE AnyFeedBounded'
    BY <2>1, HeapComputed
  <2>2. CASE ~ Computed'
    BY <2>2 DEF AnyFeedBounded
  <2>3. CASE UNCHANGED heapVars
    BY <2>3 DEF AnyFeedBounded, heapVars, Computed, Indices, Size, Alone
  <2> QED BY <2>1, <2>2, <2>3, HeapStands
<1> QED BY <1>1, <1>2, PTL DEF HeapSpec

----------------------------------------------------------------------------
\* One edge of the snapshot.
Arc(i, j) == <<nodes[i], nodes[j]>> \in ToSet(edges)

\* A snapshot fed as snapshots are: every node is led to by its id, and its
\* lists have its edges and nothing else.
LEMMA FedWell ==
  ASSUME HeapFed, WellFed
  PROVE  /\ \A i \in Indices : Index(nodes[i]) = i
         /\ Size <= Unreached
         /\ \A i \in Indices : \A k \in 1 .. Len(outgoing[i]) :
              LET j == Index(outgoing[i][k]) IN j \in Indices /\ nodes[j] = outgoing[i][k] /\ Arc(i, j)
         /\ \A i \in Indices : \A k \in 1 .. Len(retainers[i]) :
              LET j == Index(retainers[i][k]) IN j \in Indices /\ nodes[j] = retainers[i][k] /\ Arc(j, i)
         /\ \A i, j \in Indices : Arc(i, j) =>
              /\ \E k \in 1 .. Len(outgoing[i]) : outgoing[i][k] = nodes[j]
              /\ \E k \in 1 .. Len(retainers[j]) : retainers[j][k] = nodes[i]
         /\ \A e \in DOMAIN edges : \E i, j \in Indices :
              edges[e][1] = nodes[i] /\ edges[e][2] = nodes[j] /\ Arc(i, j)
<1>1. /\ Size \in Nat /\ Indices = 1 .. Size /\ nodes \in Seq(Ids) /\ edges \in Seq(Edges)
      /\ outgoing \in [Indices -> Seq(Ids)] /\ retainers \in [Indices -> Seq(Ids)]
      /\ \A i \in Indices : nodes[i] \in Ids /\ Index(nodes[i]) # 0
      /\ \A x : Index(x) # 0 => Index(x) \in Indices /\ nodes[Index(x)] = x /\ x \in Ids
  BY Indexed DEF HeapFed
<1>2. /\ Cardinality(ToSet(nodes)) = Size /\ DOMAIN nodes = 1 .. Size
  BY <1>1 DEF WellFed, Size
<1>3. \A a, b \in 1 .. Size : nodes[a] = nodes[b] => a = b
  <2>1. nodes \in Surjection(1 .. Size, ToSet(nodes))
    <3>1. nodes \in [1 .. Size -> ToSet(nodes)]
      <4>1. nodes \in [1 .. Len(nodes) -> Ids]
        BY <1>1
      <4>2. nodes \in [1 .. Size -> Ids]
        BY <4>1 DEF Size
      <4>3. \A i \in 1 .. Size : nodes[i] \in ToSet(nodes)
        BY <1>2 DEF ToSet
      <4> QED BY <4>2, <4>3
    <3> QED BY <3>1, <1>2 DEF Surjection, ToSet
  <2>2. IsFiniteSet(1 .. Size) /\ Cardinality(1 .. Size) = Size
    BY <1>1, UpTo
  <2>3. nodes \in Injection(1 .. Size, ToSet(nodes))
    BY <1>2, <2>1, <2>2, FS_Surjection
  <2> QED BY <2>3 DEF Injection, IsInjective
<1>4. \A i \in Indices : Index(nodes[i]) = i
  BY <1>1, <1>3
<1>5. Size <= Unreached
  <2>1. \A t \in ToSet(nodes) : t \in Ids
    BY <1>1, <1>2 DEF ToSet
  <2>2. IsFiniteSet(Ids) /\ ToSet(nodes) \subseteq Ids /\ Cardinality(Ids) <= Unreached /\ Unreached \in Nat
    BY <2>1, HeapAssumption
  <2>3. Cardinality(ToSet(nodes)) <= Cardinality(Ids) /\ Cardinality(Ids) \in Nat
    BY <2>2, FS_Subset, FS_CardinalityType
  <2> QED BY <2>2, <2>3, <1>1, <1>2
<1>6. ASSUME NEW e \in DOMAIN edges
      PROVE  LET from == Index(edges[e][1])
                 to == Index(edges[e][2])
             IN /\ from \in Indices /\ nodes[from] = edges[e][1] /\ edges[e][2] \in ToSet(outgoing[from])
                /\ to \in Indices /\ nodes[to] = edges[e][2] /\ edges[e][1] \in ToSet(retainers[to])
                /\ Arc(from, to)
  <2> DEFINE from == Index(edges[e][1])
             to == Index(edges[e][2])
  <2>1. from # 0 /\ edges[e][2] \in ToSet(outgoing[from]) /\ to # 0 /\ edges[e][1] \in ToSet(retainers[to])
    BY DEF WellFed
  <2>2. from \in Indices /\ nodes[from] = edges[e][1] /\ to \in Indices /\ nodes[to] = edges[e][2]
    BY <2>1, <1>1
  <2>3. Arc(from, to)
    <3>1. edges[e] \in Edges /\ Edges \subseteq Ids \X Ids
      BY <1>1, ElementOfSeq, HeapAssumption
    <3>2. edges[e] = <<edges[e][1], edges[e][2]>>
      BY <3>1
    <3>3. edges[e] \in ToSet(edges)
      BY DEF ToSet
    <3> QED BY <2>2, <3>2, <3>3 DEF Arc
  <2> QED BY <2>1, <2>2, <2>3
<1>7. \A x : x \in ToSet(edges) => \E e \in DOMAIN edges : edges[e] = x
  BY DEF ToSet
<1>8. ASSUME NEW i \in Indices, NEW k \in 1 .. Len(outgoing[i])
      PROVE  LET j == Index(outgoing[i][k]) IN j \in Indices /\ nodes[j] = outgoing[i][k] /\ Arc(i, j)
  <2>1. <<nodes[i], outgoing[i][k]>> \in ToSet(edges)
    BY DEF HeapFed
  <2>2. PICK e \in DOMAIN edges : edges[e] = <<nodes[i], outgoing[i][k]>>
    BY <2>1, <1>7
  <2>3. edges[e][2] = outgoing[i][k]
    BY <2>2
  <2>4. Index(edges[e][2]) \in Indices /\ nodes[Index(edges[e][2])] = edges[e][2]
    BY <1>6
  <2> QED BY <2>1, <2>3, <2>4 DEF Arc
<1>9. ASSUME NEW i \in Indices, NEW k \in 1 .. Len(retainers[i])
      PROVE  LET j == Index(retainers[i][k]) IN j \in Indices /\ nodes[j] = retainers[i][k] /\ Arc(j, i)
  <2>1. <<retainers[i][k], nodes[i]>> \in ToSet(edges)
    BY DEF HeapFed
  <2>2. PICK e \in DOMAIN edges : edges[e] = <<retainers[i][k], nodes[i]>>
    BY <2>1, <1>7
  <2>3. edges[e][1] = retainers[i][k]
    BY <2>2
  <2>4. Index(edges[e][1]) \in Indices /\ nodes[Index(edges[e][1])] = edges[e][1]
    BY <1>6
  <2> QED BY <2>1, <2>3, <2>4 DEF Arc
<1>10. ASSUME NEW i \in Indices, NEW j \in Indices, Arc(i, j)
       PROVE  /\ \E k \in 1 .. Len(outgoing[i]) : outgoing[i][k] = nodes[j]
              /\ \E k \in 1 .. Len(retainers[j]) : retainers[j][k] = nodes[i]
  <2>1. PICK e \in DOMAIN edges : edges[e] = <<nodes[i], nodes[j]>>
    BY <1>7, <1>10 DEF Arc
  <2>2. edges[e][1] = nodes[i] /\ edges[e][2] = nodes[j]
    BY <2>1
  <2>3. nodes[j] \in ToSet(outgoing[i]) /\ nodes[i] \in ToSet(retainers[j])
    BY <2>2, <1>4, <1>6
  <2>4. outgoing[i] \in Seq(Ids) /\ retainers[j] \in Seq(Ids)
    BY <1>1
  <2> QED BY <2>3, <2>4 DEF ToSet
<1>11. ASSUME NEW e \in DOMAIN edges
       PROVE  \E i, j \in Indices : edges[e][1] = nodes[i] /\ edges[e][2] = nodes[j] /\ Arc(i, j)
  BY <1>6
<1> QED BY <1>4, <1>5, <1>8, <1>9, <1>10, <1>11

----------------------------------------------------------------------------
\* What is reached, and how far it is: every node that is reached has an edge
\* from one a step closer, and only to such as are reached.
Searched(dist) ==
  /\ dist \in [Indices -> 0 .. Unreached]
  /\ dist[RootIndex] = 0
  /\ \A i \in Indices : dist[i] # Unreached => dist[i] < Size
  /\ \A i \in Indices \ {RootIndex} : dist[i] # Unreached =>
       \E j \in Indices : Arc(j, i) /\ dist[j] # Unreached /\ dist[i] = dist[j] + 1
  /\ \A i, j \in Indices : dist[i] # Unreached /\ Arc(i, j) => dist[j] # Unreached

\* The search on the way there.
Searching(s) ==
  /\ s \in Sought
  /\ s.dist[RootIndex] = 0
  /\ \A p, q \in 1 .. Len(s.queue) : s.queue[p] = s.queue[q] => p = q
  /\ \A i \in Indices : s.dist[i] # Unreached <=> \E p \in 1 .. Len(s.queue) : s.queue[p] = nodes[i]
  /\ \A p \in 1 .. Len(s.queue) : s.dist[Index(s.queue[p])] <= p - 1
  /\ \A i \in Indices \ {RootIndex} : s.dist[i] # Unreached =>
       \E j \in Indices : Arc(j, i) /\ s.dist[j] # Unreached /\ s.dist[i] = s.dist[j] + 1

\* The first n of the queue have been looked at.
SearchedUpTo(s, n) ==
  \A p \in 1 .. Len(s.queue) : p <= n =>
    \A j \in Indices : Arc(Index(s.queue[p]), j) => s.dist[j] # Unreached

LEMMA QueueFits ==
  ASSUME HeapFed, NEW queue \in Seq(Ids),
         \A p \in 1 .. Len(queue) : Index(queue[p]) # 0,
         \A p, q \in 1 .. Len(queue) : queue[p] = queue[q] => p = q
  PROVE  Len(queue) <= Size
<1> DEFINE n == Len(queue)
           f == [p \in 1 .. n |-> Index(queue[p])]
<1>1. n \in Nat /\ Size \in Nat /\ IsFiniteSet(1 .. n) /\ Cardinality(1 .. n) = n
      /\ IsFiniteSet(1 .. Size) /\ Cardinality(1 .. Size) = Size
  <2>1. n \in Nat /\ Size \in Nat
    BY Indexed
  <2> HIDE DEF n
  <2> QED BY <2>1, UpTo
<1>2. \A p \in 1 .. n : f[p] \in 1 .. Size /\ nodes[f[p]] = queue[p]
  BY Indexed
<1>3. \A p, q \in 1 .. n : f[p] = f[q] => p = q
  <2> SUFFICES ASSUME NEW p \in 1 .. n, NEW q \in 1 .. n, f[p] = f[q] PROVE p = q
    OBVIOUS
  <2>1. queue[p] = queue[q]
    <3> HIDE DEF f
    <3> QED BY <1>2
  <2> QED BY <2>1
<1> HIDE DEF f, n
<1>4. Cardinality(1 .. n) <= Cardinality(1 .. Size)
  BY <1>1, <1>2, <1>3, Injected
<1> QED BY <1>1, <1>4 DEF n

\* What a search knows of its queue.
LEMMA SearchingFits ==
  ASSUME HeapFed, NEW s, Searching(s)
  PROVE  /\ s \in Searches /\ s.dist \in [Indices -> 0 .. Unreached] /\ s.queue \in Seq(Ids)
         /\ Len(s.queue) \in Nat /\ Len(s.queue) <= Size
         /\ \A p \in 1 .. Len(s.queue) :
              /\ Index(s.queue[p]) \in Indices /\ nodes[Index(s.queue[p])] = s.queue[p]
              /\ Index(s.queue[p]) # 0
              /\ s.dist[Index(s.queue[p])] # Unreached /\ s.dist[Index(s.queue[p])] \in Nat
<1>1. /\ s \in Searches /\ s.dist \in [Indices -> 0 .. Unreached] /\ s.queue \in Seq(Ids)
      /\ \A p \in 1 .. Len(s.queue) : Index(s.queue[p]) # 0
  BY DEF Searching, Sought, Searches
<1>2. Len(s.queue) <= Size
  BY <1>1, QueueFits DEF Searching
<1>3. \A p \in 1 .. Len(s.queue) : Index(s.queue[p]) \in Indices /\ nodes[Index(s.queue[p])] = s.queue[p]
  BY <1>1, Indexed
<1>4. \A p \in 1 .. Len(s.queue) : s.dist[Index(s.queue[p])] # Unreached
  BY <1>3 DEF Searching
<1>5. \A p \in 1 .. Len(s.queue) : s.dist[Index(s.queue[p])] \in Nat
  BY <1>1, <1>3, HeapAssumption
<1> QED BY <1>1, <1>2, <1>3, <1>4, <1>5

\* One edge of the node that is looked at.
LEMMA SearchingStep ==
  ASSUME HeapFed, WellFed, nodes # << >>, NEW t, Searching(t), NEW head \in 1 .. Len(t.queue),
         NEW id \in Ids, Index(id) # 0, Arc(Index(t.queue[head]), Index(id))
  PROVE  LET u == Looked(t, t.queue[head], id) IN
         /\ Searching(u)
         /\ u.dist[Index(id)] # Unreached
         /\ \A i \in Indices : t.dist[i] # Unreached => u.dist[i] # Unreached
         /\ Len(u.queue) >= Len(t.queue)
         /\ \A p \in 1 .. Len(t.queue) : u.queue[p] = t.queue[p]
         /\ \A p \in 1 .. Len(u.queue) : p <= head => p \in 1 .. Len(t.queue)
<1> DEFINE u == Looked(t, t.queue[head], id)
           n == Index(id)
           curr == t.queue[head]
           c == Index(curr)
           l == Len(t.queue)
<1>1. /\ t.dist \in [Indices -> 0 .. Unreached] /\ t.queue \in Seq(Ids) /\ l \in Nat /\ l <= Size
      /\ \A p \in 1 .. l : /\ Index(t.queue[p]) \in Indices /\ nodes[Index(t.queue[p])] = t.queue[p]
                           /\ Index(t.queue[p]) # 0
                           /\ t.dist[Index(t.queue[p])] # Unreached /\ t.dist[Index(t.queue[p])] \in Nat
  BY SearchingFits
<1>2. n \in Indices /\ nodes[n] = id /\ n # 0 /\ Unreached \in Nat /\ Size \in Nat /\ RootIndex \in Indices
  BY Indexed, HeapAssumption
<1>3. c \in Indices /\ c # 0 /\ t.dist[c] # Unreached /\ t.dist[c] \in Nat /\ t.dist[c] <= head - 1
      /\ Arc(c, n)
  <2>1. t.dist[c] <= head - 1
    BY DEF Searching
  <2> QED BY <1>1, <2>1
<1>4. t \in Sought
  BY DEF Searching
<1>5. CASE ~ (t.dist[n] = Unreached)
  <2>1. u = t
    BY <1>5 DEF Looked
  <2> QED BY <2>1, <1>1, <1>5
<1>6. CASE t.dist[n] = Unreached
  <2>1. /\ u \in Sought
        /\ u.dist[n] = Further(t.dist[c])
        /\ \A i \in Indices : i # n => u.dist[i] = t.dist[i]
        /\ u.queue = Append(t.queue, id) /\ Len(u.queue) = l + 1
        /\ \A p \in 1 .. l : u.queue[p] = t.queue[p]
        /\ u.queue[l + 1] = id
    BY <1>2, <1>3, <1>4, <1>6, LookedIs
  <2>2. u.queue \in Seq(Ids) /\ \A p \in 1 .. Len(u.queue) : Index(u.queue[p]) # 0
    BY <2>1 DEF Sought, Searches
  <2>3. \A p \in 1 .. l + 1 : p \in 1 .. l \/ p = l + 1
    <3>1. l \in Nat
      BY <1>1
    <3> HIDE DEF l
    <3> QED BY ONLY <3>1
  <2>4. \A p \in 1 .. l : t.queue[p] # id
    BY <1>1, <1>6
  <2>5. \A p, q \in 1 .. l : t.queue[p] = t.queue[q] => p = q
    BY DEF Searching
  <2> HIDE DEF l, u, n, c
  <2>6. \A p, q \in 1 .. Len(u.queue) : u.queue[p] = u.queue[q] => p = q
    <3> SUFFICES ASSUME NEW p \in 1 .. l + 1, NEW q \in 1 .. l + 1, u.queue[p] = u.queue[q] PROVE p = q
      BY <2>1
    <3>1. CASE p \in 1 .. l /\ q \in 1 .. l
      BY <3>1, <2>1, <2>5
    <3>2. CASE p \in 1 .. l /\ q = l + 1
      BY <3>2, <2>1, <2>4
    <3>3. CASE p = l + 1 /\ q \in 1 .. l
      BY <3>3, <2>1, <2>4
    <3>4. CASE p = l + 1 /\ q = l + 1
      BY <3>4
    <3> QED BY <3>1, <3>2, <3>3, <3>4, <2>3
  <2>7. l + 1 <= Size
    <3>1. Len(u.queue) <= Size
      BY <2>2, <2>6, QueueFits
    <3> QED BY <3>1, <2>1
  <2>8. u.dist[n] = t.dist[c] + 1 /\ u.dist[n] < Unreached /\ u.dist[n] <= l
    <3>1. Size <= Unreached /\ head \in 1 .. l
      BY FedWell DEF l
    <3>2. t.dist[c] + 1 <= l /\ t.dist[c] + 1 < Unreached /\ t.dist[c] + 1 \in Nat
      BY <3>1, <2>7, <1>1, <1>2, <1>3
    <3>3. (t.dist[c] + 1) % (Unreached + 1) = t.dist[c] + 1
      <4> DEFINE e == t.dist[c] + 1
      <4> HIDE DEF e
      <4>1. e \in Nat /\ e < Unreached + 1 /\ Unreached + 1 \in Nat
        BY <3>2, <1>2 DEF e
      <4>2. e % (Unreached + 1) = e
        BY ONLY <4>1
      <4> QED BY <4>2 DEF e
    <3> QED BY <3>2, <3>3, <2>1 DEF Further
  <2>9. u.dist[RootIndex] = 0
    <3>1. t.dist[RootIndex] = 0 /\ Unreached # 0
      BY UnreachedPositive DEF Searching
    <3>2. RootIndex # n
      BY <3>1, <1>6 DEF n
    <3> QED BY <3>1, <3>2, <2>1, <1>2
  <2>10. \A i \in Indices : t.dist[i] # Unreached => i # n /\ u.dist[i] = t.dist[i]
    BY <2>1, <1>6 DEF n
  <2>11. ASSUME NEW i \in Indices
         PROVE  u.dist[i] # Unreached <=> \E p \in 1 .. Len(u.queue) : u.queue[p] = nodes[i]
    <3>1. CASE i = n
      <4>1. u.dist[i] # Unreached
        BY <3>1, <2>8, <1>2
      <4>2. l + 1 \in 1 .. Len(u.queue)
        BY <2>1, <1>1
      <4>3. u.queue[l + 1] = nodes[i]
        BY <3>1, <2>1, <1>2 DEF n
      <4> QED BY <4>1, <4>2, <4>3
    <3>2. CASE i # n
      <4>1. u.dist[i] = t.dist[i]
        BY <3>2, <2>1
      <4>2. t.dist[i] # Unreached <=> \E p \in 1 .. l : t.queue[p] = nodes[i]
        BY DEF Searching, l
      <4>3. nodes[i] # id
        BY <3>2, FedWell DEF n
      <4>4. (\E p \in 1 .. Len(u.queue) : u.queue[p] = nodes[i]) <=> \E p \in 1 .. l : t.queue[p] = nodes[i]
        <5>1. ASSUME NEW p \in 1 .. Len(u.queue), u.queue[p] = nodes[i] PROVE \E q \in 1 .. l : t.queue[q] = nodes[i]
          <6>1. p \in 1 .. l
            BY <5>1, <2>1, <2>3, <4>3
          <6> QED BY <5>1, <6>1, <2>1
        <5>2. ASSUME NEW p \in 1 .. l, t.queue[p] = nodes[i] PROVE \E q \in 1 .. Len(u.queue) : u.queue[q] = nodes[i]
          <6>1. p \in 1 .. Len(u.queue)
            BY <2>1, <1>1
          <6> QED BY <5>2, <6>1, <2>1
        <5> QED BY <5>1, <5>2
      <4> QED BY <4>1, <4>2, <4>4
    <3> QED BY <3>1, <3>2
  <2>12. ASSUME NEW p \in 1 .. Len(u.queue) PROVE u.dist[Index(u.queue[p])] <= p - 1
    <3>1. CASE p \in 1 .. l
      <4>1. t.dist[Index(t.queue[p])] <= p - 1
        BY <3>1 DEF Searching, l
      <4>2. u.dist[Index(t.queue[p])] = t.dist[Index(t.queue[p])]
        BY <3>1, <1>1, <2>10
      <4> QED BY <3>1, <4>1, <4>2, <2>1
    <3>2. CASE p = l + 1
      <4>1. Index(u.queue[p]) = n /\ p - 1 = l
        BY <3>2, <2>1, <1>1 DEF n
      <4> QED BY <4>1, <2>8
    <3> QED BY <3>1, <3>2, <2>1, <2>3
  <2>13. ASSUME NEW i \in Indices \ {RootIndex}, u.dist[i] # Unreached
         PROVE  \E j \in Indices : Arc(j, i) /\ u.dist[j] # Unreached /\ u.dist[i] = u.dist[j] + 1
    <3>1. CASE i = n
      <4>1. u.dist[c] = t.dist[c]
        BY <1>3, <2>10
      <4> QED BY <3>1, <4>1, <1>3, <2>8
    <3>2. CASE i # n
      <4>1. t.dist[i] # Unreached /\ u.dist[i] = t.dist[i]
        BY <3>2, <2>13, <2>1
      <4>2. PICK j \in Indices : Arc(j, i) /\ t.dist[j] # Unreached /\ t.dist[i] = t.dist[j] + 1
        BY <4>1 DEF Searching
      <4>3. u.dist[j] = t.dist[j]
        BY <4>2, <2>10
      <4> QED BY <4>1, <4>2, <4>3
    <3> QED BY <3>1, <3>2
  <2>14. Searching(u)
    BY <2>1, <2>6, <2>9, <2>11, <2>12, <2>13 DEF Searching
  <2>15. u.dist[n] # Unreached
    BY <2>8, <1>2
  <2>16. Len(u.queue) >= l /\ \A p \in 1 .. Len(u.queue) : p <= head => p \in 1 .. l
    <3>1. head \in 1 .. l
      BY DEF l
    <3> QED BY <3>1, <2>1, <1>1
  <2> QED BY <2>1, <2>10, <2>14, <2>15, <2>16 DEF u, n, l
<1> QED BY <1>5, <1>6

\* One node.
LEMMA SearchingLook ==
  ASSUME HeapFed, WellFed, nodes # << >>, NEW s, Searching(s), NEW head \in 1 .. Len(s.queue),
         SearchedUpTo(s, head - 1)
  PROVE  LET v == LookAt(s, s.queue[head]) IN Searching(v) /\ SearchedUpTo(v, head)
<1> DEFINE curr == s.queue[head]
           c == Index(curr)
           to == outgoing[c]
           Good == {x \in Nat \X Sought :
                      /\ Searching(x[2])
                      /\ head \in 1 .. Len(x[2].queue) /\ x[2].queue[head] = curr
                      /\ SearchedUpTo(x[2], head - 1)
                      /\ \A k \in 1 .. Len(to) : k <= x[1] => x[2].dist[Index(to[k])] # Unreached}
<1>1. c \in Indices /\ c # 0 /\ to \in Seq(Ids) /\ Len(to) \in Nat /\ head \in Nat
      /\ Len(s.queue) \in Nat /\ nodes[c] = curr
  <2>1. c \in Indices /\ c # 0 /\ Len(s.queue) \in Nat /\ nodes[c] = curr
    BY SearchingFits
  <2> QED BY <2>1 DEF HeapFed
<1>2. \A k \in 1 .. Len(to) : /\ to[k] \in Ids /\ Index(to[k]) \in Indices /\ Index(to[k]) # 0
                              /\ nodes[Index(to[k])] = to[k] /\ Arc(c, Index(to[k]))
  <2> TAKE k \in 1 .. Len(to)
  <2>1. Index(to[k]) \in Indices /\ nodes[Index(to[k])] = to[k] /\ Arc(c, Index(to[k]))
    BY <1>1, FedWell
  <2> QED BY <2>1, <1>1, Indexed
<1>3. \A p : p \in Good => p[2] \in Sought
  OBVIOUS
<1>4. <<0, s>> \in Good
  <2>1. s \in Sought /\ \A k \in 1 .. Len(to) : ~ (k <= 0)
    BY DEF Searching
  <2> QED BY <2>1
<1> HIDE DEF curr, c, to
<1>5. ASSUME NEW j \in 1 .. Len(to), NEW t, <<j - 1, t>> \in Good
      PROVE  <<j, Looked(t, curr, to[j])>> \in Good
  <2>1. /\ Searching(t) /\ head \in 1 .. Len(t.queue) /\ t.queue[head] = curr
        /\ SearchedUpTo(t, head - 1)
        /\ \A k \in 1 .. Len(to) : k <= j - 1 => t.dist[Index(to[k])] # Unreached
    BY <1>5
  <2> DEFINE u == Looked(t, curr, to[j])
  <2>2. to[j] \in Ids /\ Index(to[j]) # 0 /\ Arc(Index(t.queue[head]), Index(to[j]))
    BY <1>2, <2>1 DEF c
  <2>3. /\ Searching(u)
        /\ u.dist[Index(to[j])] # Unreached
        /\ \A i \in Indices : t.dist[i] # Unreached => u.dist[i] # Unreached
        /\ Len(u.queue) >= Len(t.queue)
        /\ \A p \in 1 .. Len(t.queue) : u.queue[p] = t.queue[p]
        /\ \A p \in 1 .. Len(u.queue) : p <= head => p \in 1 .. Len(t.queue)
    <3> DEFINE id == to[j]
    <3> HIDE DEF id
    <3>1. id \in Ids /\ Index(id) # 0 /\ Arc(Index(t.queue[head]), Index(id))
      BY <2>2 DEF id
    <3>2. curr = t.queue[head] /\ Searching(t) /\ head \in 1 .. Len(t.queue)
      BY <2>1
    <3> QED BY <3>1, <3>2, SearchingStep DEF id
  <2> HIDE DEF u
  <2>4. Len(u.queue) \in Nat /\ Len(t.queue) \in Nat /\ u \in Sought
    BY <2>1, <2>3, SearchingFits DEF Searching
  <2>5. head \in 1 .. Len(u.queue) /\ u.queue[head] = curr
    BY <2>1, <2>3, <2>4
  <2>6. SearchedUpTo(u, head - 1)
    <3> SUFFICES ASSUME NEW p \in 1 .. Len(u.queue), p <= head - 1, NEW i \in Indices, Arc(Index(u.queue[p]), i)
                 PROVE  u.dist[i] # Unreached
      BY DEF SearchedUpTo
    <3>1. p \in 1 .. Len(t.queue) /\ u.queue[p] = t.queue[p]
      BY <2>3, <2>4, <2>1
    <3>2. t.dist[i] # Unreached
      BY <3>1, <2>1 DEF SearchedUpTo
    <3> QED BY <3>2, <2>3
  <2>7. \A k \in 1 .. Len(to) : k <= j => u.dist[Index(to[k])] # Unreached
    <3> TAKE k \in 1 .. Len(to)
    <3>1. k = j \/ (k <= j => k <= j - 1)
      BY <1>1
    <3>2. Index(to[k]) \in Indices
      BY <1>2
    <3> QED BY <3>1, <3>2, <2>1, <2>3
  <2>8. j \in Nat
    BY <1>1
  <2> QED BY <2>3, <2>4, <2>5, <2>6, <2>7, <2>8 DEF u
<1> HIDE DEF Good
<1>6. <<Len(to), LookAt(s, curr)>> \in Good
  BY <1>1, <1>3, <1>4, <1>5, LookAtKeeps DEF c, to
<1> DEFINE v == LookAt(s, curr)
<1> HIDE DEF v
<1>7. /\ Searching(v) /\ head \in 1 .. Len(v.queue) /\ v.queue[head] = curr
      /\ SearchedUpTo(v, head - 1)
      /\ \A k \in 1 .. Len(to) : k <= Len(to) => v.dist[Index(to[k])] # Unreached
  <2>1. <<Len(to), v>> \in Good
    BY <1>6 DEF v
  <2> QED BY <2>1 DEF Good
<1>8. SearchedUpTo(v, head)
  <2> SUFFICES ASSUME NEW p \in 1 .. Len(v.queue), p <= head, NEW i \in Indices, Arc(Index(v.queue[p]), i)
               PROVE  v.dist[i] # Unreached
    BY DEF SearchedUpTo
  <2>1. CASE p # head
    <3>1. p <= head - 1
      BY <2>1, <1>1
    <3> QED BY <3>1, <1>7 DEF SearchedUpTo
  <2>2. CASE p = head
    <3>1. Arc(c, i)
      BY <2>2, <1>7 DEF c
    <3>2. PICK k \in 1 .. Len(to) : to[k] = nodes[i]
      BY <3>1, <1>1, FedWell DEF to
    <3>3. Index(to[k]) = i
      BY <3>2, FedWell
    <3> QED BY <3>3, <1>7, <1>1
  <2> QED BY <2>1, <2>2
<1> QED BY <1>7, <1>8 DEF v, curr

\* All of them: the distances of a snapshot fed as snapshots are.
LEMMA DistancesSearched ==
  ASSUME HeapFed, WellFed, nodes # << >>
  PROVE  Searched(Distances(TRUE))
<1> DEFINE Good == {x \in Nat \X Sought : Searching(x[2]) /\ SearchedUpTo(x[2], x[1])}
<1>1. Distances(TRUE) = Search(FirstSearch).dist
  BY DEF Distances, FirstSearch
<1>2. Size \in Nat /\ Indices = 1 .. Size /\ RootIndex \in Indices /\ Unreached \in Nat /\ Unreached # 0
  BY Indexed, UnreachedPositive
<1>3. \A p : p \in Good => p[2] \in Searches
  BY DEF Sought
<1>4. <<0, FirstSearch>> \in Good
  <2> DEFINE s == FirstSearch
  <2>1. /\ s \in Sought /\ s.dist[RootIndex] = 0
        /\ \A i \in Indices : i # RootIndex => s.dist[i] = Unreached
        /\ Len(s.queue) = 1 /\ s.queue[1] = nodes[RootIndex]
    BY FirstSearchIs
  <2>2. \A i \in Indices : s.dist[i] # Unreached <=> \E p \in 1 .. Len(s.queue) : s.queue[p] = nodes[i]
    <3> TAKE i \in Indices
    <3>1. nodes[i] = nodes[RootIndex] <=> i = RootIndex
      BY <1>2, FedWell
    <3>2. s.dist[i] # Unreached <=> i = RootIndex
      BY <2>1, <1>2
    <3>3. (\E p \in 1 .. Len(s.queue) : s.queue[p] = nodes[i]) <=> nodes[i] = nodes[RootIndex]
      BY <2>1
    <3> QED BY <3>1, <3>2, <3>3
  <2>3. \A p \in 1 .. Len(s.queue) : s.dist[Index(s.queue[p])] <= p - 1
    BY <2>1, <1>2, FedWell
  <2>4. Searching(s)
    BY <2>1, <2>2, <2>3 DEF Searching
  <2>5. SearchedUpTo(s, 0)
    BY DEF SearchedUpTo
  <2> QED BY <2>1, <2>4, <2>5
<1>5. ASSUME NEW head \in Indices, NEW s, <<head - 1, s>> \in Good
      PROVE  <<head, IF head <= Len(s.queue) THEN LookAt(s, s.queue[head]) ELSE s>> \in Good
  <2>1. Searching(s) /\ SearchedUpTo(s, head - 1) /\ s \in Sought /\ head \in Nat /\ head \in 1 .. Size
    BY <1>2, <1>5
  <2>2. Len(s.queue) \in Nat
    BY <2>1, SearchingFits
  <2>3. CASE head <= Len(s.queue)
    <3>1. head \in 1 .. Len(s.queue)
      BY <2>1, <2>2, <2>3
    <3> DEFINE v == LookAt(s, s.queue[head])
    <3>2. Searching(v) /\ SearchedUpTo(v, head)
      BY <2>1, <3>1, SearchingLook
    <3>3. v \in Sought
      BY <3>2 DEF Searching
    <3> HIDE DEF v
    <3> QED BY <2>1, <2>3, <3>2, <3>3 DEF v
  <2>4. CASE ~ (head <= Len(s.queue))
    <3>1. \A p \in 1 .. Len(s.queue) : p <= head - 1
      BY <2>1, <2>2, <2>4
    <3>2. SearchedUpTo(s, head)
      BY <2>1, <3>1 DEF SearchedUpTo
    <3> QED BY <2>1, <2>4, <3>2
  <2> QED BY <2>3, <2>4
<1> HIDE DEF Good
<1>6. <<Size, Search(FirstSearch)>> \in Good
  BY <1>3, <1>4, <1>5, SearchKeeps
<1> DEFINE v == Search(FirstSearch)
<1>7. Searching(v) /\ SearchedUpTo(v, Size)
  <2> HIDE DEF v
  <2>1. <<Size, v>> \in Good
    BY <1>6 DEF v
  <2> QED BY <2>1 DEF Good
<1> HIDE DEF v
<1>8. /\ v.dist \in [Indices -> 0 .. Unreached] /\ Len(v.queue) \in Nat /\ Len(v.queue) <= Size
      /\ \A p \in 1 .. Len(v.queue) : Index(v.queue[p]) \in Indices
  BY <1>7, SearchingFits
<1>9. \A i \in Indices : v.dist[i] # Unreached =>
        \E p \in 1 .. Len(v.queue) : p <= Size /\ v.queue[p] = nodes[i] /\ Index(v.queue[p]) = i /\ v.dist[i] <= p - 1
  <2> SUFFICES ASSUME NEW i \in Indices, v.dist[i] # Unreached
               PROVE  \E p \in 1 .. Len(v.queue) : p <= Size /\ v.queue[p] = nodes[i] /\ Index(v.queue[p]) = i /\ v.dist[i] <= p - 1
    OBVIOUS
  <2>1. PICK p \in 1 .. Len(v.queue) : v.queue[p] = nodes[i]
    BY <1>7 DEF Searching
  <2>2. Index(v.queue[p]) = i
    BY <2>1, FedWell
  <2>3. v.dist[i] <= p - 1
    BY <2>2, <1>7 DEF Searching
  <2>4. p <= Size
    BY <1>2, <1>8
  <2> QED BY <2>1, <2>2, <2>3, <2>4
<1>10. \A i \in Indices : v.dist[i] # Unreached => v.dist[i] < Size
  <2> SUFFICES ASSUME NEW i \in Indices, v.dist[i] # Unreached PROVE v.dist[i] < Size
    OBVIOUS
  <2>1. PICK p \in 1 .. Len(v.queue) : p <= Size /\ v.dist[i] <= p - 1
    BY <1>9
  <2>2. v.dist[i] \in Nat
    BY <1>8, <1>2
  <2> QED BY <2>1, <2>2, <1>2, <1>8
<1>11. \A i, j \in Indices : v.dist[i] # Unreached /\ Arc(i, j) => v.dist[j] # Unreached
  BY <1>7, <1>9 DEF SearchedUpTo
<1>12. v.dist[RootIndex] = 0 /\ \A i \in Indices \ {RootIndex} : v.dist[i] # Unreached =>
         \E j \in Indices : Arc(j, i) /\ v.dist[j] # Unreached /\ v.dist[i] = v.dist[j] + 1
  BY <1>7 DEF Searching
<1> QED BY <1>1, <1>8, <1>10, <1>11, <1>12 DEF Searched, v

----------------------------------------------------------------------------
\* The nodes the root reaches on paths that avoid an id.
Avoiding(v) == {i \in Indices : nodes[i] \in ReachedWithout(v)}

LEMMA AvoidingClosed ==
  ASSUME HeapFed, WellFed, nodes # << >>, NEW v
  PROVE  /\ nodes[RootIndex] # v => RootIndex \in Avoiding(v)
         /\ \A x \in Avoiding(v), y \in Indices : Arc(x, y) /\ nodes[y] # v => y \in Avoiding(v)
<1>1. \A i \in Indices : nodes[i] \in ToSet(nodes)
  BY DEF Indices, Size, ToSet, HeapFed
<1>2. RootIndex \in Indices
  BY Indexed
<1>3. ASSUME nodes[RootIndex] # v PROVE RootIndex \in Avoiding(v)
  BY <1>1, <1>2, <1>3 DEF Avoiding, ReachedWithout, Closed
<1>4. ASSUME NEW x \in Avoiding(v), NEW y \in Indices, Arc(x, y), nodes[y] # v PROVE y \in Avoiding(v)
  <2>1. PICK e \in DOMAIN edges : edges[e] = <<nodes[x], nodes[y]>>
    BY <1>4 DEF Arc, ToSet
  <2>2. edges[e][1] = nodes[x] /\ edges[e][2] = nodes[y]
    BY <2>1
  <2>3. ASSUME NEW ids \in SUBSET ToSet(nodes), Closed(ids, v) PROVE nodes[y] \in ids
    <3>1. nodes[x] \in ids
      BY <2>3 DEF Avoiding, ReachedWithout
    <3>2. nodes[y] \in ids \union {v}
      BY <2>2, <2>3, <3>1 DEF Closed
    <3> QED BY <3>2, <1>4
  <2> QED BY <2>3, <1>1 DEF Avoiding, ReachedWithout
<1> QED BY <1>3, <1>4

LEMMA AvoidingLeast ==
  ASSUME HeapFed, WellFed, nodes # << >>, NEW v, NEW S \in SUBSET Indices,
         nodes[RootIndex] = v \/ RootIndex \in S,
         \A x \in S, y \in Indices : Arc(x, y) => y \in S \/ nodes[y] = v
  PROVE  Avoiding(v) \subseteq S
<1> DEFINE ids == {nodes[x] : x \in S}
<1>1. \A i \in Indices : nodes[i] \in ToSet(nodes)
  BY DEF Indices, Size, ToSet, HeapFed
<1>2. \A i, j \in Indices : nodes[i] = nodes[j] => i = j
  BY FedWell
<1>3. ids \in SUBSET ToSet(nodes)
  BY <1>1
<1>4. \A i \in Indices : nodes[i] \in ids <=> i \in S
  BY <1>2
<1> HIDE DEF ids
<1>5. Closed(ids, v)
  <2>1. nodes[RootIndex] \in ids \union {v}
    BY <1>4, Indexed
  <2>2. ASSUME NEW e \in DOMAIN edges, edges[e][1] \in ids PROVE edges[e][2] \in ids \union {v}
    <3>1. PICK i \in Indices, j \in Indices : edges[e][1] = nodes[i] /\ edges[e][2] = nodes[j] /\ Arc(i, j)
      BY FedWell
    <3> QED BY <3>1, <2>2, <1>4
  <2> QED BY <2>1, <2>2 DEF Closed
<1>6. ASSUME NEW i \in Avoiding(v) PROVE i \in S
  BY <1>3, <1>4, <1>5 DEF Avoiding, ReachedWithout
<1> QED BY <1>6

\* What is not further than the avoided node is reached without it.
LEMMA NearAvoids ==
  ASSUME HeapFed, WellFed, nodes # << >>, NEW dist, Searched(dist), NEW v,
         NEW i \in Indices, dist[i] # Unreached, nodes[i] # v,
         \A a \in Indices : nodes[a] = v => dist[i] <= dist[a]
  PROVE  i \in Avoiding(v)
<1> DEFINE Far(n) == \A x \in Indices :
             dist[x] # Unreached /\ nodes[x] # v /\ dist[x] <= n /\ dist[x] <= dist[i] => x \in Avoiding(v)
           S == {n \in Nat : Far(n)}
<1>1. \A x \in Indices : dist[x] \in Nat
  BY HeapAssumption DEF Searched
<1>2. ASSUME NEW x \in Indices, dist[x] # Unreached, nodes[x] # v, dist[x] <= dist[i],
             \A y \in Indices : dist[y] # Unreached /\ nodes[y] # v /\ dist[y] < dist[x] => y \in Avoiding(v)
      PROVE  x \in Avoiding(v)
  <2>1. CASE x = RootIndex
    BY <2>1, <1>2, AvoidingClosed
  <2>2. CASE x # RootIndex
    <3>1. PICK j \in Indices : Arc(j, x) /\ dist[j] # Unreached /\ dist[x] = dist[j] + 1
      BY <2>2, <1>2 DEF Searched
    <3>2. dist[j] < dist[x] /\ dist[j] < dist[i]
      BY <3>1, <1>1, <1>2
    <3>3. nodes[j] # v
      BY <3>2, <1>1
    <3>4. j \in Avoiding(v)
      BY <3>1, <3>2, <3>3, <1>2
    <3> QED BY <3>1, <3>4, <1>2, AvoidingClosed
  <2> QED BY <2>1, <2>2
<1>3. 0 \in S
  <2> SUFFICES ASSUME NEW x \in Indices, dist[x] # Unreached, nodes[x] # v, dist[x] <= 0, dist[x] <= dist[i]
               PROVE  x \in Avoiding(v)
    OBVIOUS
  <2>1. \A y \in Indices : ~ (dist[y] < dist[x])
    BY <1>1
  <2> QED BY <2>1, <1>2
<1>4. ASSUME NEW n \in Nat, n \in S PROVE n + 1 \in S
  <2> SUFFICES ASSUME NEW x \in Indices, dist[x] # Unreached, nodes[x] # v, dist[x] <= n + 1, dist[x] <= dist[i]
               PROVE  x \in Avoiding(v)
    OBVIOUS
  <2>1. \A y \in Indices : dist[y] < dist[x] => dist[y] <= n /\ dist[y] <= dist[i]
    BY <1>1
  <2> QED BY <2>1, <1>2, <1>4
<1>5. \A n \in Nat : n \in S
  <2> HIDE DEF S
  <2> QED BY <1>3, <1>4, Induction
<1>6. Far(dist[i])
  BY <1>1, <1>5
<1> QED BY <1>1, <1>6

\* The nodes reached.
Near(dist) == {i \in Indices : dist[i] # Unreached}

LEMMA NearIsReached ==
  ASSUME HeapFed, WellFed, nodes # << >>, NEW dist, Searched(dist)
  PROVE  Avoiding(0) = Near(dist) /\ RootIndex \in Near(dist)
<1>1. 0 \notin Ids /\ RootIndex \in Indices /\ \A i \in Indices : nodes[i] \in Ids
  BY Indexed
<1>2. RootIndex \in Near(dist)
  BY <1>1, UnreachedPositive DEF Near, Searched
<1>3. Avoiding(0) \subseteq Near(dist)
  <2>1. Near(dist) \in SUBSET Indices /\ \A x \in Near(dist), y \in Indices : Arc(x, y) => y \in Near(dist)
    BY DEF Near, Searched
  <2> QED BY <1>2, <2>1, AvoidingLeast
<1>4. ASSUME NEW i \in Near(dist) PROVE i \in Avoiding(0)
  BY <1>1, NearAvoids DEF Near
<1> QED BY <1>2, <1>3, <1>4

\* The nodes reached that no path from the root reaches but through one.
Below(dist, a) == Near(dist) \ Avoiding(nodes[a])

LEMMA BelowIs ==
  ASSUME HeapFed, WellFed, nodes # << >>, NEW dist, Searched(dist), NEW a \in Near(dist)
  PROVE  /\ a \in Below(dist, a) /\ Below(dist, a) \subseteq Near(dist)
         /\ \A i \in Below(dist, a), j \in Near(dist) : i # a /\ Arc(j, i) => j \in Below(dist, a)
         /\ RootIndex \in Below(dist, a) => a = RootIndex
         /\ \A i \in Below(dist, a) : i # a => dist[a] < dist[i]
         /\ \A i \in Indices : nodes[i] \in Dominated(nodes[a]) <=> i \in Below(dist, a)
<1>1. \A i, j \in Indices : nodes[i] = nodes[j] => i = j
  BY FedWell
<1>2. a \in Indices /\ RootIndex \in Near(dist) /\ Avoiding(0) = Near(dist) /\ RootIndex \in Indices
      /\ Near(dist) \subseteq Indices
  BY NearIsReached, Indexed DEF Near
<1>3. a \notin Avoiding(nodes[a])
  <2>1. Indices \ {a} \in SUBSET Indices
    OBVIOUS
  <2>2. nodes[RootIndex] = nodes[a] \/ RootIndex \in Indices \ {a}
    BY <1>2
  <2>3. \A x \in Indices \ {a}, y \in Indices : Arc(x, y) => y \in Indices \ {a} \/ nodes[y] = nodes[a]
    BY <1>2
  <2>4. Avoiding(nodes[a]) \subseteq Indices \ {a}
    <3> DEFINE S == Indices \ {a}
    <3> HIDE DEF S
    <3>1. Avoiding(nodes[a]) \subseteq S
      BY <2>1, <2>2, <2>3, AvoidingLeast DEF S
    <3> QED BY <3>1 DEF S
  <2> QED BY <2>4
<1>4. ASSUME NEW i \in Below(dist, a), NEW j \in Near(dist), i # a, Arc(j, i) PROVE j \in Below(dist, a)
  <2>1. nodes[i] # nodes[a] /\ i \in Indices /\ i \notin Avoiding(nodes[a])
    BY <1>1, <1>2, <1>4 DEF Below
  <2>2. j \notin Avoiding(nodes[a])
    BY <2>1, <1>4, AvoidingClosed
  <2> QED BY <2>2 DEF Below
<1>5. ASSUME RootIndex \in Below(dist, a) PROVE a = RootIndex
  <2>1. nodes[RootIndex] = nodes[a]
    BY <1>5, AvoidingClosed DEF Below
  <2> QED BY <2>1, <1>1, <1>2
<1>6. ASSUME NEW i \in Below(dist, a), i # a PROVE dist[a] < dist[i]
  <2>1. i \in Indices /\ dist[i] # Unreached /\ i \notin Avoiding(nodes[a]) /\ nodes[i] # nodes[a]
    BY <1>1, <1>2, <1>6 DEF Below, Near
  <2>2. dist[i] \in Nat /\ dist[a] \in Nat
    BY <2>1, <1>2, HeapAssumption DEF Searched
  <2>3. SUFFICES ASSUME dist[i] <= dist[a] PROVE FALSE
    BY <2>2
  <2>4. \A b \in Indices : nodes[b] = nodes[a] => dist[i] <= dist[b]
    BY <1>1, <1>2, <2>3
  <2> QED BY <2>1, <2>4, NearAvoids
<1>7. ASSUME NEW i \in Indices PROVE nodes[i] \in Dominated(nodes[a]) <=> i \in Below(dist, a)
  <2>1. \A j \in Indices : nodes[j] \in Reached <=> j \in Near(dist)
    BY <1>2 DEF Avoiding, Reached
  <2>2. nodes[i] \in ReachedWithout(nodes[a]) <=> i \in Avoiding(nodes[a])
    BY DEF Avoiding
  <2>3. nodes[a] \in Reached
    BY <2>1, <1>2
  <2> QED BY <2>1, <2>2, <2>3 DEF Dominated, Below
<1> QED BY <1>3, <1>2, <1>4, <1>5, <1>6, <1>7 DEF Below

----------------------------------------------------------------------------
\* What the half-done dominators never lose: whoever dominates a node dominates
\* what it has for a dominator.
Sound(dist, dom) ==
  \A i \in Had(dom) \ {RootIndex} : \A a \in Near(dist) :
    i \in Below(dist, a) /\ a # i => Index(dom[i]) \in Below(dist, a)

LEMMA SoundKept ==
  ASSUME HeapFed, WellFed, nodes # << >>, NEW dist, Distanced(dist), Searched(dist), NEW dom, NEW ord,
         Headed(dist, dom, ord), Sound(dist, dom), NEW i \in Indices
  PROVE  Sound(dist, Turned(dist, dom, i))
<1> DEFINE d1 == Turned(dist, dom, i)
<1>1. CASE i = RootIndex \/ dist[i] = Unreached
  BY <1>1 DEF Turned
<1>2. CASE ~ (i = RootIndex \/ dist[i] = Unreached)
  <2>1. d1 = [dom EXCEPT ![i] = NewDominator(dist, dom, i)]
    BY <1>2 DEF Turned
  <2>2. dom \in [Indices -> Ids \union {0}]
    BY DEF Headed
  <2>3. d1[i] = NewDominator(dist, dom, i) /\ \A j \in Indices : j # i => d1[j] = dom[j]
    BY <2>1, <2>2
  <2> HIDE DEF d1
  <2> SUFFICES ASSUME NEW j \in Had(d1) \ {RootIndex}, NEW a \in Near(dist), j \in Below(dist, a), a # j
               PROVE  Index(d1[j]) \in Below(dist, a)
    BY DEF Sound, d1
  <2>4. CASE j # i
    <3>1. j \in Had(dom) \ {RootIndex} /\ d1[j] = dom[j]
      BY <2>3, <2>4 DEF Had
    <3> QED BY <3>1 DEF Sound
  <2>5. CASE j = i
    <3>1. d1[i] # 0
      BY <2>5 DEF Had
    <3>2. Sources(dom, i) # {}
      BY <3>1, <2>3, NewDominatorIs
    <3>3. PICK c \in Led(dom) :
           /\ NewDominator(dist, dom, i) = nodes[c]
           /\ \A S : FingersStay(dist, dom, S) /\ Sources(dom, i) \subseteq S => c \in S
      BY <3>2, NewDominatorIs
    <3> DEFINE E == Below(dist, a) \cap Led(dom)
    <3>4. \A x \in Led(dom) : x \in Near(dist) /\ x \in Indices
      BY NearIsReached DEF Led, Had, Headed, Near
    <3>5. FingersStay(dist, dom, E)
      <4> SUFFICES ASSUME NEW f \in E, NEW g \in E, f # g, dist[f] >= dist[g]
                   PROVE  Index(dom[f]) \in E
        BY DEF FingersStay
      <4>1. f # a
        <5> SUFFICES ASSUME f = a PROVE FALSE
          OBVIOUS
        <5>1. dist[a] < dist[g]
          BY BelowIs
        <5>2. dist[a] \in Nat /\ dist[g] \in Nat
          BY <3>4, HeapAssumption DEF Searched
        <5> QED BY <5>1, <5>2
      <4>2. f # RootIndex
        BY <4>1, BelowIs
      <4>3. f \in Had(dom) \ {RootIndex}
        BY <4>2 DEF Led
      <4>4. Index(dom[f]) \in Below(dist, a)
        BY <4>1, <4>3 DEF Sound
      <4>5. Index(dom[f]) \in Led(dom)
        BY <4>3 DEF Headed
      <4> QED BY <4>4, <4>5
    <3>6. Sources(dom, i) \subseteq E
      <4> SUFFICES ASSUME NEW r \in Sources(dom, i) PROVE r \in Below(dist, a) /\ r \in Led(dom)
        OBVIOUS
      <4>1. PICK k \in 1 .. Len(retainers[i]) : r = Index(retainers[i][k]) /\ r \in Led(dom)
        BY DEF Sources
      <4>2. Arc(r, i)
        BY <4>1, FedWell
      <4> QED BY <4>1, <4>2, <3>4, <2>5, BelowIs
    <3> HIDE DEF E
    <3>7. c \in E
      BY <3>3, <3>5, <3>6
    <3>8. Index(nodes[c]) = c
      BY DEF Led
    <3> QED BY <3>3, <3>7, <3>8, <2>3, <2>5 DEF E
  <2> QED BY <2>4, <2>5
<1> QED BY <1>1, <1>2

----------------------------------------------------------------------------
\* The dominators that a pass finds as they should be.
Settled(dist, dom) ==
  \A i \in Near(dist) \ {RootIndex} : dom[i] = NewDominator(dist, dom, i)

LEMMA PassSettles ==
  ASSUME HeapFed, nodes # << >>, NEW dist, Distanced(dist), NEW dom, NEW ord, Headed(dist, dom, ord),
         Pass(dist, dom) = dom
  PROVE  Settled(dist, dom)
<1> DEFINE step == [i \in Indices |-> [d \in Doms |->
                      IF i = RootIndex \/ dist[i] = Unreached THEN d
                      ELSE [d EXCEPT ![i] = NewDominator(dist, d, i)]]]
           Right(j) == j \in Near(dist) \ {RootIndex} => dom[j] = NewDominator(dist, dom, j)
           All == {d \in Doms : \E o : Headed(dist, d, o)}
           Good == {p \in (0 .. Size) \X All :
                      \/ \E j \in 1 .. Size : j <= p[1] /\ p[2][j] # dom[j]
                      \/ p[2] = dom /\ \A j \in 1 .. Size : j <= p[1] => Right(j)}
<1>1. Size \in Nat /\ Indices = 1 .. Size /\ 0 \in 0 .. Size
  BY Indexed
<1>2. \A d, o : Headed(dist, d, o) => d \in All /\ d \in [Indices -> Ids \union {0}]
  BY DEF Headed, Doms, Dominator
<1>3. <<0, dom>> \in Good
  <2>1. dom \in All /\ \A j \in 1 .. Size : ~ (j <= 0)
    BY <1>2
  <2> HIDE DEF All, Right
  <2> QED BY <2>1, <1>1
<1>4. ASSUME NEW i \in 1 .. Size, NEW v, <<i - 1, v>> \in Good PROVE <<i, step[i][v]>> \in Good
  <2> DEFINE w == step[i][v]
  <2>1. v \in All /\ v \in Doms /\ i \in Indices /\ i \in 0 .. Size
    BY <1>1, <1>4
  <2>2. \/ \E j \in 1 .. Size : j <= i - 1 /\ v[j] # dom[j]
        \/ v = dom /\ \A j \in 1 .. Size : j <= i - 1 => Right(j)
    <3> HIDE DEF Right, All
    <3> QED BY <1>4
  <2>3. PICK o : Headed(dist, v, o)
    BY <2>1
  <2>4. w = Turned(dist, v, i)
    BY <2>1 DEF Turned
  <2>5. w \in All
    BY <2>1, <2>3, <2>4, <1>2, TurnKept
  <2>6. v \in [Indices -> Ids \union {0}]
    BY <2>3, <1>2
  <2>7. /\ \A j \in Indices : j # i => w[j] = v[j]
        /\ i \in Near(dist) \ {RootIndex} => w[i] = NewDominator(dist, v, i)
        /\ i \notin Near(dist) \ {RootIndex} => w = v
    BY <2>1, <2>4, <2>6 DEF Turned, Near
  <2> HIDE DEF w, All, Right
  <2>8. CASE \E j \in 1 .. Size : j <= i - 1 /\ v[j] # dom[j]
    <3>1. PICK j \in 1 .. Size : j <= i - 1 /\ v[j] # dom[j]
      BY <2>8
    <3>2. j # i /\ j <= i /\ w[j] # dom[j]
      BY <3>1, <2>7, <1>1
    <3>3. <<i, w>> \in Good
      BY <3>2, <2>1, <2>5
    <3> QED BY <3>3 DEF w
  <2>9. CASE v = dom /\ \A j \in 1 .. Size : j <= i - 1 => Right(j)
    <3>1. CASE w = dom
      <4>1. Right(i)
        BY <3>1, <2>7, <2>9 DEF Right
      <4>2. \A j \in 1 .. Size : j <= i => j = i \/ j <= i - 1
        BY <1>1
      <4>3. \A j \in 1 .. Size : j <= i => Right(j)
        BY <4>1, <4>2, <2>9
      <4>4. <<i, w>> \in Good
        BY <3>1, <4>3, <2>1, <2>5
      <4> QED BY <4>4 DEF w
    <3>2. CASE w # dom
      <4>1. w[i] # dom[i]
        <5>1. i \in Near(dist) \ {RootIndex}
          BY <3>2, <2>7, <2>9
        <5>2. w = [dom EXCEPT ![i] = NewDominator(dist, dom, i)]
          BY <5>1, <2>4, <2>9 DEF Turned, Near
        <5>3. dom \in [Indices -> Ids \union {0}]
          BY <2>6, <2>9
        <5> QED BY <5>2, <5>3, <3>2, <2>1
      <4>2. i <= i
        BY <1>1
      <4>3. <<i, w>> \in Good
        BY <4>1, <4>2, <2>1, <2>5
      <4> QED BY <4>3 DEF w
    <3> QED BY <3>1, <3>2
  <2> QED BY <2>2, <2>8, <2>9
<1>5. Pass(dist, dom) = Looped(Size, dom, step)
  BY DEF Pass
<1> HIDE DEF step, Good
<1>6. <<Size, Looped(Size, dom, step)>> \in Good
  BY ONLY <1>1, <1>3, <1>4, LoopKeeps
<1>7. <<Size, dom>> \in Good
  BY <1>5, <1>6
<1>8. \A j \in 1 .. Size : j <= Size => Right(j)
  <2> HIDE DEF Right, All
  <2> QED BY <1>7 DEF Good
<1> QED BY <1>1, <1>8 DEF Settled, Near

\* The dominators when the passes are over.
AtRest(dist, dom, ord) ==
  /\ Distanced(dist) /\ Searched(dist)
  /\ Headed(dist, dom, ord) /\ Sound(dist, dom) /\ Settled(dist, dom)

LEMMA AllLed ==
  ASSUME HeapFed, WellFed, nodes # << >>, NEW dist, NEW dom, NEW ord, AtRest(dist, dom, ord)
  PROVE  /\ Led(dom) = Near(dist) /\ Had(dom) = Near(dist) /\ Near(dist) \subseteq Indices
         /\ RootIndex \in Near(dist) /\ Index(dom[RootIndex]) = RootIndex
         /\ \A i \in Near(dist) : dom[i] = nodes[Index(dom[i])] /\ Index(dom[i]) \in Near(dist)
         /\ \A i \in Near(dist) \ {RootIndex} :
              /\ ord[Index(dom[i])] < ord[i] /\ Index(dom[i]) # i
              /\ \A j \in Near(dist) : Arc(j, i) =>
                   \A U : UpClosed(dom, U) /\ j \in U => Index(dom[i]) \in U
         /\ \A i \in Near(dist) : ord[i] \in Nat /\ dist[i] \in Nat
<1>1. /\ Distanced(dist) /\ Searched(dist)
      /\ Headed(dist, dom, ord) /\ Sound(dist, dom) /\ Settled(dist, dom)
  BY DEF AtRest
<1>2. RootIndex \in Near(dist) /\ RootIndex \in Indices /\ Near(dist) \subseteq Indices
      /\ \A i \in Indices : Index(nodes[i]) = i /\ nodes[i] # 0
  BY <1>1, NearIsReached, Indexed, FedWell DEF Near
<1>3. Led(dom) = Had(dom)
  BY <1>2 DEF Led, Had
<1>4. \A i \in Indices : dist[i] \in Nat /\ ord[i] \in Nat
  BY <1>1, HeapAssumption DEF Searched, Headed
<1>5. dom[RootIndex] = nodes[RootIndex]
  BY <1>1 DEF Headed
<1>6. \A i \in Had(dom) : i \in Near(dist)
  BY <1>1, <1>2 DEF Headed, Near, Had
<1>7. ASSUME NEW i \in Near(dist) \ {RootIndex}, NEW j \in Near(dist), Arc(j, i), j \in Led(dom)
      PROVE  j \in Sources(dom, i)
  <2>1. PICK k \in 1 .. Len(retainers[i]) : retainers[i][k] = nodes[j]
    BY <1>2, <1>7, FedWell
  <2> QED BY <2>1, <1>2, <1>7 DEF Sources
<1>8. ASSUME NEW i \in Near(dist) \ {RootIndex}, NEW j \in Sources(dom, i)
      PROVE  /\ i \in Had(dom)
             /\ \A U : UpClosed(dom, U) /\ j \in U => Index(dom[i]) \in U
  <2>1. PICK c \in Led(dom) :
           /\ NewDominator(dist, dom, i) = nodes[c]
           /\ \A U : UpClosed(dom, U) /\ (\E r \in Sources(dom, i) : r \in U) => c \in U
    BY <1>1, <1>2, <1>8, NewDominatorIs
  <2>2. dom[i] = nodes[c] /\ c \in Indices
    BY <1>1, <2>1 DEF Settled, Led, Had
  <2> QED BY <2>1, <2>2, <1>2 DEF Had
<1>9. ASSUME NEW i \in Near(dist) PROVE i \in Had(dom)
  <2> DEFINE S == {n \in Nat : \A x \in Near(dist) : dist[x] <= n => x \in Had(dom)}
  <2>1. ASSUME NEW x \in Near(dist), \A y \in Near(dist) : dist[y] < dist[x] => y \in Had(dom)
        PROVE  x \in Had(dom)
    <3>1. CASE x = RootIndex
      BY <3>1, <1>2, <1>5 DEF Had
    <3>2. CASE x # RootIndex
      <4>1. PICK j \in Indices : Arc(j, x) /\ dist[j] # Unreached /\ dist[x] = dist[j] + 1
        BY <3>2, <1>1 DEF Searched, Near
      <4>2. j \in Near(dist) /\ dist[j] < dist[x]
        BY <4>1, <1>4 DEF Near
      <4>3. j \in Sources(dom, x)
        BY <4>1, <4>2, <3>2, <2>1, <1>3, <1>7
      <4> QED BY <4>3, <3>2, <1>8
    <3> QED BY <3>1, <3>2
  <2>2. 0 \in S
    <3> SUFFICES ASSUME NEW x \in Near(dist), dist[x] <= 0 PROVE x \in Had(dom)
      OBVIOUS
    <3>1. \A y \in Near(dist) : ~ (dist[y] < dist[x])
      BY <1>2, <1>4
    <3> QED BY <3>1, <2>1
  <2>3. ASSUME NEW n \in Nat, n \in S PROVE n + 1 \in S
    <3> SUFFICES ASSUME NEW x \in Near(dist), dist[x] <= n + 1 PROVE x \in Had(dom)
      OBVIOUS
    <3>1. \A y \in Near(dist) : dist[y] < dist[x] => dist[y] <= n
      BY <1>2, <1>4
    <3> QED BY <3>1, <2>1, <2>3
  <2>4. \A n \in Nat : n \in S
    <3> HIDE DEF S
    <3> QED BY <2>2, <2>3, Induction
  <2>5. dist[i] \in Nat /\ dist[i] <= dist[i]
    BY <1>2, <1>4
  <2> QED BY <2>4, <2>5
<1>10. Led(dom) = Near(dist) /\ Had(dom) = Near(dist)
  BY <1>3, <1>6, <1>9
<1>11. Index(dom[RootIndex]) = RootIndex
  BY <1>2, <1>5
<1>12. ASSUME NEW i \in Near(dist) \ {RootIndex}
       PROVE  /\ Index(dom[i]) \in Near(dist)
              /\ ord[Index(dom[i])] < ord[i] /\ Index(dom[i]) # i
              /\ \A j \in Near(dist) : Arc(j, i) =>
                   \A U : UpClosed(dom, U) /\ j \in U => Index(dom[i]) \in U
  <2>1. Index(dom[i]) \in Near(dist) /\ ord[Index(dom[i])] < ord[i]
    BY <1>1, <1>10 DEF Headed
  <2>2. ord[i] \in Nat
    BY <1>2, <1>4
  <2>3. \A j \in Near(dist) : Arc(j, i) => j \in Sources(dom, i)
    BY <1>7, <1>10
  <2>4. \A j \in Near(dist) : Arc(j, i) => \A U : UpClosed(dom, U) /\ j \in U => Index(dom[i]) \in U
    BY <1>8, <2>3
  <2> QED BY <2>1, <2>2, <2>4
<1>13. \A i \in Near(dist) : Index(dom[i]) \in Near(dist) /\ dom[i] = nodes[Index(dom[i])]
  <2> TAKE i \in Near(dist)
  <2>1. Index(dom[i]) \in Near(dist)
    BY <1>2, <1>11, <1>12
  <2>2. Index(dom[i]) # 0
    BY <2>1, <1>2, Indexed
  <2> QED BY <2>1, <2>2, Indexed
<1> QED BY <1>2, <1>4, <1>10, <1>11, <1>12, <1>13

\* One node is on the way up from another.
OnWayUp(dom, a, i) == \A U : UpClosed(dom, U) /\ i \in U => a \in U

LEMMA WayUp ==
  ASSUME HeapFed, WellFed, nodes # << >>, NEW dist, NEW dom, NEW ord, AtRest(dist, dom, ord)
  PROVE  /\ \A i \in Near(dist) : OnWayUp(dom, Index(dom[i]), i)
         /\ \A a, i \in Near(dist) : a # i /\ OnWayUp(dom, a, i) => OnWayUp(dom, a, Index(dom[i]))
         /\ \A a \in Near(dist) : OnWayUp(dom, a, RootIndex) => a = RootIndex
         /\ \A a, i \in Near(dist) : OnWayUp(dom, a, i) => ord[a] <= ord[i]
<1>1. /\ Led(dom) = Near(dist) /\ RootIndex \in Near(dist) /\ Index(dom[RootIndex]) = RootIndex
      /\ \A i \in Near(dist) : Index(dom[i]) \in Near(dist) /\ ord[i] \in Nat
  BY AllLed
<1>2. \A i \in Near(dist) : OnWayUp(dom, Index(dom[i]), i)
  BY DEF OnWayUp, UpClosed
<1>3. ASSUME NEW a \in Near(dist), NEW i \in Near(dist), a # i, OnWayUp(dom, a, i)
      PROVE  OnWayUp(dom, a, Index(dom[i]))
  <2> SUFFICES ASSUME NEW U, UpClosed(dom, U), Index(dom[i]) \in U PROVE a \in U
    BY DEF OnWayUp
  <2>1. UpClosed(dom, U \union {i})
    BY <1>1 DEF UpClosed
  <2>2. a \in U \union {i}
    BY <2>1, <1>3 DEF OnWayUp
  <2> QED BY <2>2, <1>3
<1>4. ASSUME NEW a \in Near(dist), OnWayUp(dom, a, RootIndex) PROVE a = RootIndex
  <2>1. UpClosed(dom, {RootIndex})
    BY <1>1 DEF UpClosed
  <2>2. a \in {RootIndex}
    BY <2>1, <1>4 DEF OnWayUp
  <2> QED BY <2>2
<1>5. ASSUME NEW a \in Near(dist), NEW i \in Near(dist), OnWayUp(dom, a, i) PROVE ord[a] <= ord[i]
  <2> DEFINE U == {x \in Led(dom) : ord[x] <= ord[i]}
  <2>1. ord[i] \in Nat /\ i \in Led(dom)
    BY <1>1
  <2>2. UpClosed(dom, U)
    BY <2>1, EarlierUpClosed DEF AtRest
  <2>3. i \in U
    BY <2>1
  <2> HIDE DEF U
  <2>4. a \in U
    BY <2>2, <2>3, <1>5 DEF OnWayUp
  <2> QED BY <2>4 DEF U
<1> QED BY <1>2, <1>3, <1>4, <1>5

\* The ways up are the dominators, and no others.
LEMMA WayUpIsBelow ==
  ASSUME HeapFed, WellFed, nodes # << >>, NEW dist, NEW dom, NEW ord, AtRest(dist, dom, ord),
         NEW a \in Near(dist), NEW i \in Near(dist)
  PROVE  OnWayUp(dom, a, i) <=> i \in Below(dist, a)
<1>1. /\ Led(dom) = Near(dist) /\ Had(dom) = Near(dist) /\ RootIndex \in Near(dist) /\ Near(dist) \subseteq Indices
      /\ \A x \in Near(dist) : Index(dom[x]) \in Near(dist) /\ ord[x] \in Nat
      /\ \A x \in Near(dist) \ {RootIndex} : ord[Index(dom[x])] < ord[x]
      /\ \A x \in Near(dist) \ {RootIndex}, j \in Near(dist) : Arc(j, x) =>
           OnWayUp(dom, Index(dom[x]), j)
  BY AllLed DEF OnWayUp
<1>2. Searched(dist) /\ Sound(dist, dom)
  BY DEF AtRest
<1>3. ASSUME OnWayUp(dom, a, i) PROVE i \in Below(dist, a)
  <2> DEFINE S == {x \in Near(dist) : ~ OnWayUp(dom, a, x)}
  <2>1. nodes[RootIndex] = nodes[a] \/ RootIndex \in S
    BY <1>1, WayUp
  <2>2. ASSUME NEW x \in S, NEW y \in Indices, Arc(x, y) PROVE y \in S \/ nodes[y] = nodes[a]
    <3>1. x \in Near(dist) /\ ~ OnWayUp(dom, a, x)
      OBVIOUS
    <3>2. y \in Near(dist)
      BY <3>1, <1>2, <2>2 DEF Near, Searched
    <3>3. SUFFICES ASSUME y # a, OnWayUp(dom, a, y) PROVE FALSE
      BY <3>2
    <3>4. y # RootIndex
      BY <3>3, WayUp
    <3>5. OnWayUp(dom, a, Index(dom[y]))
      BY <3>2, <3>3, WayUp
    <3>6. OnWayUp(dom, Index(dom[y]), x)
      BY <3>1, <3>2, <3>4, <2>2, <1>1
    <3>7. OnWayUp(dom, a, x)
      BY <3>5, <3>6 DEF OnWayUp
    <3> QED BY <3>1, <3>7
  <2>3. S \in SUBSET Indices
    BY <1>1
  <2> HIDE DEF S
  <2>4. Avoiding(nodes[a]) \subseteq S
    BY <2>1, <2>2, <2>3, AvoidingLeast
  <2>5. i \notin S
    BY <1>3 DEF S
  <2> QED BY <2>4, <2>5 DEF Below
<1>4. ASSUME i \in Below(dist, a) PROVE OnWayUp(dom, a, i)
  <2> DEFINE T == {n \in Nat : \A x \in Near(dist) : ord[x] <= n /\ x \in Below(dist, a) => OnWayUp(dom, a, x)}
  <2>1. ASSUME NEW x \in Near(dist), x \in Below(dist, a),
               \A y \in Near(dist) : ord[y] < ord[x] /\ y \in Below(dist, a) => OnWayUp(dom, a, y)
        PROVE  OnWayUp(dom, a, x)
    <3>1. CASE x = a
      BY <3>1 DEF OnWayUp
    <3>2. CASE x # a
      <4>1. x # RootIndex
        BY <3>2, <2>1, <1>2, BelowIs
      <4>2. Index(dom[x]) \in Below(dist, a) /\ Index(dom[x]) \in Near(dist) /\ ord[Index(dom[x])] < ord[x]
        BY <4>1, <3>2, <2>1, <1>1, <1>2 DEF Sound
      <4>3. OnWayUp(dom, a, Index(dom[x])) /\ OnWayUp(dom, Index(dom[x]), x)
        BY <4>2, <2>1, WayUp
      <4> QED BY <4>3 DEF OnWayUp
    <3> QED BY <3>1, <3>2
  <2>2. 0 \in T
    <3> SUFFICES ASSUME NEW x \in Near(dist), ord[x] <= 0, x \in Below(dist, a) PROVE OnWayUp(dom, a, x)
      OBVIOUS
    <3>1. \A y \in Near(dist) : ~ (ord[y] < ord[x])
      BY <1>1
    <3> QED BY <3>1, <2>1
  <2>3. ASSUME NEW n \in Nat, n \in T PROVE n + 1 \in T
    <3> SUFFICES ASSUME NEW x \in Near(dist), ord[x] <= n + 1, x \in Below(dist, a) PROVE OnWayUp(dom, a, x)
      OBVIOUS
    <3>1. \A y \in Near(dist) : ord[y] < ord[x] => ord[y] <= n
      BY <1>1
    <3> QED BY <3>1, <2>1, <2>3
  <2>4. \A n \in Nat : n \in T
    <3> HIDE DEF T
    <3> QED BY <2>2, <2>3, Induction
  <2>5. ord[i] \in Nat /\ ord[i] <= ord[i]
    BY <1>1
  <2> QED BY <2>4, <2>5, <1>4
<1> QED BY <1>3, <1>4

----------------------------------------------------------------------------
\* The ids the root reaches, and what each of them dominates.
LEMMA ReachedIs ==
  ASSUME HeapFed, WellFed, nodes # << >>, NEW dist, Searched(dist)
  PROVE  /\ \A i \in Indices : nodes[i] \in Reached <=> i \in Near(dist)
         /\ \A d \in Reached : \E a \in Near(dist) : d = nodes[a]
         /\ \A i \in Indices : nodes[i] \in ToSet(nodes)
         /\ Reached \subseteq ToSet(nodes)
<1>1. Avoiding(0) = Near(dist)
  BY NearIsReached
<1>2. \A i \in Indices : nodes[i] \in Reached <=> i \in Near(dist)
  BY <1>1 DEF Avoiding, Reached
<1>3. Reached \subseteq ToSet(nodes)
  BY DEF Reached, ReachedWithout
<1>4. ToSet(nodes) = {nodes[i] : i \in Indices}
  BY Indexed DEF HeapFed, ToSet, Size
<1> QED BY <1>2, <1>3, <1>4

\* A reached node's dominator is the closest of those that are above it.
DominatorIsClosest(dom, i) ==
  LET id == nodes[i]
      dominated == [n \in ToSet(nodes) |-> Dominated(n)]
      above == {d \in Reached \ {id} : id \in dominated[d]}
  IN IF i = RootIndex THEN dom[i] = id
     ELSE IF id \notin Reached THEN dom[i] = 0
     ELSE /\ dom[i] \in above
          /\ \A d \in above : dom[i] \in dominated[d]

LEMMA DominatorsRight ==
  ASSUME HeapFed, WellFed, nodes # << >>, NEW dist, NEW dom, NEW ord, AtRest(dist, dom, ord),
         NEW i \in Indices
  PROVE  DominatorIsClosest(dom, i)
<1> DEFINE id == nodes[i]
           dominated == [n \in ToSet(nodes) |-> Dominated(n)]
           above == {d \in Reached \ {id} : id \in dominated[d]}
           p == Index(dom[i])
<1>1. Searched(dist) /\ Headed(dist, dom, ord) /\ Sound(dist, dom)
  BY DEF AtRest
<1>2. /\ \A j \in Indices : nodes[j] \in Reached <=> j \in Near(dist)
      /\ \A d \in Reached : \E a \in Near(dist) : d = nodes[a]
      /\ \A d \in Reached : dominated[d] = Dominated(d)
  BY <1>1, ReachedIs
<1>3. \A a \in Near(dist) : \A j \in Indices : nodes[j] \in Dominated(nodes[a]) <=> j \in Below(dist, a)
  BY <1>1, BelowIs
<1>4. Near(dist) \subseteq Indices /\ Had(dom) = Near(dist)
  BY AllLed
<1>5. CASE i = RootIndex
  BY <1>5, <1>1 DEF Headed, DominatorIsClosest
<1>6. CASE i # RootIndex /\ i \notin Near(dist)
  <2>1. dom[i] = 0 /\ id \notin Reached
    BY <1>2, <1>4, <1>6 DEF Had
  <2> QED BY <2>1, <1>6 DEF DominatorIsClosest
<1>7. CASE i # RootIndex /\ i \in Near(dist)
  <2>1. p \in Near(dist) /\ p # i /\ dom[i] = nodes[p] /\ OnWayUp(dom, p, i)
    BY <1>7, AllLed, WayUp
  <2>2. i \in Below(dist, p)
    BY <2>1, <1>7, WayUpIsBelow
  <2>3. nodes[p] # nodes[i]
    BY <2>1, <1>4, FedWell
  <2> HIDE DEF p
  <2>4. dom[i] \in above
    BY <2>1, <2>2, <2>3, <1>2, <1>3, <1>4
  <2>5. ASSUME NEW d \in above PROVE dom[i] \in dominated[d]
    <3>1. d \in Reached /\ d # id /\ id \in Dominated(d)
      BY <1>2
    <3>2. PICK a \in Near(dist) : d = nodes[a]
      BY <3>1, <1>2
    <3>3. i \in Below(dist, a) /\ a # i
      BY <3>1, <3>2, <1>3
    <3>4. p \in Below(dist, a)
      BY <3>3, <1>1, <1>4, <1>7 DEF Sound, p
    <3>5. nodes[p] \in Dominated(nodes[a])
      BY <3>4, <2>1, <1>3, <1>4
    <3> QED BY <3>1, <3>2, <3>5, <2>1, <1>2
  <2>6. id \in Reached
    BY <1>2, <1>7
  <2> HIDE DEF above, dominated
  <2> QED BY <2>4, <2>5, <2>6, <1>7 DEF DominatorIsClosest, above, dominated
<1> QED BY <1>5, <1>6, <1>7

\* The passes over a snapshot fed as snapshots are, when they ended by themselves.
LEMMA PassesRest ==
  ASSUME HeapFed, WellFed, nodes # << >>,
         ~ Dominators(Distances(TRUE)).changed
  PROVE  \E ord : AtRest(Distances(TRUE), Dominators(Distances(TRUE)).dom, ord)
<1> DEFINE dist == Distances(TRUE)
           last == Dominators(dist)
           K == {d \in Doms : Sound(dist, d)}
<1>1. Distanced(dist) /\ Searched(dist)
  BY DistancesAre, DistancesSearched
<1> HIDE DEF dist
<1>2. \A d, ord : Headed(dist, d, ord) => d \in Doms
  BY DEF Headed, Doms, Dominator
<1>3. FirstDom \in K
  <2>1. FirstDom \in Doms
    BY FirstHeaded, <1>2
  <2>2. Sound(dist, FirstDom)
    BY DEF Sound, Had, FirstDom
  <2> QED BY <2>1, <2>2
<1>4. ASSUME NEW d \in K, NEW i \in Indices, NEW ord, Headed(dist, d, ord) PROVE Turned(dist, d, i) \in K
  <2>1. Sound(dist, Turned(dist, d, i))
    BY <1>1, <1>4, SoundKept
  <2>2. Turned(dist, d, i) \in Doms
    BY <1>1, <1>2, <1>4, TurnKept
  <2> QED BY <2>1, <2>2
<1> HIDE DEF K
<1>5. /\ last.dom \in K /\ \E ord : Headed(dist, last.dom, ord)
      /\ Pass(dist, last.dom) = last.dom
  <2>1. ~ last.changed
    BY DEF dist
  <2>2. \A d \in K, i \in Indices : \A ord : Headed(dist, d, ord) => Turned(dist, d, i) \in K
    BY <1>4
  <2> QED BY <1>1, <1>3, <2>1, <2>2, DominatorsKept
<1> HIDE DEF last
<1>6. PICK ord : Headed(dist, last.dom, ord)
  BY <1>5
<1>7. Settled(dist, last.dom)
  BY <1>1, <1>5, <1>6, PassSettles
<1>8. Sound(dist, last.dom)
  BY <1>5 DEF K
<1> QED BY <1>1, <1>6, <1>7, <1>8 DEF AtRest, dist, last

\* What is said of what was fed says the same after a computation.
LEMMA FedUnchanged ==
  ASSUME UNCHANGED <<nodes, map, edges, outgoing, retainers>>
  PROVE  /\ WellFed' = WellFed /\ Indices' = Indices /\ Reached' = Reached
         /\ RootIndex' = RootIndex /\ Alone' = Alone
         /\ \A n : Dominated(n)' = Dominated(n)
<1>1. Indices' = Indices /\ \A x : Index(x)' = Index(x)
  BY DEF Indices, Size, Index
<1>2. RootIndex' = RootIndex
  BY <1>1 DEF RootIndex
<1>3. \A v : ReachedWithout(v)' = ReachedWithout(v)
  BY <1>2 DEF ReachedWithout, Closed
<1>4. Reached' = Reached
  BY <1>3 DEF Reached
<1>5. \A n : Dominated(n)' = Dominated(n)
  BY <1>3, <1>4 DEF Dominated
<1>6. WellFed' = WellFed
  BY <1>1 DEF WellFed
<1>7. Alone' = Alone
  BY <1>1 DEF Alone
<1> QED BY <1>1, <1>2, <1>4, <1>5, <1>6, <1>7

LEMMA DominatorsComputed ==
  ASSUME HeapFed, NEW room \in BOOLEAN, Compute(room), ~ result'.changed
  PROVE  DominatorsExact'
<1> DEFINE dist == Distances(room)
           last == Dominators(dist)
<1>1. /\ nodes # << >> /\ UNCHANGED <<nodes, map, edges, outgoing, retainers>>
      /\ result'.room = room /\ result'.dom = last.dom /\ result'.changed = last.changed
  BY DEF Compute
<1>2. /\ WellFed' = WellFed /\ Indices' = Indices /\ Reached' = Reached /\ RootIndex' = RootIndex
      /\ \A n : Dominated(n)' = Dominated(n)
  BY <1>1, FedUnchanged
<1>3. ASSUME room, WellFed, NEW i \in Indices PROVE DominatorIsClosest(result'.dom, i)
  <2>1. room = TRUE
    BY <1>3
  <2>2. PICK ord : AtRest(dist, last.dom, ord)
    BY <1>1, <1>3, <2>1, PassesRest
  <2> HIDE DEF dist, last
  <2>3. DominatorIsClosest(last.dom, i)
    BY <1>1, <1>3, <2>2, DominatorsRight
  <2> QED BY <2>3, <1>1
<1> HIDE DEF dist, last
<1>4. ASSUME result'.room, WellFed', NEW i \in Indices' PROVE DominatorIsClosest(result.dom, i)'
  <2>1. room /\ WellFed /\ i \in Indices
    BY <1>1, <1>2, <1>4
  <2>2. DominatorIsClosest(result'.dom, i)
    BY <1>3, <2>1
  <2> QED BY <2>2, <1>1, <1>2 DEF DominatorIsClosest
<1> QED BY <1>4 DEF DominatorsExact, DominatorIsClosest

\* Whatever the order in which nodes and edges were fed, and although the
\* intersection follows half-done results: where the passes ended because one
\* changed nothing and not because there had been twenty, every reached node's
\* dominator is the closest of the nodes all paths to it pass
\* (compute_dominators_and_retained_sizes, intersect_dominators).
THEOREM DominatorsExactAtRest == HeapSpec => [](Computed /\ ~ result.changed => DominatorsExact)
<1> DEFINE Inv == Computed /\ ~ result.changed => DominatorsExact
<1>1. HeapInit => HeapFed /\ Inv
  BY HeapFedInitial DEF HeapInit, Computed
<1>2. HeapFed /\ Inv /\ [HeapNext]_heapVars => (HeapFed /\ Inv)'
  <2> SUFFICES ASSUME HeapFed, Inv, [HeapNext]_heapVars PROVE Inv'
    BY HeapFedStep
  <2>1. ASSUME NEW room \in BOOLEAN, Compute(room) PROVE Inv'
    BY <2>1, DominatorsComputed
  <2>2. CASE ~ Computed'
    BY <2>2
  <2>3. CASE UNCHANGED heapVars
    <3>1. Computed' = Computed /\ result' = result /\ UNCHANGED <<nodes, map, edges, outgoing, retainers>>
      BY <2>3 DEF heapVars, Computed
    <3>2. DominatorsExact' = DominatorsExact
      <4>1. /\ WellFed' = WellFed /\ Indices' = Indices /\ Reached' = Reached /\ RootIndex' = RootIndex
            /\ \A n : Dominated(n)' = Dominated(n)
        BY <3>1, FedUnchanged
      <4> QED BY <3>1, <4>1 DEF DominatorsExact
    <3> QED BY <3>1, <3>2
  <2> QED BY <2>1, <2>2, <2>3, HeapStands
<1> QED BY <1>1, <1>2, PTL DEF HeapSpec

----------------------------------------------------------------------------
\* What holds of a node when it holds of those before it in an order.
LEMMA ByOrder ==
  ASSUME NEW S, NEW ord, \A x \in S : ord[x] \in Nat, NEW P,
         \A x \in S : (\A y \in S : ord[y] < ord[x] => y \in P) => x \in P
  PROVE  S \subseteq P
<1> DEFINE T == {n \in Nat : \A x \in S : ord[x] <= n => x \in P}
<1>1. 0 \in T
  <2> SUFFICES ASSUME NEW x \in S, ord[x] <= 0 PROVE x \in P
    OBVIOUS
  <2>1. \A y \in S : ~ (ord[y] < ord[x])
    OBVIOUS
  <2> QED BY <2>1
<1>2. ASSUME NEW n \in Nat, n \in T PROVE n + 1 \in T
  <2> SUFFICES ASSUME NEW x \in S, ord[x] <= n + 1 PROVE x \in P
    OBVIOUS
  <2>1. \A y \in S : ord[y] < ord[x] => ord[y] <= n
    OBVIOUS
  <2> QED BY <2>1, <1>2
<1>3. \A n \in Nat : n \in T
  <2> HIDE DEF T
  <2> QED BY <1>1, <1>2, Induction
<1> SUFFICES ASSUME NEW x \in S PROVE x \in P
  OBVIOUS
<1>4. ord[x] \in T /\ ord[x] <= ord[x]
  BY <1>3
<1> QED BY <1>4

\* Of two nodes that dominate a third one dominates the other.
LEMMA Comparable ==
  ASSUME HeapFed, WellFed, nodes # << >>, NEW dist, NEW dom, NEW ord, AtRest(dist, dom, ord),
         NEW a \in Near(dist), NEW b \in Near(dist), NEW i \in Near(dist),
         OnWayUp(dom, a, i), OnWayUp(dom, b, i)
  PROVE  OnWayUp(dom, a, b) \/ OnWayUp(dom, b, a)
<1> DEFINE P == {j \in Near(dist) : OnWayUp(dom, a, j) /\ OnWayUp(dom, b, j)
                                      => OnWayUp(dom, a, b) \/ OnWayUp(dom, b, a)}
<1>1. \A j \in Near(dist) : ord[j] \in Nat
  BY AllLed
<1>2. ASSUME NEW j \in Near(dist), \A y \in Near(dist) : ord[y] < ord[j] => y \in P PROVE j \in P
  <2> SUFFICES ASSUME OnWayUp(dom, a, j), OnWayUp(dom, b, j), j # a, j # b
               PROVE  OnWayUp(dom, a, b) \/ OnWayUp(dom, b, a)
    OBVIOUS
  <2>1. j # RootIndex
    BY WayUp
  <2>2. Index(dom[j]) \in Near(dist) /\ ord[Index(dom[j])] < ord[j]
    BY <2>1, AllLed
  <2>3. OnWayUp(dom, a, Index(dom[j])) /\ OnWayUp(dom, b, Index(dom[j]))
    BY WayUp
  <2> QED BY <1>2, <2>2, <2>3
<1>3. Near(dist) \subseteq P
  <2> HIDE DEF P
  <2> QED BY ONLY <1>1, <1>2, ByOrder
<1> QED BY <1>3

\* The nodes that have another for their dominator.
Children(dist, dom, a) == {c \in Near(dist) \ {RootIndex} : Index(dom[c]) = a}

\* What a node dominates is itself and what its children dominate, each apart
\* from the others.
LEMMA BelowSplits ==
  ASSUME HeapFed, WellFed, nodes # << >>, NEW dist, NEW dom, NEW ord, AtRest(dist, dom, ord)
  PROVE  /\ \A a \in Near(dist), i \in Near(dist) : i \in Below(dist, a) <=>
              i = a \/ \E c \in Children(dist, dom, a) : i \in Below(dist, c)
         /\ \A a \in Near(dist) : \A c \in Children(dist, dom, a) : c \in Below(dist, a) /\ a \notin Below(dist, c)
         /\ \A a \in Near(dist) : \A c, d \in Children(dist, dom, a) :
              c # d => Below(dist, c) \cap Below(dist, d) = {}
<1>1. \A a, i \in Near(dist) : OnWayUp(dom, a, i) <=> i \in Below(dist, a)
  BY WayUpIsBelow
<1>2. /\ \A i \in Near(dist) : OnWayUp(dom, Index(dom[i]), i) /\ Index(dom[i]) \in Near(dist) /\ ord[i] \in Nat
      /\ \A a, i \in Near(dist) : a # i /\ OnWayUp(dom, a, i) => OnWayUp(dom, a, Index(dom[i]))
      /\ \A a \in Near(dist) : OnWayUp(dom, a, RootIndex) => a = RootIndex
      /\ \A a, i \in Near(dist) : OnWayUp(dom, a, i) => ord[a] <= ord[i]
      /\ \A i \in Near(dist) \ {RootIndex} : ord[Index(dom[i])] < ord[i]
  BY AllLed, WayUp
<1>3. \A a, b, c : OnWayUp(dom, a, b) /\ OnWayUp(dom, b, c) => OnWayUp(dom, a, c)
  BY DEF OnWayUp
<1>4. \A a : OnWayUp(dom, a, a)
  BY DEF OnWayUp
<1>5. ASSUME NEW a \in Near(dist), NEW c \in Children(dist, dom, a)
      PROVE  c \in Near(dist) \ {RootIndex} /\ OnWayUp(dom, a, c) /\ ~ OnWayUp(dom, c, a)
  <2>1. c \in Near(dist) \ {RootIndex} /\ Index(dom[c]) = a
    BY DEF Children
  <2>2. ord[a] < ord[c] /\ ord[a] \in Nat /\ ord[c] \in Nat
    BY <1>2, <2>1
  <2>3. ~ (ord[c] <= ord[a])
    BY <2>2
  <2> QED BY <1>2, <2>1, <2>3
<1>6. ASSUME NEW a \in Near(dist), NEW i \in Near(dist), OnWayUp(dom, a, i), i # a
      PROVE  \E c \in Children(dist, dom, a) : OnWayUp(dom, c, i)
  <2> DEFINE P == {j \in Near(dist) : OnWayUp(dom, a, j) /\ j # a
                                       => \E c \in Children(dist, dom, a) : OnWayUp(dom, c, j)}
  <2>1. ASSUME NEW j \in Near(dist), \A y \in Near(dist) : ord[y] < ord[j] => y \in P PROVE j \in P
    <3> SUFFICES ASSUME OnWayUp(dom, a, j), j # a
                 PROVE  \E c \in Children(dist, dom, a) : OnWayUp(dom, c, j)
      OBVIOUS
    <3>1. j # RootIndex
      BY <1>2
    <3>2. CASE Index(dom[j]) = a
      BY <3>1, <3>2, <1>4 DEF Children
    <3>3. CASE Index(dom[j]) # a
      <4>1. Index(dom[j]) \in P /\ OnWayUp(dom, a, Index(dom[j]))
        BY <1>2, <2>1, <3>1
      <4>2. PICK c \in Children(dist, dom, a) : OnWayUp(dom, c, Index(dom[j]))
        BY <3>3, <4>1
      <4>3. OnWayUp(dom, Index(dom[j]), j)
        BY <1>2
      <4> QED BY <1>3, <4>2, <4>3
    <3> QED BY <3>2, <3>3
  <2>2. Near(dist) \subseteq P
    <3>1. \A j \in Near(dist) : ord[j] \in Nat
      BY <1>2
    <3> HIDE DEF P
    <3> QED BY ONLY <3>1, <2>1, ByOrder
  <2> QED BY <2>2, <1>6
<1>7. ASSUME NEW a \in Near(dist), NEW i \in Near(dist)
      PROVE  i \in Below(dist, a) <=> i = a \/ \E c \in Children(dist, dom, a) : i \in Below(dist, c)
  BY <1>1, <1>3, <1>4, <1>5, <1>6
<1>8. ASSUME NEW a \in Near(dist), NEW c \in Children(dist, dom, a), NEW d \in Children(dist, dom, a),
             NEW i, i \in Below(dist, c), i \in Below(dist, d), c # d
      PROVE  FALSE
  <2>1. i \in Near(dist)
    BY <1>8 DEF Below
  <2>2. OnWayUp(dom, c, i) /\ OnWayUp(dom, d, i) /\ Index(dom[c]) = a /\ Index(dom[d]) = a
    BY <1>1, <1>5, <1>8, <2>1 DEF Children
  <2>3. OnWayUp(dom, c, d) \/ OnWayUp(dom, d, c)
    BY <2>1, <2>2, <1>5, Comparable
  <2>4. OnWayUp(dom, c, a) \/ OnWayUp(dom, d, a)
    BY <2>2, <2>3, <1>2, <1>5, <1>8
  <2> QED BY <2>4, <1>5
<1> QED BY <1>1, <1>5, <1>7, <1>8

----------------------------------------------------------------------------
\* The nodes whose sizes a node has when those in H have handed theirs up.
Gathered(dist, dom, H, t) ==
  {i \in Indices : i = t \/ \E c \in Children(dist, dom, t) : c \in H /\ i \in Below(dist, c)}

\* The sizes of two sets of nodes that share none.
LEMMA PartUnion ==
  ASSUME HeapFed, NEW s \in Amounts, NEW S, NEW T, S \cap T = {}
  PROVE  SumOf(Part(S \union T, s)) = SumOf(Part(S, s)) + SumOf(Part(T, s))
<1>1. Size \in Nat /\ Indices = 1 .. Size
  BY Indexed
<1>2. \A U : Part(U, s) \in [1 .. Size -> Int]
  BY PartTyped
<1>3. \A k \in 1 .. Size : Part(S \union T, s)[k] = Part(S, s)[k] + Part(T, s)[k]
  <2> TAKE k \in 1 .. Size
  <2>1. s[k] \in Nat /\ ~ (k \in S /\ k \in T)
    BY <1>1 DEF Amounts
  <2> QED BY <2>1 DEF Part
<1> DEFINE a == Part(S, s)
           b == Part(T, s)
           c == Part(S \union T, s)
<1>4. a \in [1 .. Size -> Int] /\ b \in [1 .. Size -> Int] /\ c \in [1 .. Size -> Int] /\ Size \in Nat
  BY <1>1, <1>2
<1>5. \A k \in 1 .. Size : c[k] = a[k] + b[k]
  BY <1>3
<1> HIDE DEF a, b, c
<1>6. SumOf(c) = SumOf(a) + SumOf(b)
  BY ONLY <1>4, <1>5, SumPair
<1> QED BY <1>6 DEF a, b, c

LEMMA GatheredAlone ==
  ASSUME HeapFed, NEW t \in Indices
  PROVE  SumOf(Part({t}, Alone)) = Alone[t]
<1>1. Size \in Nat /\ Indices = 1 .. Size /\ Alone[t] \in Int
  BY Indexed, AloneTyped DEF Amounts
<1> DEFINE v == Alone[t]
           one == [k \in 1 .. Size |-> IF k = t THEN v ELSE 0]
<1>2. Part({t}, Alone) = one
  BY DEF Part
<1>3. v \in Int /\ t \in 1 .. Size /\ Size \in Nat
  BY <1>1
<1> HIDE DEF v
<1>4. SumOf(one) = v
  BY <1>3, SumOne
<1> HIDE DEF one
<1> QED BY <1>2, <1>4 DEF v

\* Who hands what to whom.
LEMMA GivesUp ==
  ASSUME HeapFed, WellFed, nodes # << >>, NEW dist, NEW dom, NEW ord, AtRest(dist, dom, ord),
         NEW x \in Indices
  PROVE  /\ GivesTo(dom, x) # 0 => /\ x \in Children(dist, dom, GivesTo(dom, x))
                                   /\ GivesTo(dom, x) \in Near(dist)
         /\ \A t \in Indices : x \in Children(dist, dom, t) => GivesTo(dom, x) = t
<1>1. ASSUME GivesTo(dom, x) # 0
      PROVE  x \in Children(dist, dom, GivesTo(dom, x)) /\ GivesTo(dom, x) \in Near(dist)
  <2>1. x \in Had(dom) \ {RootIndex} /\ GivesTo(dom, x) = Index(dom[x])
    BY <1>1, GivesEarlier DEF AtRest
  <2>2. x \in Near(dist) \ {RootIndex} /\ Index(dom[x]) \in Near(dist)
    BY <2>1, AllLed
  <2> QED BY <2>1, <2>2 DEF Children
<1>2. ASSUME NEW t \in Indices, x \in Children(dist, dom, t) PROVE GivesTo(dom, x) = t
  <2>1. x \in Near(dist) \ {RootIndex} /\ Index(dom[x]) = t
    BY <1>2 DEF Children
  <2>2. Index(dom[x]) # x /\ Index(nodes[x]) = x
    BY <2>1, AllLed, FedWell
  <2>3. dom[x] # nodes[x]
    BY <2>2
  <2> QED BY <2>1, <2>3 DEF GivesTo
<1> QED BY <1>1, <1>2

\* A node has all it dominates when everything further from the root has handed
\* up its size.
LEMMA GatheredWhole ==
  ASSUME HeapFed, WellFed, nodes # << >>, NEW dist, NEW dom, NEW ord, AtRest(dist, dom, ord),
         NEW t \in Near(dist), NEW H, \A y \in Indices : dist[y] > dist[t] => y \in H
  PROVE  Gathered(dist, dom, H, t) = Below(dist, t)
<1>1. Near(dist) \subseteq Indices /\ t \in Below(dist, t)
  BY AllLed, BelowIs DEF AtRest
<1>2. /\ \A i \in Near(dist) : i \in Below(dist, t) <=>
           i = t \/ \E c \in Children(dist, dom, t) : i \in Below(dist, c)
      /\ \A c \in Children(dist, dom, t) : c \in Below(dist, t) /\ t \notin Below(dist, c)
  BY BelowSplits
<1>3. ASSUME NEW c \in Children(dist, dom, t) PROVE c \in H
  <2>1. c \in Indices /\ c \in Near(dist) /\ c \in Below(dist, t)
    BY <1>1, <1>2 DEF Children
  <2>2. c # t
    BY <1>2, <2>1, BelowIs DEF AtRest
  <2>3. dist[t] < dist[c]
    BY <2>1, <2>2, BelowIs DEF AtRest
  <2>4. dist[c] \in Nat /\ dist[t] \in Nat
    BY <2>1, AllLed
  <2> QED BY <2>1, <2>3, <2>4
<1>4. \A i : (i \in Below(dist, t) => i \in Near(dist))
  BY DEF Below
<1>5. \A c, i : i \in Below(dist, c) => i \in Near(dist)
  BY DEF Below
<1> QED BY <1>1, <1>2, <1>3, <1>4, <1>5 DEF Gathered

\* One node more that hands its size up.
LEMMA GatheredStep ==
  ASSUME HeapFed, WellFed, nodes # << >>, NEW dist, NEW dom, NEW ord, AtRest(dist, dom, ord),
         NEW H, NEW x \in Indices, x \notin H, GivesTo(dom, x) # 0
  PROVE  LET g == GivesTo(dom, x) IN
         /\ Gathered(dist, dom, H \union {x}, g) = Gathered(dist, dom, H, g) \union Below(dist, x)
         /\ Gathered(dist, dom, H, g) \cap Below(dist, x) = {}
<1> DEFINE g == GivesTo(dom, x)
<1>1. x \in Children(dist, dom, g) /\ g \in Near(dist) /\ Near(dist) \subseteq Indices
  BY GivesUp, AllLed
<1>2. /\ g \notin Below(dist, x)
      /\ \A c \in Children(dist, dom, g) : c # x => Below(dist, c) \cap Below(dist, x) = {}
  BY <1>1, BelowSplits
<1>3. Below(dist, x) \subseteq Indices
  BY <1>1 DEF Below
<1> HIDE DEF g
<1>4. Gathered(dist, dom, H \union {x}, g) = Gathered(dist, dom, H, g) \union Below(dist, x)
  BY <1>1, <1>3 DEF Gathered
<1>5. Gathered(dist, dom, H, g) \cap Below(dist, x) = {}
  BY <1>2 DEF Gathered
<1> QED BY <1>4, <1>5 DEF g

\* The sizes in the end.
LEMMA RetainedIs ==
  ASSUME HeapFed, WellFed, nodes # << >>, NEW dist, NEW dom, NEW ord, AtRest(dist, dom, ord),
         NEW t \in Indices
  PROVE  Retained(dist, dom)[t] = SumOf(Part(Gathered(dist, dom, Indices, t), Alone))
<1> DEFINE Has(H, u) == SumOf(Part(Gathered(dist, dom, H, u), Alone))
           K == {p \in (SUBSET Indices) \X Amounts : \A u \in Indices : p[2][u] = Has(p[1], u)}
           H0 == {x \in Indices : dist[x] >= Size}
<1>1. Size \in Nat /\ Indices = 1 .. Size /\ Alone \in Amounts
  BY Indexed, AloneTyped
<1>2. dist \in [Indices -> 0 .. Unreached] /\ Searched(dist) /\ Headed(dist, dom, ord)
  BY DEF AtRest, Searched
<1>3. \A i \in Near(dist) : i \in Indices /\ dist[i] < Size /\ dist[i] \in Nat
  BY <1>2, AllLed DEF Searched, Near
<1>4. <<H0, Alone>> \in K
  <2>1. ASSUME NEW u \in Indices PROVE Alone[u] = Has(H0, u)
    <3>1. \A c \in Children(dist, dom, u) : c \notin H0
      BY <1>1, <1>3 DEF Children
    <3> HIDE DEF H0
    <3>2. Gathered(dist, dom, H0, u) = {u}
      BY <3>1 DEF Gathered
    <3> QED BY <3>2, GatheredAlone
  <2>2. H0 \in SUBSET Indices
    OBVIOUS
  <2> HIDE DEF H0, Has
  <2> QED BY <2>1, <2>2, <1>1
<1>5. ASSUME NEW H, NEW s, NEW x \in Indices, <<H, s>> \in K, x \notin H,
             \A y \in Indices : (dist[y] > dist[x] => y \in H) /\ (y \in H => dist[y] >= dist[x])
      PROVE  <<H \union {x}, Handed(dom, s, x)>> \in K
  <2> DEFINE H1 == H \union {x}
             s1 == Handed(dom, s, x)
             g == GivesTo(dom, x)
  <2>1. /\ H \in SUBSET Indices /\ s \in Amounts /\ H1 \in SUBSET Indices
        /\ \A u \in Indices : s[u] = Has(H, u)
    <3> HIDE DEF Has
    <3> QED BY <1>5
  <2>2. ASSUME NEW u \in Indices, u # g PROVE Has(H1, u) = Has(H, u)
    <3>1. x \notin Children(dist, dom, u)
      BY <2>2, GivesUp
    <3>2. Gathered(dist, dom, H1, u) = Gathered(dist, dom, H, u)
      BY <3>1 DEF Gathered
    <3> HIDE DEF H1
    <3> QED BY <3>2
  <2>3. ASSUME s1 \in Amounts, \A u \in Indices : s1[u] = Has(H1, u) PROVE <<H1, s1>> \in K
    <3> HIDE DEF H1, s1, Has
    <3> QED BY <2>1, <2>3
  <2>4. CASE g = 0
    <3>1. s1 = s /\ \A u \in Indices : u # g
      BY <2>4, <1>1 DEF Handed
    <3> HIDE DEF H1, s1, Has, g, K
    <3>2. s1 \in Amounts /\ \A u \in Indices : s1[u] = Has(H1, u)
      BY <3>1, <2>1, <2>2
    <3>3. <<H1, s1>> \in K
      BY <2>3, <3>2
    <3> QED BY <3>3 DEF H1, s1
  <2>5. CASE g # 0
    <3>1. /\ s1 \in Amounts /\ s1[g] = s[g] + s[x] /\ \A y \in Indices : y # g => s1[y] = s[y]
      BY <2>1, <2>5, <1>2, HandedIs
    <3>2. x \in Near(dist) /\ g \in Indices
      BY <2>5, <1>3, GivesUp DEF Children
    <3>3. Gathered(dist, dom, H, x) = Below(dist, x)
      BY <3>2, <1>5, GatheredWhole
    <3>4. /\ Gathered(dist, dom, H1, g) = Gathered(dist, dom, H, g) \union Below(dist, x)
          /\ Gathered(dist, dom, H, g) \cap Below(dist, x) = {}
      BY <2>5, <1>5, GatheredStep
    <3>5. Has(H1, g) = Has(H, g) + SumOf(Part(Below(dist, x), Alone))
      BY <3>4, <1>1, PartUnion
    <3>6. Has(H1, g) = s[g] + s[x]
      BY <3>2, <3>3, <3>5, <2>1
    <3> HIDE DEF H1, s1, Has, g, K
    <3>7. \A u \in Indices : s1[u] = Has(H1, u)
      BY <3>1, <3>6, <2>1, <2>2
    <3>8. <<H1, s1>> \in K
      BY <2>3, <3>1, <3>7
    <3> QED BY <3>8 DEF H1, s1
  <2> QED BY <2>4, <2>5
<1>6. \A H, s : <<H, s>> \in K => s \in Amounts
  OBVIOUS
<1>7. \A H, s : \A x \in Indices :
        /\ <<H, s>> \in K
        /\ x \notin H
        /\ \A y \in Indices : (dist[y] > dist[x] => y \in H) /\ (y \in H => dist[y] >= dist[x])
        => <<H \union {x}, Handed(dom, s, x)>> \in K
  <2> HIDE DEF K
  <2> QED BY <1>5
<1> HIDE DEF K
<1>8. <<Indices, Retained(dist, dom)>> \in K
  BY <1>2, <1>4, <1>6, <1>7, RetainedKeeps
<1> HIDE DEF Has
<1>9. Retained(dist, dom)[t] = Has(Indices, t)
  BY <1>8 DEF K
<1> QED BY <1>9 DEF Has

----------------------------------------------------------------------------
\* The retained sizes that belong to dominators that are right.
LEMMA RetainedRight ==
  ASSUME HeapFed, WellFed, nodes # << >>, NEW dist, NEW dom, NEW ord, AtRest(dist, dom, ord),
         NEW i \in Indices
  PROVE  LET dominated == Dominated(nodes[i]) IN
         Retained(dist, dom)[i] =
           SumOf([j \in Indices |-> IF nodes[j] \in dominated THEN Shallow[nodes[j]] ELSE 0])
<1> DEFINE G == Gathered(dist, dom, Indices, i)
<1>1. Size \in Nat /\ Indices = 1 .. Size
  BY Indexed
<1>2. Searched(dist) /\ Near(dist) \subseteq Indices
  BY AllLed DEF AtRest
<1>3. \A j \in Indices : j \in G <=> nodes[j] \in Dominated(nodes[i])
  <2>1. CASE i \in Near(dist)
    <3>1. G = Below(dist, i)
      BY <1>1, <2>1, GatheredWhole
    <3> QED BY <3>1, <2>1, <1>2, BelowIs
  <2>2. CASE i \notin Near(dist)
    <3>1. \A c : c \notin Children(dist, dom, i)
      BY <2>2, AllLed DEF Children
    <3>2. G = {i}
      BY <3>1 DEF Gathered
    <3>3. nodes[i] \notin Reached
      BY <2>2, <1>2, ReachedIs
    <3>4. Dominated(nodes[i]) = {nodes[i]}
      BY <3>3 DEF Dominated
    <3>5. \A j \in Indices : nodes[j] = nodes[i] => j = i
      BY FedWell
    <3> QED BY <3>2, <3>4, <3>5
  <2> QED BY <2>1, <2>2
<1>4. Retained(dist, dom)[i] = SumOf(Part(G, Alone))
  BY RetainedIs
<1> HIDE DEF G
<1>5. Part(G, Alone) = [j \in Indices |-> IF nodes[j] \in Dominated(nodes[i]) THEN Shallow[nodes[j]] ELSE 0]
  BY <1>1, <1>3 DEF Part, Alone
<1> QED BY <1>4, <1>5

LEMMA RetainedComputed ==
  ASSUME HeapFed, NEW room \in BOOLEAN, Compute(room), ~ result'.changed
  PROVE  RetainedExact'
<1> DEFINE dist == Distances(room)
           last == Dominators(dist)
           r == Retained(dist, last.dom)
           Right(i) == LET dominated == Dominated(nodes[i]) IN
             result'.retained[i] =
               SumOf([j \in Indices |-> IF nodes[j] \in dominated THEN Shallow[nodes[j]] ELSE 0])
                 % SizeWord
<1>1. /\ nodes # << >> /\ UNCHANGED <<nodes, map, edges, outgoing, retainers>>
      /\ result'.room = room /\ result'.retained = Wrapped(r) /\ result'.changed = last.changed
  BY DEF Compute
<1>2. WellFed' = WellFed /\ Indices' = Indices /\ \A n : Dominated(n)' = Dominated(n)
  BY <1>1, FedUnchanged
<1>3. ASSUME room, WellFed, NEW i \in Indices PROVE Right(i)
  <2>1. room = TRUE
    BY <1>3
  <2>2. PICK ord : AtRest(dist, last.dom, ord)
    BY <1>1, <1>3, <2>1, PassesRest
  <2> HIDE DEF dist, last
  <2>3. LET dominated == Dominated(nodes[i]) IN
        r[i] = SumOf([j \in Indices |-> IF nodes[j] \in dominated THEN Shallow[nodes[j]] ELSE 0])
    BY <1>1, <1>3, <2>2, RetainedRight
  <2>4. Wrapped(r)[i] = r[i] % SizeWord
    BY DEF Wrapped
  <2> QED BY <2>3, <2>4, <1>1
<1> HIDE DEF dist, last, r
<1>4. ASSUME result'.room, WellFed', NEW i \in Indices'
      PROVE  (LET dominated == Dominated(nodes[i]) IN
               result.retained[i] =
                 SumOf([j \in Indices |-> IF nodes[j] \in dominated THEN Shallow[nodes[j]] ELSE 0])
                   % SizeWord)'
  <2>1. room /\ WellFed /\ i \in Indices
    BY <1>1, <1>2, <1>4
  <2>2. Right(i)
    BY <1>3, <2>1
  <2> QED BY <2>2, <1>1, <1>2
<1> QED BY <1>4 DEF RetainedExact

\* Where the passes ended because one changed nothing, the retained size of a
\* node of a snapshot fed as snapshots are is what would be freed with it: its
\* own size and the sizes of all that no path from the root reaches without it,
\* as far as it fits 32 bits (compute_dominators_and_retained_sizes).
THEOREM RetainedExactAtRest == HeapSpec => [](Computed /\ ~ result.changed => RetainedExact)
<1> DEFINE Inv == Computed /\ ~ result.changed => RetainedExact
<1>1. HeapInit => HeapFed /\ Inv
  BY HeapFedInitial DEF HeapInit, Computed
<1>2. HeapFed /\ Inv /\ [HeapNext]_heapVars => (HeapFed /\ Inv)'
  <2> SUFFICES ASSUME HeapFed, Inv, [HeapNext]_heapVars PROVE Inv'
    BY HeapFedStep
  <2>1. ASSUME NEW room \in BOOLEAN, Compute(room) PROVE Inv'
    BY <2>1, RetainedComputed
  <2>2. CASE ~ Computed'
    BY <2>2
  <2>3. CASE UNCHANGED heapVars
    <3>1. Computed' = Computed /\ result' = result /\ UNCHANGED <<nodes, map, edges, outgoing, retainers>>
      BY <2>3 DEF heapVars, Computed
    <3>2. RetainedExact' = RetainedExact
      <4>1. WellFed' = WellFed /\ Indices' = Indices /\ \A n : Dominated(n)' = Dominated(n)
        BY <3>1, FedUnchanged
      <4> QED BY <3>1, <4>1 DEF RetainedExact
    <3> QED BY <3>1, <3>2
  <2> QED BY <2>1, <2>2, <2>3, HeapStands
<1> QED BY <1>1, <1>2, PTL DEF HeapSpec
=============================================================================

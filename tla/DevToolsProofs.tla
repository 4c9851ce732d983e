--------------------------- MODULE DevToolsProofs ---------------------------
(***************************************************************************)
(* The start, the reset and the page's blocks, for every plan, capacity    *)
(* and set of sizes that DevToolsAssumption admits.                        *)
(***************************************************************************)
EXTENDS DevTools, WellFoundedInduction, TLAPS

LEMMA PlanFacts ==
  /\ Entries = 1 .. Len(Plan) /\ Len(Plan) \in Nat
  /\ AllSizes \subseteq Nat
  /\ \A i \in Entries : Plan[i].size \in AllSizes
BY DevToolsAssumption DEF Entries, AllSizes

----------------------------------------------------------------------------
\* An allocation takes a block behind everything that was handed out.
LEMMA Allocation ==
  ASSUME offset \in 0 .. Capacity, NEW size \in AllSizes, Arena!Allocate(size)
  PROVE  /\ Arena!BlockAt(offset, size).at \in Nat
         /\ Arena!BlockAt(offset, size).size = size
         /\ offset <= Arena!BlockAt(offset, size).at
         /\ offset' = Arena!BlockAt(offset, size).at + size
         /\ offset' \in 0 .. Capacity
<1> DEFINE pad == Arena!Padding(offset)
<1>1. /\ Capacity \in Nat /\ Word \in Nat /\ size \in Nat /\ offset \in Nat
      /\ offset <= Capacity /\ Capacity + 8 + size <= Word
  BY DevToolsAssumption
<1>2. pad \in 0 .. 7
  BY <1>1, SMT DEF Arena!Padding, Arena!Alignment
<1>3. Arena!Taken(offset, size) = (size + pad) % Word
  BY DEF Arena!Taken
<1>4. Arena!BlockAt(offset, size) = [at |-> offset + pad, size |-> size]
  BY DEF Arena!BlockAt
<1> HIDE DEF pad
<1>5. \A n \in Nat : n < Word => n % Word = n
  BY <1>1, Z3
<1>6. (size + pad) % Word = size + pad
  <2>1. size + pad \in Nat /\ size + pad < Word
    BY <1>1, <1>2
  <2> QED BY <2>1, <1>5
<1>7. (offset + (size + pad)) % Word = offset + (size + pad)
  <2>1. offset + (size + pad) \in Nat /\ offset + (size + pad) < Word
    BY <1>1, <1>2
  <2> QED BY <2>1, <1>5
<1>8. offset' = offset + (size + pad) /\ offset' <= Capacity
  BY <1>3, <1>6, <1>7 DEF Arena!Allocate, Arena!Fits
<1> QED BY <1>1, <1>2, <1>4, <1>8

\* The page and the engines hold nothing while a start is under way, and
\* whatever has been placed or handed out lies below the offset.
ApartInv ==
  /\ offset \in 0 .. Capacity
  /\ next \in 0 .. Len(Plan) + 1
  /\ DOMAIN where = Entries
  /\ next \in Entries => pageBlocks = {}
  /\ \A b \in pageBlocks \union records :
       b.at \in Nat /\ b.size \in Nat /\ b.at + b.size <= offset
  /\ \A i \in Entries : where[i] # Null /\ i < next =>
       where[i] \in Nat /\ where[i] + Plan[i].size <= offset
  /\ PageApartFromEngines

LEMMA ApartInit == Init => ApartInv
BY DevToolsAssumption, PlanFacts
DEF Init, Arena!Init, ApartInv, Nowhere, PageApartFromEngines

LEMMA StartApart == ApartInv /\ DevtoolsInit => ApartInv'
BY DevToolsAssumption, PlanFacts
DEF DevtoolsInit, Arena!Reset, ApartInv, Nowhere, PageApartFromEngines

\* An entry of the plan, placed at the end or not at all.
LEMMA BuiltApart ==
  ASSUME ApartInv, next \in Entries, NEW at, Built(at),
         offset' \in 0 .. Capacity, offset <= offset',
         at # Null => at \in Nat /\ at + Plan[next].size <= offset'
  PROVE  ApartInv'
<1>1. next' = next + 1 /\ pageBlocks = {} /\ pageBlocks' = {} /\ records' = records
      /\ where' = [where EXCEPT ![next] = at]
      /\ next \in Nat /\ next' \in 0 .. Len(Plan) + 1 /\ offset \in Nat
  BY PlanFacts, DevToolsAssumption DEF Built, ApartInv
<1>2. ASSUME NEW i \in Entries, where'[i] # Null, i < next'
      PROVE  where'[i] \in Nat /\ where'[i] + Plan[i].size <= offset'
  <2>1. CASE i = next
    BY <2>1, <1>1, <1>2 DEF ApartInv
  <2>2. CASE i # next
    <3>1. i < next /\ where'[i] = where[i] /\ i \in Nat
      BY <2>2, <1>1, <1>2, PlanFacts DEF ApartInv
    <3>2. where[i] \in Nat /\ where[i] + Plan[i].size <= offset
      BY <3>1, <1>2 DEF ApartInv
    <3>3. Plan[i].size \in Nat
      BY PlanFacts
    <3>4. Capacity \in Nat /\ offset' \in Nat
      BY DevToolsAssumption
    <3> QED BY <3>1, <3>2, <3>3, <3>4, <1>1
  <2> QED BY <2>1, <2>2
<1>3. DOMAIN where' = Entries
  BY <1>1 DEF ApartInv
<1>4. next' \in Entries => pageBlocks' = {}
  BY <1>1
<1>5. \A b \in (pageBlocks \union records)' :
        b.at \in Nat /\ b.size \in Nat /\ b.at + b.size <= offset'
  <2>1. Capacity \in Nat /\ offset' \in Nat
    BY DevToolsAssumption
  <2> QED BY <2>1, <1>1 DEF ApartInv
<1>6. PageApartFromEngines'
  BY <1>1 DEF PageApartFromEngines
<1> QED BY <1>1, <1>2, <1>3, <1>4, <1>5, <1>6 DEF ApartInv

\* A block for the page or for an engine's record.
LEMMA TakenApart ==
  ASSUME ApartInv, Idle, NEW size \in AllSizes, Arena!Allocate(size),
         UNCHANGED <<next, where>>,
         \/ pageBlocks' = pageBlocks /\ records' = records \union {Arena!BlockAt(offset, size)}
         \/ pageBlocks' = pageBlocks \union {Arena!BlockAt(offset, size)} /\ records' = records
  PROVE  ApartInv'
<1> DEFINE new == Arena!BlockAt(offset, size)
<1>1. /\ new.at \in Nat /\ new.size = size /\ size \in Nat /\ offset \in Nat
      /\ offset <= new.at /\ offset' = new.at + size /\ offset' \in 0 .. Capacity
  BY Allocation, PlanFacts, DevToolsAssumption DEF ApartInv
<1>2. /\ next' = next /\ where' = where /\ next \notin Entries
      /\ \/ pageBlocks' = pageBlocks /\ records' = records \union {new}
         \/ pageBlocks' = pageBlocks \union {new} /\ records' = records
  BY PlanFacts DEF Idle, Ready
<1> HIDE DEF new
<1>3. ASSUME NEW i \in Entries, where[i] # Null, i < next
      PROVE  /\ where[i] \in Nat /\ where[i] + Plan[i].size <= offset /\ Plan[i].size \in Nat
             /\ where[i] + Plan[i].size <= offset'
  <2>1. where[i] \in Nat /\ where[i] + Plan[i].size <= offset /\ Plan[i].size \in Nat
    BY <1>3, PlanFacts DEF ApartInv
  <2> QED BY <2>1, <1>1
\* What was there lies in front of the new block.
<1>4. ASSUME NEW b \in pageBlocks \union records
      PROVE  /\ b.at \in Nat /\ b.size \in Nat /\ b.at + b.size <= offset
             /\ b.at + b.size <= offset' /\ b.at + b.size <= new.at
  <2>1. b.at \in Nat /\ b.size \in Nat /\ b.at + b.size <= offset
    BY DEF ApartInv
  <2> QED BY <2>1, <1>1
<1>5. \A b \in (pageBlocks \union records)' :
        b.at \in Nat /\ b.size \in Nat /\ b.at + b.size <= offset'
  <2> TAKE b \in (pageBlocks \union records)'
  <2>1. b \in pageBlocks \union records \/ b = new
    BY <1>2
  <2>2. CASE b = new
    BY <2>2, <1>1
  <2> QED BY <2>1, <2>2, <1>4
<1>6. ASSUME NEW p \in pageBlocks', NEW i \in Entries, where[i] # Null, i < next
      PROVE  p.at + p.size <= where[i] \/ where[i] + Plan[i].size <= p.at
  <2>1. CASE p \in pageBlocks
    BY <2>1, <1>6 DEF ApartInv, PageApartFromEngines, Extent, Apart
  <2>2. CASE p = new
    BY <2>2, <1>1, <1>3, <1>6
  <2> QED BY <2>1, <2>2, <1>2
<1>7. ASSUME NEW p \in pageBlocks', NEW r \in records'
      PROVE  Apart(p, r)
  <2>1. CASE p \in pageBlocks /\ r \in records
    BY <2>1 DEF ApartInv, PageApartFromEngines
  <2>2. CASE p = new /\ r \in records
    BY <2>2, <1>4 DEF Apart
  <2>3. CASE p \in pageBlocks /\ r = new
    BY <2>3, <1>4 DEF Apart
  <2> QED BY <2>1, <2>2, <2>3, <1>2
<1>8. PageApartFromEngines'
  BY <1>2, <1>6, <1>7 DEF PageApartFromEngines, Extent, Apart
<1>9. DOMAIN where' = Entries /\ next' \in 0 .. Len(Plan) + 1
      /\ (next' \in Entries => pageBlocks' = {})
  BY <1>2 DEF ApartInv
<1>10. \A i \in Entries : where'[i] # Null /\ i < next' =>
         where'[i] \in Nat /\ where'[i] + Plan[i].size <= offset'
  BY <1>2, <1>3
<1> QED BY <1>1, <1>5, <1>8, <1>9, <1>10 DEF ApartInv

LEMMA ApartStep == ApartInv /\ [Next]_vars => ApartInv'
<1> SUFFICES ASSUME ApartInv, [Next]_vars PROVE ApartInv'
  OBVIOUS
<1>1. CASE DevtoolsInit
  BY <1>1, StartApart
<1>2. CASE Place
  <2> DEFINE at == Arena!BlockAt(offset, Plan[next].size).at
  <2>1. next \in Entries /\ Plan[next].size \in AllSizes /\ Plan[next].size \in Nat
        /\ Arena!Allocate(Plan[next].size) /\ Built(at)
    BY <1>2, PlanFacts DEF Place
  <2>2. /\ at \in Nat /\ offset <= at /\ offset' = at + Plan[next].size
        /\ offset' \in 0 .. Capacity /\ offset \in Nat
    BY <2>1, Allocation, DevToolsAssumption DEF ApartInv
  <2> HIDE DEF at
  <2>3. offset <= offset' /\ at + Plan[next].size <= offset'
    BY <2>1, <2>2, DevToolsAssumption
  <2> QED BY <2>1, <2>2, <2>3, BuiltApart
<1>3. CASE PlaceRefused
  <2>1. next \in Entries /\ Built(Null) /\ offset' = offset
    BY <1>3 DEF PlaceRefused, Arena!AllocateFails, Arena!arenaVars
  <2>2. offset' \in 0 .. Capacity /\ offset <= offset'
    BY <2>1, DevToolsAssumption DEF ApartInv
  <2> QED BY <2>1, <2>2, BuiltApart
<1>4. ASSUME NEW size \in PageSizes, AllocateMemory(size)
      PROVE  ApartInv'
  <2>1. size \in AllSizes
    BY DEF AllSizes
  <2> QED BY <2>1, <1>4, TakenApart DEF AllocateMemory
<1>5. ASSUME NEW size \in EngineSizes, EngineAllocates(size)
      PROVE  ApartInv'
  <2>1. size \in AllSizes
    BY DEF AllSizes
  <2> QED BY <2>1, <1>5, TakenApart DEF EngineAllocates, Idle
<1>6. ASSUME NEW size, Refused(size)
      PROVE  ApartInv'
  BY <1>6 DEF Refused, Arena!AllocateFails, Arena!arenaVars, ApartInv, PageApartFromEngines, Extent
<1>7. CASE UNCHANGED vars
  BY <1>7 DEF vars, ApartInv, PageApartFromEngines, Extent
<1> QED BY <1>1, <1>2, <1>3, <1>4, <1>5, <1>6, <1>7 DEF Next

\* A string the page stored since the last start never lies over an engine,
\* one of its buffers or a record an engine took since.
THEOREM DevToolsPageApart == Spec => []PageApartFromEngines
<1>1. ApartInv => PageApartFromEngines
  BY DEF ApartInv
<1> QED BY <1>1, ApartInit, ApartStep, PTL DEF Spec

----------------------------------------------------------------------------
\* What the start makes of entry i when it has come to offset o: the address,
\* and the offset it goes on from.
Address(o, i) ==
  IF Arena!Fits(o, Plan[i].size) THEN Arena!BlockAt(o, Plan[i].size).at ELSE Null
OffsetAfter(o, i) ==
  IF Arena!Fits(o, Plan[i].size) THEN (o + Arena!Taken(o, Plan[i].size)) % Word ELSE o

\* off: the offset the start had at each entry.
Follows(w, off, i) ==
  /\ w[i] = Address(off[i], i)
  /\ off[i + 1] = OffsetAfter(off[i], i)

\* A start that has come to entry "next" repeats the first one that placed
\* anything, or, before there was one, has its own row of offsets.
Repeats(off) ==
  /\ off[1] = 0
  /\ \A i \in Entries : Follows(first, off, i)
  /\ \A i \in Entries : i < next => where[i] = first[i]
  /\ next \in Entries => offset = off[next]

Carving(off) ==
  /\ off[1] = 0
  /\ \A i \in Entries : i < next => Follows(where, off, i)
  /\ next \in Entries => offset = off[next]

LayoutInv ==
  /\ next \in 0 .. Len(Plan) + 1
  /\ where = [i \in Entries |-> where[i]]
  /\ first = [i \in Entries |-> first[i]]
  /\ first # Nowhere => \E off : Repeats(off)
  /\ first = Nowhere => \E off : Carving(off)
  /\ Ready => where = first

LEMMA LayoutInit == Init => LayoutInv
<1> SUFFICES ASSUME Init PROVE LayoutInv
  OBVIOUS
<1>1. next = 0 /\ where = Nowhere /\ first = Nowhere
  BY DEF Init
<1>2. Carving([i \in {1} |-> 0])
  BY <1>1, PlanFacts DEF Carving
<1> QED BY <1>1, <1>2, PlanFacts DEF LayoutInv, Nowhere, Ready

LEMMA LayoutStart == LayoutInv /\ DevtoolsInit => LayoutInv'
<1> SUFFICES ASSUME LayoutInv, DevtoolsInit PROVE LayoutInv'
  OBVIOUS
<1>1. next' = 1 /\ where' = Nowhere /\ first' = first /\ offset' = 0
  BY DEF DevtoolsInit, Arena!Reset
<1>2. \A off : Repeats(off) => Repeats(off)'
  BY <1>1, PlanFacts DEF Repeats
<1>3. Carving([i \in {1} |-> 0])'
  BY <1>1, PlanFacts DEF Carving
<1>4. Ready' => where' = first'
  <2> SUFFICES ASSUME Ready' PROVE where' = first'
    OBVIOUS
  <2>1. Entries = {}
    BY <1>1, PlanFacts DEF Ready
  <2> QED BY <2>1, <1>1 DEF LayoutInv, Nowhere
<1>5. /\ next' \in 0 .. Len(Plan) + 1 /\ where' = [i \in Entries |-> where'[i]]
      /\ first' = [i \in Entries |-> first'[i]]
  BY <1>1, PlanFacts DEF LayoutInv, Nowhere
<1> QED BY <1>1, <1>2, <1>3, <1>4, <1>5 DEF LayoutInv, Nowhere

\* The two outcomes for an entry are those of Address.
LEMMA PlacedAsCarved ==
  ASSUME next \in Entries, Place \/ PlaceRefused
  PROVE  /\ Built(Address(offset, next))
         /\ offset' = OffsetAfter(offset, next)
<1>1. CASE Place
  BY <1>1 DEF Place, Arena!Allocate, Address, OffsetAfter
<1>2. CASE PlaceRefused
  BY <1>2 DEF PlaceRefused, Arena!AllocateFails, Arena!arenaVars, Address, OffsetAfter
<1> QED BY <1>1, <1>2

LEMMA LayoutPlaced ==
  ASSUME LayoutInv, next \in Entries, Place \/ PlaceRefused
  PROVE  LayoutInv'
<1> DEFINE at == Address(offset, next)
<1>1. /\ next' = next + 1 /\ where' = [where EXCEPT ![next] = at]
      /\ first' = (IF next = Len(Plan) /\ first = Nowhere THEN where' ELSE first)
      /\ offset' = OffsetAfter(offset, next)
  BY PlacedAsCarved DEF Built
<1>2. /\ next \in 1 .. Len(Plan) /\ Len(Plan) \in Nat /\ Entries = 1 .. Len(Plan)
      /\ next' \in 0 .. Len(Plan) + 1
  BY <1>1, PlanFacts
<1>3. /\ where' = [i \in Entries |-> where'[i]]
      /\ where'[next] = at
      /\ \A i \in Entries : i # next => where'[i] = where[i]
  BY <1>1 DEF LayoutInv
<1>4. \A i \in Entries : i < next' <=> i < next \/ i = next
  BY <1>1, <1>2
<1>5. first' = [i \in Entries |-> first'[i]]
  BY <1>1, <1>3 DEF LayoutInv
<1>6. ASSUME first # Nowhere
      PROVE  first' = first /\ (\E off : Repeats(off)') /\ (Ready' => where' = first')
  <2>1. PICK off : Repeats(off)
    BY <1>6 DEF LayoutInv
  <2>2. first' = first
    BY <1>6, <1>1
  <2>3. offset = off[next] /\ Follows(first, off, next)
    BY <2>1 DEF Repeats
  <2>4. \A j \in Entries : j < next => where[j] = first[j]
    BY <2>1 DEF Repeats
  <2>5. at = first[next] /\ offset' = off[next + 1]
    BY <2>3, <1>1 DEF Follows
  <2> HIDE DEF at
  <2>6. \A i \in Entries : i < next' => where'[i] = first'[i]
    BY <1>2, <1>3, <1>4, <2>2, <2>4, <2>5
  <2>7. Repeats(off)'
    BY <2>1, <2>2, <2>5, <2>6, <1>1 DEF Repeats, Follows, Address, OffsetAfter
  <2>8. Ready' => where' = first'
    <3> SUFFICES ASSUME Ready' PROVE where' = first'
      OBVIOUS
    <3>1. \A i \in Entries : i < next'
      BY <1>2 DEF Ready
    <3> QED BY <3>1, <2>6, <1>3, <1>5
  <2> QED BY <2>2, <2>7, <2>8
<1>7. ASSUME first = Nowhere
      PROVE  /\ first' # Nowhere => \E off : Repeats(off)'
             /\ first' = Nowhere => \E off : Carving(off)'
             /\ Ready' => where' = first'
  <2>1. PICK old : Carving(old)
    BY <1>7 DEF LayoutInv
  <2>2. PICK off : /\ off[next + 1] = offset'
                   /\ \A i \in 1 .. Len(Plan) + 1 : i # next + 1 => off[i] = old[i]
                   /\ offset = old[next]
    <3> DEFINE new == [i \in 1 .. Len(Plan) + 1 |-> IF i = next + 1 THEN offset' ELSE old[i]]
    <3>1. /\ new[next + 1] = offset'
          /\ \A i \in 1 .. Len(Plan) + 1 : i # next + 1 => new[i] = old[i]
      BY <1>2
    <3>2. offset = old[next]
      BY <2>1 DEF Carving
    <3> HIDE DEF new
    <3> QED BY <3>1, <3>2
  <2>3. ASSUME NEW i \in Entries, i < next'
        PROVE  Follows(where', off, i)
    <3>3. CASE i < next
      <4>1. Follows(where, old, i)
        BY <3>3, <2>1 DEF Carving
      <4>2. off[i] = old[i] /\ off[i + 1] = old[i + 1] /\ where'[i] = where[i]
        BY <3>3, <2>2, <1>2, <1>3
      <4> QED BY <4>1, <4>2 DEF Follows
    <3>4. CASE i = next
      <4>1. off[i] = offset
        BY <3>4, <2>2, <1>2
      <4>2. where'[i] = Address(offset, i) /\ off[i + 1] = OffsetAfter(offset, i)
        BY <3>4, <2>2, <1>1, <1>3
      <4> QED BY <4>1, <4>2 DEF Follows
    <3> QED BY <3>3, <3>4, <2>3, <1>4
  <2>4. off[1] = 0 /\ offset' = off[next']
    BY <2>1, <2>2, <1>1, <1>2 DEF Carving
  <2>5. Carving(off)'
    BY <2>3, <2>4 DEF Carving, Follows, Address, OffsetAfter
  <2>6. CASE next = Len(Plan)
    <3>1. first' = where' /\ next' \notin Entries /\ \A i \in Entries : i < next'
      BY <2>6, <1>1, <1>2, <1>7
    <3>2. Repeats(off)'
      BY <3>1, <2>3, <2>4 DEF Repeats, Follows, Address, OffsetAfter
    <3> QED BY <3>1, <3>2, <2>5
  <2>7. CASE next # Len(Plan)
    <3>1. first' = first /\ ~ Ready'
      BY <2>7, <1>1, <1>2 DEF Ready
    <3> QED BY <3>1, <2>5, <1>7 DEF Nowhere
  <2> QED BY <2>6, <2>7
<1>8. Nowhere' = Nowhere
  BY DEF Nowhere
<1> QED BY <1>2, <1>3, <1>5, <1>6, <1>7, <1>8 DEF LayoutInv

LEMMA LayoutStep == LayoutInv /\ [Next]_vars => LayoutInv'
<1> SUFFICES ASSUME LayoutInv, [Next]_vars PROVE LayoutInv'
  OBVIOUS
<1>1. CASE DevtoolsInit
  BY <1>1, LayoutStart
<1>2. CASE Place \/ PlaceRefused
  <2>1. next \in Entries
    BY <1>2 DEF Place, PlaceRefused
  <2> QED BY <2>1, <1>2, LayoutPlaced
<1>3. ASSUME UNCHANGED <<next, where, first>>,
             next \notin Entries \/ offset' = offset
      PROVE  LayoutInv'
  <2>1. \A off : Repeats(off) => Repeats(off)'
    BY <1>3 DEF Repeats, Follows, Address, OffsetAfter
  <2>2. \A off : Carving(off) => Carving(off)'
    BY <1>3 DEF Carving, Follows, Address, OffsetAfter
  <2> QED BY <1>3, <2>1, <2>2 DEF LayoutInv, Nowhere, Ready
<1>4. Idle => next \notin Entries
  BY PlanFacts DEF Idle, Ready
<1>5. ASSUME NEW size \in PageSizes, AllocateMemory(size)
      PROVE  LayoutInv'
  BY <1>3, <1>4, <1>5 DEF AllocateMemory
<1>6. ASSUME NEW size \in EngineSizes, EngineAllocates(size)
      PROVE  LayoutInv'
  BY <1>3, <1>4, <1>6 DEF EngineAllocates, Idle
<1>7. ASSUME NEW size, Refused(size)
      PROVE  LayoutInv'
  BY <1>3, <1>7 DEF Refused, Arena!AllocateFails, Arena!arenaVars
<1>8. CASE UNCHANGED vars
  BY <1>3, <1>8 DEF vars
<1> QED BY <1>1, <1>2, <1>5, <1>6, <1>7, <1>8 DEF Next

\* Whatever the page and the engines did in between, every start puts every
\* engine and buffer where the first start that placed anything put it.
THEOREM DevToolsLayout == Spec => []ResetRestoresLayout
<1>1. LayoutInv => ResetRestoresLayout
  BY DEF LayoutInv, ResetRestoresLayout
<1> QED BY <1>1, LayoutInit, LayoutStep, PTL DEF Spec
=============================================================================

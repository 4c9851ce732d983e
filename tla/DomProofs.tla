----------------------------- MODULE DomProofs -----------------------------
(***************************************************************************)
(* Of the elements engine, for any number of nodes: the sibling lists stay *)
(* linked, the diff makes one tree the other, the searches are exact.      *)
(***************************************************************************)
EXTENDS DomDiff, DomQuery, DataLemmas

\* The parts of Links that the lemmas use.
LEMMA LinksFields ==
  ASSUME NEW h \in Links
  PROVE  /\ h.parent \in Pointers /\ h.first \in Pointers /\ h.last \in Pointers
         /\ h.next \in Pointers /\ h.prev \in Pointers
         /\ h.count \in [Nodes -> Int]
  BY DEF Links

LEMMA NullIsNoNode == Null \notin Nodes
  BY DEF Null, Nodes

\* Linked, field by field: what the proofs below show of the new links.
LinkedFields(parent, first, last, next, prev) ==
  /\ \A c \in Nodes :
       /\ parent[c] = Null => next[c] = Null /\ prev[c] = Null
       /\ parent[c] # Null /\ prev[c] = Null => first[parent[c]] = c
       /\ parent[c] # Null /\ prev[c] # Null =>
            next[prev[c]] = c /\ parent[prev[c]] = parent[c]
       /\ parent[c] # Null /\ next[c] = Null => last[parent[c]] = c
       /\ parent[c] # Null /\ next[c] # Null =>
            prev[next[c]] = c /\ parent[next[c]] = parent[c]
  /\ \A p \in Nodes :
       /\ first[p] = Null <=> last[p] = Null
       /\ first[p] # Null => parent[first[p]] = p /\ prev[first[p]] = Null
       /\ last[p] # Null => parent[last[p]] = p /\ next[last[p]] = Null

LEMMA LinkedByField ==
  ASSUME NEW h
  PROVE  Linked(h) <=> LinkedFields(h.parent, h.first, h.last, h.next, h.prev)
  BY DEF Linked, LinkedFields

\* Appending a node that hangs nowhere, to an empty list and to a longer one.
LEMMA AppendToEmpty ==
  ASSUME NEW parent \in Pointers, NEW first \in Pointers, NEW last \in Pointers,
         NEW next \in Pointers, NEW prev \in Pointers,
         LinkedFields(parent, first, last, next, prev),
         NEW p \in Nodes, NEW c \in Nodes, parent[c] = Null, first[p] = Null
  PROVE  LinkedFields([parent EXCEPT ![c] = p], [first EXCEPT ![p] = c],
                      [last EXCEPT ![p] = c], next, prev)
  BY NullIsNoNode DEF LinkedFields, Pointers

LEMMA AppendToSome ==
  ASSUME NEW parent \in Pointers, NEW first \in Pointers, NEW last \in Pointers,
         NEW next \in Pointers, NEW prev \in Pointers,
         LinkedFields(parent, first, last, next, prev),
         NEW p \in Nodes, NEW c \in Nodes, parent[c] = Null, first[p] # Null
  PROVE  LinkedFields([parent EXCEPT ![c] = p], first, [last EXCEPT ![p] = c],
                      [next EXCEPT ![last[p]] = c], [prev EXCEPT ![c] = last[p]])
  BY NullIsNoNode DEF LinkedFields, Pointers

\* Putting a node that hangs nowhere in front of r, first or further back.
LEMMA InsertAsFirst ==
  ASSUME NEW parent \in Pointers, NEW first \in Pointers, NEW last \in Pointers,
         NEW next \in Pointers, NEW prev \in Pointers,
         LinkedFields(parent, first, last, next, prev),
         NEW p \in Nodes, NEW c \in Nodes, NEW r \in Nodes,
         parent[c] = Null, parent[r] = p, prev[r] = Null
  PROVE  LinkedFields([parent EXCEPT ![c] = p], [first EXCEPT ![p] = c], last,
                      [next EXCEPT ![c] = r],
                      [[prev EXCEPT ![c] = Null] EXCEPT ![r] = c])
  BY NullIsNoNode DEF LinkedFields, Pointers

LEMMA InsertInside ==
  ASSUME NEW parent \in Pointers, NEW first \in Pointers, NEW last \in Pointers,
         NEW next \in Pointers, NEW prev \in Pointers,
         LinkedFields(parent, first, last, next, prev),
         NEW p \in Nodes, NEW c \in Nodes, NEW r \in Nodes,
         parent[c] = Null, parent[r] = p, prev[r] # Null
  PROVE  LinkedFields([parent EXCEPT ![c] = p], first, last,
                      [[next EXCEPT ![c] = r] EXCEPT ![prev[r]] = c],
                      [[prev EXCEPT ![c] = prev[r]] EXCEPT ![r] = c])
  BY NullIsNoNode DEF LinkedFields, Pointers

\* Taking c out: with neighbours on both sides, on one, on none.
LEMMA UnlinkOnly ==
  ASSUME NEW parent \in Pointers, NEW first \in Pointers, NEW last \in Pointers,
         NEW next \in Pointers, NEW prev \in Pointers,
         LinkedFields(parent, first, last, next, prev),
         NEW p \in Nodes, NEW c \in Nodes, parent[c] = p,
         prev[c] = Null, next[c] = Null
  PROVE  LinkedFields([parent EXCEPT ![c] = Null], [first EXCEPT ![p] = Null],
                      [last EXCEPT ![p] = Null],
                      [next EXCEPT ![c] = Null], [prev EXCEPT ![c] = Null])
  BY NullIsNoNode DEF LinkedFields, Pointers

LEMMA UnlinkFirst ==
  ASSUME NEW parent \in Pointers, NEW first \in Pointers, NEW last \in Pointers,
         NEW next \in Pointers, NEW prev \in Pointers,
         LinkedFields(parent, first, last, next, prev),
         NEW p \in Nodes, NEW c \in Nodes, parent[c] = p,
         prev[c] = Null, next[c] # Null
  PROVE  LinkedFields([parent EXCEPT ![c] = Null], [first EXCEPT ![p] = next[c]],
                      last, [next EXCEPT ![c] = Null],
                      [[prev EXCEPT ![next[c]] = Null] EXCEPT ![c] = Null])
  BY NullIsNoNode DEF LinkedFields, Pointers

LEMMA UnlinkLast ==
  ASSUME NEW parent \in Pointers, NEW first \in Pointers, NEW last \in Pointers,
         NEW next \in Pointers, NEW prev \in Pointers,
         LinkedFields(parent, first, last, next, prev),
         NEW p \in Nodes, NEW c \in Nodes, parent[c] = p,
         prev[c] # Null, next[c] = Null
  PROVE  LinkedFields([parent EXCEPT ![c] = Null], first, [last EXCEPT ![p] = prev[c]],
                      [[next EXCEPT ![prev[c]] = Null] EXCEPT ![c] = Null],
                      [prev EXCEPT ![c] = Null])
  BY NullIsNoNode DEF LinkedFields, Pointers

LEMMA UnlinkInside ==
  ASSUME NEW parent \in Pointers, NEW first \in Pointers, NEW last \in Pointers,
         NEW next \in Pointers, NEW prev \in Pointers,
         LinkedFields(parent, first, last, next, prev),
         NEW p \in Nodes, NEW c \in Nodes, parent[c] = p,
         prev[c] # Null, next[c] # Null
  PROVE  LinkedFields([parent EXCEPT ![c] = Null], first, last,
                      [[next EXCEPT ![prev[c]] = next[c]] EXCEPT ![c] = Null],
                      [[prev EXCEPT ![next[c]] = prev[c]] EXCEPT ![c] = Null])
  BY NullIsNoNode DEF LinkedFields, Pointers

----------------------------------------------------------------------------
\* The three operations, on whole links.
LEMMA AppendLinked ==
  ASSUME NEW h \in Links, Linked(h), NEW p \in Nodes, NEW c \in Nodes,
         h.parent[c] = Null
  PROVE  AppendChild(h, p, c) \in Links /\ Linked(AppendChild(h, p, c))
<1> DEFINE g == AppendChild(h, p, c)
<1>1. LinkedFields(h.parent, h.first, h.last, h.next, h.prev)
  BY LinkedByField
<1>2. /\ h.parent \in Pointers /\ h.first \in Pointers /\ h.last \in Pointers
      /\ h.next \in Pointers /\ h.prev \in Pointers /\ h.count \in [Nodes -> Int]
  BY LinksFields
<1>3. g \in Links
  <2>1. /\ Set(h.parent, c, p) \in Pointers /\ Set(h.first, p, c) \in Pointers
        /\ Set(h.last, p, c) \in Pointers /\ Set(h.next, h.last[p], c) \in Pointers
        /\ Set(h.prev, c, h.last[p]) \in Pointers
    BY <1>2 DEF Set, Pointers
  <2>2. Set(h.count, p, h.count[p] + 1) \in [Nodes -> Int]
    BY <1>2 DEF Set
  <2> QED BY <1>2, <2>1, <2>2 DEF AppendChild, Links
<1>4. CASE h.first[p] = Null
  <2>1. LinkedFields([h.parent EXCEPT ![c] = p], [h.first EXCEPT ![p] = c],
                     [h.last EXCEPT ![p] = c], h.next, h.prev)
    BY <1>4, <1>1, <1>2, AppendToEmpty
  <2>2. LinkedFields(g.parent, g.first, g.last, g.next, g.prev)
    BY <2>1, <1>4 DEF AppendChild, Set
  <2> QED BY <1>3, <2>2, LinkedByField
<1>5. CASE h.first[p] # Null
  <2>1. LinkedFields([h.parent EXCEPT ![c] = p], h.first, [h.last EXCEPT ![p] = c],
                     [h.next EXCEPT ![h.last[p]] = c],
                     [h.prev EXCEPT ![c] = h.last[p]])
    BY <1>5, <1>1, <1>2, AppendToSome
  <2>2. LinkedFields(g.parent, g.first, g.last, g.next, g.prev)
    BY <2>1, <1>5 DEF AppendChild, Set
  <2> QED BY <1>3, <2>2, LinkedByField
<1> QED BY <1>4, <1>5

LEMMA InsertLinked ==
  ASSUME NEW h \in Links, Linked(h), NEW p \in Nodes, NEW c \in Nodes,
         NEW r \in Nodes, h.parent[c] = Null, h.parent[r] = p
  PROVE  InsertChild(h, p, c, r) \in Links /\ Linked(InsertChild(h, p, c, r))
<1> DEFINE g == InsertChild(h, p, c, r)
<1>1. LinkedFields(h.parent, h.first, h.last, h.next, h.prev)
  BY LinkedByField
<1>2. /\ h.parent \in Pointers /\ h.first \in Pointers /\ h.last \in Pointers
      /\ h.next \in Pointers /\ h.prev \in Pointers /\ h.count \in [Nodes -> Int]
  BY LinksFields
<1>3. g \in Links
  BY <1>2, NullIsNoNode DEF InsertChild, Set, Links, Pointers
<1>4. CASE h.prev[r] = Null
  <2>1. LinkedFields([h.parent EXCEPT ![c] = p], [h.first EXCEPT ![p] = c],
                     h.last, [h.next EXCEPT ![c] = r],
                     [[h.prev EXCEPT ![c] = Null] EXCEPT ![r] = c])
    BY <1>4, <1>1, <1>2, InsertAsFirst
  <2>2. LinkedFields(g.parent, g.first, g.last, g.next, g.prev)
    BY <2>1, <1>4 DEF InsertChild, Set
  <2> QED BY <1>3, <2>2, LinkedByField
<1>5. CASE h.prev[r] # Null
  <2>1. LinkedFields([h.parent EXCEPT ![c] = p], h.first, h.last,
                     [[h.next EXCEPT ![c] = r] EXCEPT ![h.prev[r]] = c],
                     [[h.prev EXCEPT ![c] = h.prev[r]] EXCEPT ![r] = c])
    BY <1>5, <1>1, <1>2, InsertInside
  <2>2. LinkedFields(g.parent, g.first, g.last, g.next, g.prev)
    BY <2>1, <1>5 DEF InsertChild, Set
  <2> QED BY <1>3, <2>2, LinkedByField
<1> QED BY <1>4, <1>5

LEMMA UnlinkLinked ==
  ASSUME NEW h \in Links, Linked(h), NEW p \in Nodes, NEW c \in Nodes,
         h.parent[c] = p
  PROVE  UnlinkChild(h, p, c) \in Links /\ Linked(UnlinkChild(h, p, c))
<1> DEFINE g == UnlinkChild(h, p, c)
<1>1. LinkedFields(h.parent, h.first, h.last, h.next, h.prev)
  BY LinkedByField
<1>2. /\ h.parent \in Pointers /\ h.first \in Pointers /\ h.last \in Pointers
      /\ h.next \in Pointers /\ h.prev \in Pointers /\ h.count \in [Nodes -> Int]
  BY LinksFields
<1>3. g \in Links
  BY <1>2, NullIsNoNode DEF UnlinkChild, Set, Links, Pointers
<1>4. CASE h.prev[c] = Null /\ h.next[c] = Null
  <2>1. LinkedFields([h.parent EXCEPT ![c] = Null], [h.first EXCEPT ![p] = Null],
                     [h.last EXCEPT ![p] = Null], [h.next EXCEPT ![c] = Null],
                     [h.prev EXCEPT ![c] = Null])
    BY <1>4, <1>1, <1>2, UnlinkOnly
  <2>2. LinkedFields(g.parent, g.first, g.last, g.next, g.prev)
    BY <2>1, <1>4 DEF UnlinkChild, Set
  <2> QED BY <1>3, <2>2, LinkedByField
<1>5. CASE h.prev[c] = Null /\ h.next[c] # Null
  <2>1. LinkedFields([h.parent EXCEPT ![c] = Null],
                     [h.first EXCEPT ![p] = h.next[c]], h.last,
                     [h.next EXCEPT ![c] = Null],
                     [[h.prev EXCEPT ![h.next[c]] = Null] EXCEPT ![c] = Null])
    BY <1>5, <1>1, <1>2, UnlinkFirst
  <2>2. LinkedFields(g.parent, g.first, g.last, g.next, g.prev)
    BY <2>1, <1>5 DEF UnlinkChild, Set
  <2> QED BY <1>3, <2>2, LinkedByField
<1>6. CASE h.prev[c] # Null /\ h.next[c] = Null
  <2>1. LinkedFields([h.parent EXCEPT ![c] = Null], h.first,
                     [h.last EXCEPT ![p] = h.prev[c]],
                     [[h.next EXCEPT ![h.prev[c]] = Null] EXCEPT ![c] = Null],
                     [h.prev EXCEPT ![c] = Null])
    BY <1>6, <1>1, <1>2, UnlinkLast
  <2>2. LinkedFields(g.parent, g.first, g.last, g.next, g.prev)
    BY <2>1, <1>6 DEF UnlinkChild, Set
  <2> QED BY <1>3, <2>2, LinkedByField
<1>7. CASE h.prev[c] # Null /\ h.next[c] # Null
  <2>1. LinkedFields([h.parent EXCEPT ![c] = Null], h.first, h.last,
                     [[h.next EXCEPT ![h.prev[c]] = h.next[c]] EXCEPT ![c] = Null],
                     [[h.prev EXCEPT ![h.next[c]] = h.prev[c]] EXCEPT ![c] = Null])
    BY <1>7, <1>1, <1>2, UnlinkInside
  <2>2. LinkedFields(g.parent, g.first, g.last, g.next, g.prev)
    BY <2>1, <1>7 DEF UnlinkChild, Set
  <2> QED BY <1>3, <2>2, LinkedByField
<1> QED BY <1>4, <1>5, <1>6, <1>7

----------------------------------------------------------------------------
\* The counters: a node joins or leaves one set of children.
Children(h, p) == {c \in Nodes : h.parent[c] = p}
Counted(h) == \A p \in Nodes : h.count[p] = Cardinality(Children(h, p))

LEMMA ChildrenFinite ==
  ASSUME NEW h, NEW p
  PROVE  IsFiniteSet(Children(h, p)) /\ Cardinality(Children(h, p)) \in Nat
<1>1. IsFiniteSet(Nodes)
  BY DomAssumption, FS_Interval DEF Nodes
<1>2. Children(h, p) \subseteq Nodes
  BY DEF Children
<1> QED BY <1>1, <1>2, FS_Subset, FS_CardinalityType

LEMMA JoinCounted ==
  ASSUME NEW h \in Links, Counted(h), NEW g \in Links,
         NEW p \in Nodes, NEW c \in Nodes, h.parent[c] = Null,
         g.parent = [h.parent EXCEPT ![c] = p],
         g.count = [h.count EXCEPT ![p] = @ + 1]
  PROVE  Counted(g)
<1> SUFFICES ASSUME NEW q \in Nodes
             PROVE  g.count[q] = Cardinality(Children(g, q))
  BY DEF Counted
<1>1. h.parent \in Pointers /\ h.count \in [Nodes -> Int]
  BY LinksFields
<1>2. h.count[q] = Cardinality(Children(h, q))
  BY DEF Counted
<1>3. CASE q = p
  <2>1. Children(g, q) = Children(h, q) \union {c}
    BY <1>1, <1>3 DEF Children, Pointers
  <2>2. c \notin Children(h, q)
    BY NullIsNoNode DEF Children
  <2>3. Cardinality(Children(g, q)) = Cardinality(Children(h, q)) + 1
    BY <2>1, <2>2, ChildrenFinite, FS_AddElement
  <2> QED BY <2>3, <1>1, <1>2, <1>3
<1>4. CASE q # p
  <2>1. Children(g, q) = Children(h, q)
    BY <1>1, <1>4, NullIsNoNode DEF Children, Pointers
  <2> QED BY <2>1, <1>1, <1>2, <1>4
<1> QED BY <1>3, <1>4

LEMMA LeaveCounted ==
  ASSUME NEW h \in Links, Counted(h), NEW g \in Links,
         NEW p \in Nodes, NEW c \in Nodes, h.parent[c] = p,
         g.parent = [h.parent EXCEPT ![c] = Null],
         g.count = [h.count EXCEPT ![p] = @ - 1]
  PROVE  Counted(g)
<1> SUFFICES ASSUME NEW q \in Nodes
             PROVE  g.count[q] = Cardinality(Children(g, q))
  BY DEF Counted
<1>1. h.parent \in Pointers /\ h.count \in [Nodes -> Int]
  BY LinksFields
<1>2. h.count[q] = Cardinality(Children(h, q))
  BY DEF Counted
<1>3. CASE q = p
  <2>1. Children(g, q) = Children(h, q) \ {c}
    BY <1>1, <1>3, NullIsNoNode DEF Children, Pointers
  <2>2. c \in Children(h, q)
    BY <1>3 DEF Children
  <2> DEFINE C == Children(h, q)
  <2>3. IsFiniteSet(C)
    BY ChildrenFinite
  <2> HIDE DEF C
  <2>4. c \in C => Cardinality(C \ {c}) = Cardinality(C) - 1
    BY ONLY <2>3, FS_RemoveElement
  <2>5. Cardinality(Children(g, q)) = Cardinality(Children(h, q)) - 1
    BY <2>1, <2>2, <2>4 DEF C
  <2> QED BY <2>5, <1>1, <1>2, <1>3
<1>4. CASE q # p
  <2>1. Children(g, q) = Children(h, q)
    BY <1>1, <1>4, NullIsNoNode DEF Children, Pointers
  <2> QED BY <2>1, <1>1, <1>2, <1>4
<1> QED BY <1>3, <1>4

----------------------------------------------------------------------------
(* The invariant: well-typed links that are linked and counted.            *)
DomInv ==
  /\ created \in 0 .. MaxNode
  /\ links \in Links
  /\ Linked(links)
  /\ Counted(links)

LEMMA DomInit == Init => DomInv
<1> SUFFICES ASSUME Init PROVE DomInv
  OBVIOUS
<1>1. links \in Links
  BY DEF Init, NoLinks, Links, Pointers
<1>2. Linked(links)
  BY DEF Init, NoLinks, Linked
<1>3. Counted(links)
  <2> SUFFICES ASSUME NEW p \in Nodes
               PROVE  links.count[p] = Cardinality(Children(links, p))
    BY DEF Counted
  <2>1. Children(links, p) = {}
    BY NullIsNoNode DEF Children, Init, NoLinks
  <2> QED BY <2>1, FS_EmptySet DEF Init, NoLinks
<1>4. created \in 0 .. MaxNode
  BY DomAssumption DEF Init
<1> QED BY <1>1, <1>2, <1>3, <1>4 DEF DomInv

\* Every operation of the engine keeps the invariant.
LEMMA DomStep == DomInv /\ [Next]_vars => DomInv'
<1> SUFFICES ASSUME DomInv, [Next]_vars PROVE DomInv'
  OBVIOUS
<1>0. Existing \subseteq Nodes
  BY DomAssumption DEF DomInv, Existing, Nodes
<1>1. CASE CreateNode
  BY <1>1, DomAssumption DEF DomInv, CreateNode
<1>2. CASE Refused \/ UNCHANGED vars
  BY <1>2 DEF DomInv, Refused, vars
<1>3. ASSUME NEW p \in Existing, NEW c \in Existing, InsertLast(p, c)
      PROVE  DomInv'
  <2>1. links' \in Links /\ Linked(links')
    BY <1>0, <1>3, AppendLinked DEF InsertLast, Proper, DomInv
  <2>2. Counted(links')
    <3>1. /\ links'.parent = [links.parent EXCEPT ![c] = p]
          /\ links'.count = [links.count EXCEPT ![p] = @ + 1]
      BY <1>3 DEF InsertLast, AppendChild, Set
    <3> QED BY <3>1, <2>1, <1>0, <1>3, JoinCounted DEF DomInv, InsertLast, Proper
  <2> QED BY <2>1, <2>2, <1>3 DEF DomInv, InsertLast
<1>4. ASSUME NEW p \in Existing, NEW c \in Existing, RemoveChild(p, c)
      PROVE  DomInv'
  <2>1. links' \in Links /\ Linked(links')
    BY <1>0, <1>4, UnlinkLinked DEF RemoveChild, DomInv
  <2>2. Counted(links')
    <3>1. /\ links'.parent = [links.parent EXCEPT ![c] = Null]
          /\ links'.count = [links.count EXCEPT ![p] = @ - 1]
      BY <1>4 DEF RemoveChild, UnlinkChild, Set
    <3> QED BY <3>1, <2>1, <1>0, <1>4, LeaveCounted DEF DomInv, RemoveChild
  <2> QED BY <2>1, <2>2, <1>4 DEF DomInv, RemoveChild
<1>5. ASSUME NEW p \in Existing, NEW c \in Existing, NEW r \in Existing,
             InsertBefore(p, c, r)
      PROVE  DomInv'
  <2>1. links.parent[c] = Null /\ links.parent[r] = p
    BY <1>0, <1>5, NullIsNoNode DEF InsertBefore, Proper
  <2>2. links' \in Links /\ Linked(links')
    BY <1>0, <1>5, <2>1, InsertLinked DEF InsertBefore, DomInv
  <2>3. Counted(links')
    <3>1. /\ links'.parent = [links.parent EXCEPT ![c] = p]
          /\ links'.count = [links.count EXCEPT ![p] = @ + 1]
      BY <1>5 DEF InsertBefore, InsertChild, Set
    <3> QED BY <3>1, <2>1, <2>2, <1>0, JoinCounted DEF DomInv
  <2> QED BY <2>2, <2>3, <1>5 DEF DomInv, InsertBefore
<1>6. ASSUME NEW n \in Existing, NEW name \in Names, NEW value \in Values,
             SetAttribute(n, name, value)
      PROVE  DomInv'
  BY <1>6 DEF DomInv, SetAttribute
<1>7. ASSUME NEW n \in Existing, NEW name \in Names, RemoveAttribute(n, name)
      PROVE  DomInv'
  BY <1>7 DEF DomInv, RemoveAttribute
<1> QED BY <1>1, <1>2, <1>3, <1>4, <1>5, <1>6, <1>7 DEF Next

LEMMA DomInvariant == Spec => []DomInv
<1>1. Init => DomInv
  BY DomInit
<1>2. DomInv /\ [Next]_vars => DomInv'
  BY DomStep
<1> QED BY <1>1, <1>2, PTL DEF Spec

\* The five pointers of every node agree, however many nodes there are: what
\* insert_before and remove_child (elements.h:140-182) leave behind.
THEOREM DomListsLinked == Spec => []ListsLinked
<1>1. DomInv => ListsLinked
  BY DEF DomInv, ListsLinked
<1> QED BY <1>1, DomInvariant, PTL

\* child_node_count is the number of nodes that hang from a node, through
\* every insertion and removal.
THEOREM DomChildrenCounted == Spec => []ChildrenCounted
<1>1. DomInv => ChildrenCounted
  BY DEF DomInv, ChildrenCounted, Counted, Children
<1> QED BY <1>1, DomInvariant, PTL

----------------------------------------------------------------------------
(* The walks: what hangs from a node is one list.                          *)

\* s is the list of the children of p: each once, from the first on along
\* next, and no other node says p is its parent.
ListOf(h, p, s) ==
  /\ s \in Seq(Nodes)
  /\ \A i, j \in 1 .. Len(s) : s[i] = s[j] => i = j
  /\ \A i \in 1 .. Len(s) : h.parent[s[i]] = p
  /\ h.first[p] = IF Len(s) = 0 THEN Null ELSE s[1]
  /\ \A i \in 1 .. Len(s) : h.next[s[i]] = IF i = Len(s) THEN Null ELSE s[i + 1]
  /\ \A c \in Nodes : h.parent[c] = p => \E i \in 1 .. Len(s) : s[i] = c

LEMMA ListFacts ==
  ASSUME NEW h, NEW p, NEW s, ListOf(h, p, s)
  PROVE  Len(s) \in Nat /\ DOMAIN s = 1 .. Len(s) /\ \A i \in 1 .. Len(s) : s[i] \in Nodes
BY ElementOfSeq DEF ListOf

\* No list is longer than there are nodes.
LEMMA ListFits ==
  ASSUME NEW h, NEW p, NEW s, ListOf(h, p, s)
  PROVE  Len(s) <= MaxNode
<1> DEFINE T == 1 .. Len(s)
           f == [n \in 1 .. MaxNode |-> CHOOSE i \in T : s[i] = n]
<1>1. Len(s) \in Nat /\ \A i \in T : s[i] \in 1 .. MaxNode
  BY ListFacts DEF Nodes
<1>2. ASSUME NEW i \in T PROVE \E n \in 1 .. MaxNode : f[n] = i
  <2>1. s[i] \in 1 .. MaxNode /\ f[s[i]] \in T /\ s[f[s[i]]] = s[i]
    BY <1>1
  <2>2. f[s[i]] = i
    BY <2>1 DEF ListOf
  <2> QED BY <2>1, <2>2
<1>3. Cardinality(T) <= MaxNode
  <2> HIDE DEF f, T
  <2> QED BY <1>2, DomAssumption, Enumerated
<1>4. Cardinality(1 .. Len(s)) = Len(s)
  BY <1>1, UpTo
<1> QED BY <1>3, <1>4

\* The walk is what its recursion says.
LEMMA AlongSteps ==
  ASSUME NEW h \in Links, NEW p \in Nodes
  PROVE  /\ Along(h, p)[1] = h.first[p]
         /\ \A k \in 2 .. MaxNode :
              Along(h, p)[k] = IF Along(h, p)[k - 1] = Null THEN Null
                               ELSE h.next[Along(h, p)[k - 1]]
<1> DEFINE V == Nodes \union {Null}
           after == [a \in Nat \X V |-> IF a[2] = Null THEN Null ELSE h.next[a[2]]]
<1>1. h.first \in [Nodes -> V] /\ h.next \in [Nodes -> V]
  BY LinksFields DEF Pointers
<1>2. after \in [Nat \X V -> V] /\ h.first[p] \in V
  BY <1>1
<1>3. MaxNode \in Nat
  BY DomAssumption
<1>4. PICK f \in [0 .. MaxNode -> V] : Recursive(f, MaxNode, h.first[p], after)
  <2> HIDE DEF V, after
  <2> QED BY <1>2, <1>3, Recursion
<1> DEFINE g == [k \in 1 .. MaxNode |-> f[k - 1]]
<1>5. \A k \in 1 .. MaxNode : g[k] = f[k - 1] /\ f[k - 1] \in V
  BY <1>3, <1>4
<1>6. ASSUME NEW k \in 2 .. MaxNode
      PROVE  g[k] = IF g[k - 1] = Null THEN Null ELSE h.next[g[k - 1]]
  <2>1. k - 1 \in 1 .. MaxNode /\ k \in 1 .. MaxNode /\ (k - 1) - 1 \in 0 .. MaxNode
        /\ k - 1 \in Nat
    BY <1>3
  <2>2. f[k - 1] = after[<<k - 1, f[(k - 1) - 1]>>]
    BY <2>1, <1>4 DEF Recursive
  <2>3. f[(k - 1) - 1] \in V /\ g[k - 1] = f[(k - 1) - 1] /\ g[k] = f[k - 1]
    BY <2>1, <1>5
  <2> HIDE DEF g
  <2> QED BY <2>1, <2>2, <2>3
<1>7. 1 \in 1 .. MaxNode
  BY <1>3 DEF Nodes
<1>8. g[1] = h.first[p]
  BY <1>4, <1>5, <1>7 DEF Recursive
<1>9. g = [k \in 1 .. MaxNode |-> IF k = 1 THEN h.first[p]
                                 ELSE IF g[k - 1] = Null THEN Null ELSE h.next[g[k - 1]]]
  <2>1. g = [k \in 1 .. MaxNode |-> g[k]]
    OBVIOUS
  <2>2. \A k \in 1 .. MaxNode : k # 1 => k \in 2 .. MaxNode
    BY <1>3
  <2> HIDE DEF g
  <2> QED BY <2>1, <2>2, <1>6, <1>8
<1> HIDE DEF g, after, V
<1> DEFINE e == CHOOSE at : at = [k \in 1 .. MaxNode |->
                   IF k = 1 THEN h.first[p]
                   ELSE IF at[k - 1] = Null THEN Null ELSE h.next[at[k - 1]]]
<1>10. e = [k \in 1 .. MaxNode |-> IF k = 1 THEN h.first[p]
                                  ELSE IF e[k - 1] = Null THEN Null ELSE h.next[e[k - 1]]]
  BY <1>9
<1>11. Along(h, p) = e
  BY DEF Along
<1> HIDE DEF e
<1>12. \A k \in 2 .. MaxNode : k \in 1 .. MaxNode /\ k # 1
  BY <1>3
<1> QED BY <1>7, <1>10, <1>11, <1>12

\* The walk meets the list and then nothing.
LEMMA AlongList ==
  ASSUME NEW h \in Links, NEW p \in Nodes, NEW s, ListOf(h, p, s)
  PROVE  \A k \in 1 .. MaxNode : Along(h, p)[k] = IF k <= Len(s) THEN s[k] ELSE Null
<1> DEFINE at == Along(h, p)
           S == {k \in Nat : k + 1 <= MaxNode =>
                              at[k + 1] = IF k + 1 <= Len(s) THEN s[k + 1] ELSE Null}
<1>1. MaxNode \in Nat /\ Len(s) \in Nat /\ \A i \in 1 .. Len(s) : s[i] \in Nodes
  BY DomAssumption, ListFacts
<1>2. /\ at[1] = h.first[p]
      /\ \A k \in 2 .. MaxNode : at[k] = IF at[k - 1] = Null THEN Null ELSE h.next[at[k - 1]]
  BY AlongSteps
<1> HIDE DEF at
<1>3. 0 \in S
  BY <1>1, <1>2 DEF ListOf
<1>4. ASSUME NEW k \in Nat, k \in S PROVE k + 1 \in S
  <2> DEFINE n == k + 1
  <2>1. SUFFICES ASSUME n + 1 <= MaxNode
                 PROVE  at[n + 1] = IF n + 1 <= Len(s) THEN s[n + 1] ELSE Null
    OBVIOUS
  <2>2. n + 1 \in 2 .. MaxNode /\ (n + 1) - 1 = n /\ n <= MaxNode /\ n \in Nat /\ n >= 1
    BY <2>1, <1>1
  <2>3. at[n] = IF n <= Len(s) THEN s[n] ELSE Null
    BY <2>2, <1>4
  <2>4. at[n + 1] = IF at[n] = Null THEN Null ELSE h.next[at[n]]
    BY <2>2, <1>2
  <2> HIDE DEF n
  <2>5. CASE n <= Len(s)
    <3>1. n \in 1 .. Len(s) /\ s[n] # Null
      BY <2>2, <2>5, <1>1, NullIsNoNode
    <3>2. h.next[s[n]] = IF n = Len(s) THEN Null ELSE s[n + 1]
      BY <3>1 DEF ListOf
    <3> QED BY <3>1, <3>2, <2>2, <2>3, <2>4, <2>5, <1>1
  <2>6. CASE ~ (n <= Len(s))
    BY <2>2, <2>3, <2>4, <2>6, <1>1
  <2> QED BY <2>5, <2>6
<1>5. \A k \in Nat : k \in S
  <2> HIDE DEF S
  <2> QED BY <1>3, <1>4, Induction
<1>6. \A k \in 1 .. MaxNode : k - 1 \in Nat /\ (k - 1) + 1 = k /\ k <= MaxNode
  BY <1>1
<1> QED BY <1>5, <1>6 DEF at

LEMMA KidsAreList ==
  ASSUME NEW h \in Links, NEW p \in Nodes, NEW s, ListOf(h, p, s)
  PROVE  Kids(h, p) = s
<1> DEFINE at == Along(h, p)
           met == {k \in 1 .. MaxNode : at[k] # Null}
<1>1. MaxNode \in Nat /\ Len(s) \in Nat /\ Len(s) <= MaxNode /\ s \in Seq(Nodes)
      /\ \A i \in 1 .. Len(s) : s[i] \in Nodes
  <2>1. Len(s) \in Nat /\ \A i \in 1 .. Len(s) : s[i] \in Nodes
    BY ListFacts
  <2>2. Len(s) <= MaxNode
    BY ListFits
  <2> QED BY <2>1, <2>2, DomAssumption DEF ListOf
<1>2. \A k \in 1 .. MaxNode : at[k] = IF k <= Len(s) THEN s[k] ELSE Null
  BY AlongList
<1>3. Kids(h, p) = [k \in 1 .. Cardinality(met) |-> at[k]]
  BY DEF Kids
<1> HIDE DEF at
<1>4. met = 1 .. Len(s)
  BY <1>1, <1>2, NullIsNoNode
<1>5. Cardinality(met) = Len(s)
  BY <1>1, <1>4, UpTo
<1>6. \A k \in 1 .. Len(s) : at[k] = s[k]
  BY <1>1, <1>2
<1>7. s = [k \in 1 .. Len(s) |-> s[k]]
  BY <1>1
<1> HIDE DEF met
<1> QED BY <1>3, <1>5, <1>6, <1>7

----------------------------------------------------------------------------
\* The list of a node that an operation is not about.
LEMMA OtherList ==
  ASSUME NEW h, NEW g, NEW q, NEW s, ListOf(h, q, s),
         g.first[q] = h.first[q],
         \A n \in Nodes : g.parent[n] = q <=> h.parent[n] = q,
         \A n \in Nodes : h.parent[n] = q => g.next[n] = h.next[n]
  PROVE  ListOf(g, q, s)
<1>1. \A i \in 1 .. Len(s) : s[i] \in Nodes
  BY ListFacts
<1> QED BY <1>1 DEF ListOf

LEMMA AppendList ==
  ASSUME NEW h \in Links, Linked(h), NEW p \in Nodes, NEW c \in Nodes, h.parent[c] = Null,
         NEW s, ListOf(h, p, s)
  PROVE  ListOf(AppendChild(h, p, c), p, Append(s, c))
<1> DEFINE g == AppendChild(h, p, c)
           t == Append(s, c)
           n == Len(s)
<1>1. /\ h.parent \in Pointers /\ h.first \in Pointers /\ h.last \in Pointers
      /\ h.next \in Pointers
  BY LinksFields
<1>2. s \in Seq(Nodes) /\ n \in Nat /\ \A i \in 1 .. n : s[i] \in Nodes /\ s[i] # c
  BY ListFacts, NullIsNoNode DEF ListOf
<1>3. /\ t \in Seq(Nodes) /\ Len(t) = n + 1
      /\ (\A i \in 1 .. n : t[i] = s[i]) /\ t[n + 1] = c
  BY <1>2, AppendProperties
<1>4. /\ n = 0 <=> h.first[p] = Null
      /\ n # 0 => h.last[p] = s[n]
      /\ h.next[c] = Null
  <2>1. n = 0 <=> h.first[p] = Null
    BY <1>2, NullIsNoNode DEF ListOf
  <2>2. n # 0 => n \in 1 .. n
    BY <1>2
  <2>3. n # 0 => h.next[s[n]] = Null /\ h.parent[s[n]] = p /\ s[n] \in Nodes
    BY <1>2, <2>2 DEF ListOf
  <2> QED BY <2>1, <2>3, NullIsNoNode DEF Linked
<1>5. /\ \A m \in Nodes : g.parent[m] = IF m = c THEN p ELSE h.parent[m]
      /\ g.first[p] = IF n = 0 THEN c ELSE h.first[p]
      /\ \A m \in Nodes : g.next[m] = IF n # 0 /\ m = s[n] THEN c ELSE h.next[m]
  <2>1. /\ g.parent = [h.parent EXCEPT ![c] = p]
        /\ g.first = IF n = 0 THEN [h.first EXCEPT ![p] = c] ELSE h.first
        /\ g.next = IF n = 0 THEN h.next ELSE [h.next EXCEPT ![s[n]] = c]
    BY <1>4 DEF AppendChild, Set
  <2> QED BY <2>1, <1>1 DEF Pointers
<1> HIDE DEF g, t, n
<1>6. ASSUME NEW i \in 1 .. n + 1
      PROVE  /\ g.parent[t[i]] = p
             /\ g.next[t[i]] = IF i = n + 1 THEN Null ELSE t[i + 1]
             /\ \A j \in 1 .. n + 1 : t[i] = t[j] => i = j
  <2>1. CASE i = n + 1
    <3>1. t[i] = c /\ (n # 0 => n \in 1 .. n)
      BY <2>1, <1>2, <1>3
    <3>2. g.next[c] = Null
      BY <3>1, <1>2, <1>4, <1>5
    <3>3. \A j \in 1 .. n + 1 : j = n + 1 \/ j \in 1 .. n
      BY <1>2
    <3> QED BY <3>1, <3>2, <3>3, <2>1, <1>2, <1>3, <1>5
  <2>2. CASE i \in 1 .. n
    <3>1. t[i] = s[i] /\ s[i] \in Nodes /\ s[i] # c /\ n # 0 /\ n \in 1 .. n /\ i # n + 1
      BY <2>2, <1>2, <1>3
    <3>2. s[i] = s[n] <=> i = n
      BY <3>1, <2>2 DEF ListOf, n
    <3>3. h.next[s[i]] = IF i = n THEN Null ELSE s[i + 1]
      BY <2>2 DEF ListOf, n
    <3>4. i # n => i + 1 \in 1 .. n
      BY <2>2, <1>2
    <3>5. g.next[t[i]] = t[i + 1]
      BY <3>1, <3>2, <3>3, <3>4, <1>3, <1>5
    <3>6. g.parent[t[i]] = p
      BY <3>1, <2>2, <1>5 DEF ListOf, n
    <3>7. ASSUME NEW j \in 1 .. n + 1, t[i] = t[j] PROVE i = j
      <4>1. CASE j = n + 1
        BY <4>1, <3>1, <3>7, <1>3
      <4>2. CASE j \in 1 .. n
        BY <4>2, <3>1, <3>7, <2>2, <1>3 DEF ListOf, n
      <4> QED BY <4>1, <4>2, <1>2
    <3> QED BY <3>1, <3>5, <3>6, <3>7
  <2> QED BY <2>1, <2>2, <1>2
<1>7. g.first[p] = t[1]
  <2>1. n # 0 => 1 \in 1 .. n
    BY <1>2
  <2> QED BY <2>1, <1>2, <1>3, <1>5 DEF ListOf, n
<1>8. ASSUME NEW m \in Nodes, g.parent[m] = p PROVE \E i \in 1 .. n + 1 : t[i] = m
  <2>1. CASE m = c
    <3>1. n + 1 \in 1 .. n + 1
      BY <1>2
    <3> QED BY <3>1, <2>1, <1>3
  <2>2. CASE m # c
    <3>1. PICK i \in 1 .. n : s[i] = m
      BY <2>2, <1>5, <1>8 DEF ListOf, n
    <3>2. i \in 1 .. n + 1
      BY <1>2
    <3> QED BY <3>1, <3>2, <1>3
  <2> QED BY <2>1, <2>2
<1> QED BY <1>2, <1>3, <1>6, <1>7, <1>8 DEF ListOf, g, t

\* A node of a list, and its neighbours.
LEMMA InList ==
  ASSUME NEW h \in Links, Linked(h), NEW p \in Nodes, NEW s, ListOf(h, p, s),
         NEW i \in 1 .. Len(s)
  PROVE  /\ h.prev[s[i]] = IF i = 1 THEN Null ELSE s[i - 1]
         /\ h.next[s[i]] = IF i = Len(s) THEN Null ELSE s[i + 1]
         /\ h.parent[s[i]] = p
<1>1. Len(s) \in Nat /\ \A j \in 1 .. Len(s) : s[j] \in Nodes
  BY ListFacts
<1>2. CASE i = 1
  <2>1. h.first[p] = s[1] /\ s[1] # Null
    BY <1>1, <1>2, NullIsNoNode DEF ListOf
  <2>2. h.prev[s[i]] = Null
    BY <2>1, <1>2 DEF Linked
  <2> QED BY <2>2, <1>2 DEF ListOf
<1>3. CASE i # 1
  <2>1. i - 1 \in 1 .. Len(s) /\ i - 1 # Len(s) /\ (i - 1) + 1 = i
    BY <1>1, <1>3
  <2>2. h.next[s[i - 1]] = s[i] /\ h.parent[s[i - 1]] = p /\ s[i - 1] \in Nodes
    BY <2>1, <1>1 DEF ListOf
  <2>3. h.prev[s[i]] = s[i - 1]
    BY <2>2, <1>1, NullIsNoNode DEF Linked
  <2> QED BY <2>3, <1>3 DEF ListOf
<1> QED BY <1>2, <1>3

LEMMA InsertList ==
  ASSUME NEW h \in Links, Linked(h), NEW p \in Nodes, NEW c \in Nodes, h.parent[c] = Null,
         NEW s, ListOf(h, p, s), NEW k \in 1 .. Len(s)
  PROVE  ListOf(InsertChild(h, p, c, s[k]), p, InsertAt(s, k, c))
<1> DEFINE r == s[k]
           g == InsertChild(h, p, c, r)
           t == InsertAt(s, k, c)
           n == Len(s)
<1>1. /\ h.parent \in Pointers /\ h.first \in Pointers /\ h.next \in Pointers
  BY LinksFields
<1>2. /\ s \in Seq(Nodes) /\ n \in Nat /\ k \in Nat /\ 1 <= k /\ k <= n
      /\ \A i \in 1 .. n : s[i] \in Nodes /\ s[i] # c
  BY ListFacts, NullIsNoNode DEF ListOf
<1>3. /\ t \in Seq(Nodes) /\ Len(t) = n + 1
      /\ \A i \in 1 .. n + 1 : t[i] = IF i < k THEN s[i] ELSE IF i = k THEN c ELSE s[i - 1]
  BY <1>2, PutIn
<1>4. h.prev[r] = IF k = 1 THEN Null ELSE s[k - 1]
  BY InList
<1>5. /\ \A m \in Nodes : g.parent[m] = IF m = c THEN p ELSE h.parent[m]
      /\ g.first[p] = IF k = 1 THEN c ELSE h.first[p]
      /\ \A m \in Nodes : g.next[m] = IF k # 1 /\ m = s[k - 1] THEN c
                                      ELSE IF m = c THEN r ELSE h.next[m]
  <2>0. k # 1 => k - 1 \in 1 .. n
    BY <1>2
  <2>1. k # 1 => s[k - 1] # Null /\ s[k - 1] \in Nodes
    BY <2>0, <1>2, NullIsNoNode
  <2>2. /\ g.parent = [h.parent EXCEPT ![c] = p]
        /\ g.first = IF k = 1 THEN [h.first EXCEPT ![p] = c] ELSE h.first
        /\ g.next = IF k = 1 THEN [h.next EXCEPT ![c] = r]
                    ELSE [[h.next EXCEPT ![c] = r] EXCEPT ![s[k - 1]] = c]
    BY <2>1, <1>4 DEF InsertChild, Set
  <2> QED BY <2>1, <2>2, <1>1 DEF Pointers
<1>6. \A i \in 1 .. n : h.next[s[i]] = (IF i = n THEN Null ELSE s[i + 1]) /\ h.parent[s[i]] = p
  BY InList
<1> HIDE DEF g, t, n
<1>7. ASSUME NEW i \in 1 .. n + 1
      PROVE  /\ g.parent[t[i]] = p
             /\ g.next[t[i]] = IF i = n + 1 THEN Null ELSE t[i + 1]
  <2>1. CASE i = k
    <3>1. t[i] = c /\ i + 1 \in 1 .. n + 1 /\ (i + 1) - 1 = k /\ i # n + 1
          /\ ~ (i + 1 < k) /\ i + 1 # k
      BY <2>1, <1>2, <1>3
    <3>2. t[i + 1] = r
      BY <3>1, <1>3
    <3>3. k # 1 => k - 1 \in 1 .. n
      BY <1>2
    <3>4. g.next[c] = r
      BY <3>3, <1>2, <1>5
    <3> QED BY <3>1, <3>2, <3>4, <1>5
  <2>2. CASE i < k
    <3>1. i \in 1 .. n /\ t[i] = s[i] /\ i + 1 \in 1 .. n + 1 /\ i # n + 1 /\ k # 1 /\ i # n
      BY <2>2, <1>2, <1>3
    <3>2. s[i] = s[k - 1] <=> i = k - 1
      <4>1. k - 1 \in 1 .. n
        BY <3>1, <1>2
      <4> QED BY <4>1, <3>1 DEF ListOf, n
    <3>3. t[i + 1] = IF i = k - 1 THEN c ELSE s[i + 1]
      BY <2>2, <3>1, <1>2, <1>3
    <3>4. s[i] \in Nodes /\ s[i] # c /\ h.next[s[i]] = s[i + 1] /\ h.parent[s[i]] = p
      BY <3>1, <1>2, <1>6
    <3> QED BY <3>1, <3>2, <3>3, <3>4, <1>5
  <2>3. CASE i > k
    <3> DEFINE j == i - 1
    <3>1. j \in 1 .. n /\ t[i] = s[j] /\ j >= k /\ (i = n + 1 <=> j = n) /\ j + 1 = i
      <4>1. j \in 1 .. n /\ j >= k /\ (i = n + 1 <=> j = n) /\ j + 1 = i
            /\ ~ (i < k) /\ i # k
        BY <2>3, <1>2
      <4>2. t[i] = s[i - 1]
        BY <4>1, <1>3
      <4> QED BY <4>1, <4>2
    <3>2. i # n + 1 => t[i + 1] = s[i]
      <4>1. i # n + 1 => i + 1 \in 1 .. n + 1 /\ ~ (i + 1 < k) /\ i + 1 # k /\ (i + 1) - 1 = i
        BY <2>3, <1>2
      <4> QED BY <4>1, <1>3
    <3> HIDE DEF j
    <3>3. k # 1 => s[j] # s[k - 1]
      <4>1. k # 1 => k - 1 \in 1 .. n /\ j # k - 1
        BY <3>1, <1>2
      <4> QED BY <4>1, <3>1 DEF ListOf, n
    <3>4. s[j] \in Nodes /\ s[j] # c /\ h.next[s[j]] = (IF j = n THEN Null ELSE s[j + 1])
          /\ h.parent[s[j]] = p
      BY <3>1, <1>2, <1>6
    <3> QED BY <3>1, <3>2, <3>3, <3>4, <1>5
  <2> QED BY <2>1, <2>2, <2>3, <1>2
<1>8. ASSUME NEW i \in 1 .. n + 1, NEW j \in 1 .. n + 1, t[i] = t[j] PROVE i = j
  <2> DEFINE At(m) == IF m < k THEN m ELSE m - 1
  <2>1. \A m \in 1 .. n + 1 : m # k => At(m) \in 1 .. n /\ t[m] = s[At(m)]
    <3> SUFFICES ASSUME NEW m \in 1 .. n + 1, m # k PROVE At(m) \in 1 .. n /\ t[m] = s[At(m)]
      OBVIOUS
    <3> QED BY <1>2, <1>3
  <2>2. t[k] = c
    BY <1>2, <1>3
  <2>3. \A m, l \in 1 .. n + 1 : m # k /\ l # k /\ At(m) = At(l) => m = l
    BY <1>2
  <2> HIDE DEF At
  <2>4. \A m, l \in 1 .. n : s[m] = s[l] => m = l
    BY DEF ListOf, n
  <2> QED BY <1>2, <1>8, <2>1, <2>2, <2>3, <2>4
<1>9. g.first[p] = t[1]
  <2>1. 1 \in 1 .. n + 1 /\ n # 0
    BY <1>2
  <2> QED BY <2>1, <1>2, <1>3, <1>5 DEF ListOf, n
<1>10. ASSUME NEW m \in Nodes, g.parent[m] = p PROVE \E i \in 1 .. n + 1 : t[i] = m
  <2>1. CASE m = c
    <3>1. k \in 1 .. n + 1 /\ t[k] = c
      BY <1>2, <1>3
    <3> QED BY <3>1, <2>1
  <2>2. CASE m # c
    <3>1. PICK i \in 1 .. n : s[i] = m
      BY <2>2, <1>5, <1>10 DEF ListOf, n
    <3>2. CASE i < k
      <4>1. i \in 1 .. n + 1 /\ t[i] = s[i]
        BY <3>2, <1>2, <1>3
      <4> QED BY <4>1, <3>1
    <3>3. CASE ~ (i < k)
      <4>1. i + 1 \in 1 .. n + 1 /\ t[i + 1] = s[i]
        BY <3>3, <1>2, <1>3
      <4> QED BY <4>1, <3>1
    <3> QED BY <3>2, <3>3
  <2> QED BY <2>1, <2>2
<1>11. Len(t) # 0
  BY <1>2, <1>3
<1> QED BY <1>3, <1>7, <1>8, <1>9, <1>10, <1>11 DEF ListOf, g, t

LEMMA UnlinkList ==
  ASSUME NEW h \in Links, Linked(h), NEW p \in Nodes, NEW s, ListOf(h, p, s),
         NEW k \in 1 .. Len(s)
  PROVE  ListOf(UnlinkChild(h, p, s[k]), p, RemoveAt(s, k))
<1> DEFINE c == s[k]
           g == UnlinkChild(h, p, c)
           t == RemoveAt(s, k)
           n == Len(s)
<1>1. /\ h.parent \in Pointers /\ h.first \in Pointers /\ h.next \in Pointers
  BY LinksFields
<1>2. /\ s \in Seq(Nodes) /\ n \in Nat /\ k \in Nat /\ 1 <= k /\ k <= n
      /\ \A i \in 1 .. n : s[i] \in Nodes
  BY ListFacts DEF ListOf
<1>3. /\ t \in Seq(Nodes) /\ Len(t) = n - 1
      /\ \A i \in 1 .. n - 1 : t[i] = IF i < k THEN s[i] ELSE s[i + 1]
  BY <1>2, TakenOut
<1>4. \A i \in 1 .. n : /\ h.prev[s[i]] = IF i = 1 THEN Null ELSE s[i - 1]
                        /\ h.next[s[i]] = IF i = n THEN Null ELSE s[i + 1]
                        /\ h.parent[s[i]] = p
  BY InList
<1>5. \A i, j \in 1 .. n : s[i] = s[j] => i = j
  BY DEF ListOf
<1>6. /\ \A m \in Nodes : g.parent[m] = IF m = c THEN Null ELSE h.parent[m]
      /\ g.first[p] = IF k = 1 THEN h.next[c] ELSE h.first[p]
      /\ \A m \in Nodes : g.next[m] = IF m = c THEN Null
                                      ELSE IF k # 1 /\ m = s[k - 1] THEN h.next[c]
                                      ELSE h.next[m]
  <2>0. k # 1 => k - 1 \in 1 .. n
    BY <1>2
  <2>1. k # 1 => s[k - 1] # Null /\ s[k - 1] \in Nodes
    BY <2>0, <1>2, NullIsNoNode
  <2>2. h.prev[c] = IF k = 1 THEN Null ELSE s[k - 1]
    BY <1>4
  <2>3. /\ g.parent = [h.parent EXCEPT ![c] = Null]
        /\ g.first = IF k = 1 THEN [h.first EXCEPT ![p] = h.next[c]] ELSE h.first
        /\ g.next = IF k = 1 THEN [h.next EXCEPT ![c] = Null]
                    ELSE [[h.next EXCEPT ![s[k - 1]] = h.next[c]] EXCEPT ![c] = Null]
    BY <2>1, <2>2 DEF UnlinkChild, Set
  <2>4. c \in Nodes
    BY <1>2
  <2> HIDE DEF c, g
  <2> QED BY <2>1, <2>3, <2>4, <1>1 DEF Pointers
<1> HIDE DEF g, t, n, c
<1>7. c = s[k] /\ c \in Nodes
  BY <1>2 DEF c
<1>8. h.next[c] = IF k = n THEN Null ELSE s[k + 1]
  BY <1>2, <1>4, <1>7
<1>9. ASSUME NEW i \in 1 .. n - 1
      PROVE  /\ g.parent[t[i]] = p
             /\ g.next[t[i]] = IF i = n - 1 THEN Null ELSE t[i + 1]
  <2>1. CASE i < k
    <3>1. i \in 1 .. n /\ t[i] = s[i] /\ i # k /\ k # 1 /\ i # n
      BY <2>1, <1>2, <1>3
    <3>2. k - 1 \in 1 .. n /\ k \in 1 .. n
      BY <3>1, <1>2
    <3>3. s[i] # c /\ (s[i] = s[k - 1] <=> i = k - 1)
      BY <3>1, <3>2, <1>5, <1>7
    <3>4. g.parent[s[i]] = p
      BY <3>1, <3>3, <1>2, <1>4, <1>6
    <3>5. CASE i = k - 1
      <4>1. g.next[s[i]] = IF k = n THEN Null ELSE s[k + 1]
        BY <3>1, <3>3, <3>5, <1>2, <1>6, <1>8
      <4>2. k = n <=> i = n - 1
        BY <3>5, <1>2
      <4>3. k # n => i + 1 \in 1 .. n - 1 /\ ~ (i + 1 < k) /\ (i + 1) + 1 = k + 1
        BY <3>5, <1>2
      <4>4. k # n => t[i + 1] = s[k + 1]
        BY <4>3, <1>3
      <4> QED BY <4>1, <4>2, <4>4, <3>1, <3>4
    <3>6. CASE i # k - 1
      <4>1. g.next[s[i]] = s[i + 1]
        BY <3>1, <3>3, <3>6, <1>2, <1>4, <1>6
      <4>2. i # n - 1 /\ i + 1 \in 1 .. n - 1 /\ i + 1 < k
        BY <2>1, <3>6, <1>2
      <4>3. t[i + 1] = s[i + 1]
        BY <4>2, <1>3
      <4> QED BY <4>1, <4>2, <4>3, <3>1, <3>4
    <3> QED BY <3>5, <3>6
  <2>2. CASE ~ (i < k)
    <3> DEFINE j == i + 1
    <3>1. j \in 1 .. n /\ t[i] = s[j] /\ j # k /\ (i = n - 1 <=> j = n) /\ j > k
      BY <2>2, <1>2, <1>3
    <3>2. i # n - 1 => t[i + 1] = s[j + 1]
      <4>1. i # n - 1 => i + 1 \in 1 .. n - 1 /\ ~ (i + 1 < k)
        BY <2>2, <1>2
      <4> QED BY <4>1, <1>3
    <3> HIDE DEF j
    <3>3. s[j] # c /\ (k # 1 => s[j] # s[k - 1])
      <4>1. k \in 1 .. n /\ (k # 1 => k - 1 \in 1 .. n /\ j # k - 1)
        BY <3>1, <1>2
      <4> QED BY <4>1, <3>1, <1>5, <1>7
    <3>4. g.parent[s[j]] = p /\ g.next[s[j]] = IF j = n THEN Null ELSE s[j + 1]
      BY <3>1, <3>3, <1>2, <1>4, <1>6
    <3> QED BY <3>1, <3>2, <3>4
  <2> QED BY <2>1, <2>2
<1>10. ASSUME NEW i \in 1 .. n - 1, NEW j \in 1 .. n - 1, t[i] = t[j] PROVE i = j
  <2> DEFINE At(m) == IF m < k THEN m ELSE m + 1
  <2>1. \A m \in 1 .. n - 1 : At(m) \in 1 .. n /\ t[m] = s[At(m)]
    BY <1>2, <1>3
  <2>2. \A m, l \in 1 .. n - 1 : At(m) = At(l) => m = l
    BY <1>2
  <2> HIDE DEF At
  <2> QED BY <1>5, <1>10, <2>1, <2>2
<1>11. g.first[p] = IF Len(t) = 0 THEN Null ELSE t[1]
  <2>1. CASE n = 1
    <3>1. k = 1 /\ Len(t) = 0 /\ k = n
      BY <2>1, <1>2, <1>3
    <3> QED BY <3>1, <1>6, <1>8
  <2>2. CASE n # 1
    <3>1. Len(t) # 0 /\ 1 \in 1 .. n - 1 /\ n # 0
      BY <2>2, <1>2, <1>3
    <3>2. t[1] = IF k = 1 THEN s[2] ELSE s[1]
      BY <3>1, <1>2, <1>3
    <3>3. h.first[p] = s[1]
      BY <3>1 DEF ListOf, n
    <3> QED BY <2>2, <3>1, <3>2, <3>3, <1>6, <1>8
  <2> QED BY <2>1, <2>2
<1>12. ASSUME NEW m \in Nodes, g.parent[m] = p PROVE \E i \in 1 .. n - 1 : t[i] = m
  <2>1. m # c /\ h.parent[m] = p
    BY <1>6, <1>12, NullIsNoNode
  <2>2. PICK i \in 1 .. n : s[i] = m
    BY <2>1 DEF ListOf, n
  <2>3. i # k
    BY <2>1, <2>2, <1>7
  <2>4. CASE i < k
    <3>1. i \in 1 .. n - 1 /\ t[i] = s[i]
      BY <2>4, <1>2, <1>3
    <3> QED BY <3>1, <2>2
  <2>5. CASE ~ (i < k)
    <3>1. i - 1 \in 1 .. n - 1 /\ ~ (i - 1 < k) /\ (i - 1) + 1 = i
      BY <2>3, <2>5, <1>2
    <3>2. t[i - 1] = s[i]
      BY <3>1, <1>3
    <3> QED BY <3>1, <3>2, <2>2
  <2> QED BY <2>4, <2>5
<1> QED BY <1>3, <1>9, <1>10, <1>11, <1>12 DEF ListOf, g, t, c

----------------------------------------------------------------------------
(* The attribute lists.                                                    *)

AttrsOk(list) ==
  /\ list \in Seq(Attribute)
  /\ \A i, j \in DOMAIN list : list[i].name = list[j].name => i = j

LEMMA AttrAtFirst ==
  ASSUME NEW list \in Seq(Attribute), NEW name
  PROVE  /\ AttrAt(list, name) = 0 => \A i \in DOMAIN list : list[i].name # name
         /\ AttrAt(list, name) # 0 => /\ AttrAt(list, name) \in DOMAIN list
                                     /\ list[AttrAt(list, name)].name = name
<1> DEFINE I == {i \in 1 .. Len(list) : list[i].name = name}
<1>1. AttrAt(list, name) = IF I # {} THEN Min(I) ELSE 0
  BY DEF AttrAt, SelectInSeq
<1>2. Len(list) \in Nat /\ DOMAIN list = 1 .. Len(list) /\ I \in SUBSET Nat
  OBVIOUS
<1>3. I # {} => Min(I) \in I
  BY <1>2, MinOf
<1> QED BY <1>1, <1>2, <1>3

\* What a name's value is, position by position.
LEMMA ValueIs ==
  ASSUME NEW list, AttrsOk(list)
  PROVE  /\ \A i \in DOMAIN list : ValueOf(list, list[i].name) = list[i].value
         /\ \A name : (\A i \in DOMAIN list : list[i].name # name) => ValueOf(list, name) = None
<1>1. list \in Seq(Attribute)
  BY DEF AttrsOk
<1>2. ASSUME NEW i \in DOMAIN list PROVE ValueOf(list, list[i].name) = list[i].value
  <2> DEFINE name == list[i].name
  <2>1. AttrAt(list, name) # 0 /\ AttrAt(list, name) \in DOMAIN list
        /\ list[AttrAt(list, name)].name = name
    BY <1>1, AttrAtFirst
  <2>2. AttrAt(list, name) = i
    BY <2>1 DEF AttrsOk
  <2> QED BY <2>1, <2>2 DEF ValueOf
<1>3. ASSUME NEW name, \A i \in DOMAIN list : list[i].name # name
      PROVE  ValueOf(list, name) = None
  BY <1>1, <1>3, AttrAtFirst DEF ValueOf
<1> QED BY <1>2, <1>3

LEMMA WithIs ==
  ASSUME NEW list, AttrsOk(list), NEW name \in Names, NEW value \in Values
  PROVE  /\ AttrsOk(WithAttr(list, name, value))
         /\ \A other : ValueOf(WithAttr(list, name, value), other)
                         = IF other = name THEN value ELSE ValueOf(list, other)
<1> DEFINE t == WithAttr(list, name, value)
           a == AttrAt(list, name)
<1>1. /\ list \in Seq(Attribute) /\ Len(list) \in Nat /\ DOMAIN list = 1 .. Len(list)
      /\ \A i \in DOMAIN list : list[i] \in Attribute
  BY ElementOfSeq DEF AttrsOk
<1>2. CASE a # 0
  <2> DEFINE new == [list[a] EXCEPT !.value = value]
  <2>1. a \in DOMAIN list /\ list[a].name = name
    BY <1>1, <1>2, AttrAtFirst
  <2>2. new \in Attribute /\ new.name = name /\ new.value = value
    BY <2>1, <1>1 DEF Attribute
  <2>3. t = [list EXCEPT ![a] = new]
    BY <1>2 DEF WithAttr
  <2> HIDE DEF new, t
  <2>4. t \in Seq(Attribute) /\ DOMAIN t = DOMAIN list
        /\ \A i \in DOMAIN list : t[i] = IF i = a THEN new ELSE list[i]
    BY <2>1, <2>2, <2>3, <1>1, ExceptSeq
  <2> HIDE DEF a
  <2>5. \A i \in DOMAIN list : t[i].name = list[i].name
    BY <2>1, <2>2, <2>4
  <2>6. AttrsOk(t)
    BY <2>4, <2>5 DEF AttrsOk
  <2>7. ASSUME NEW other PROVE ValueOf(t, other) = IF other = name THEN value ELSE ValueOf(list, other)
    <3>1. CASE \E i \in DOMAIN list : list[i].name = other
      <4>1. PICK i \in DOMAIN list : list[i].name = other
        BY <3>1
      <4>2. ValueOf(t, other) = t[i].value /\ ValueOf(list, other) = list[i].value
        BY <4>1, <2>4, <2>5, <2>6, ValueIs
      <4>3. other = name <=> i = a
        BY <4>1, <2>1 DEF AttrsOk
      <4> QED BY <4>1, <4>2, <4>3, <2>2, <2>4
    <3>2. CASE \A i \in DOMAIN list : list[i].name # other
      <4>1. ValueOf(t, other) = None /\ ValueOf(list, other) = None
        BY <3>2, <2>4, <2>5, <2>6, ValueIs
      <4> QED BY <4>1, <3>2, <2>1
    <3> QED BY <3>1, <3>2
  <2> QED BY <2>6, <2>7 DEF t
<1>3. CASE a = 0
  <2> DEFINE new == [name |-> name, value |-> value]
             n == Len(list)
  <2>1. \A i \in DOMAIN list : list[i].name # name
    BY <1>1, <1>3, AttrAtFirst
  <2>2. new \in Attribute /\ new.name = name /\ new.value = value
    BY DEF Attribute
  <2>3. t = <<new>> \o list
    BY <1>3 DEF WithAttr
  <2> HIDE DEF new, t
  <2>4. /\ t \in Seq(Attribute) /\ DOMAIN t = 1 .. n + 1 /\ t[1] = new
        /\ \A i \in 1 .. n : t[i + 1] = list[i]
        /\ \A i \in 2 .. n + 1 : t[i] = list[i - 1]
    BY <2>2, <2>3, <1>1, InFront
  <2>5. AttrsOk(t)
    <3>1. ASSUME NEW i \in DOMAIN t, NEW j \in DOMAIN t, t[i].name = t[j].name PROVE i = j
      <4>1. \A k \in DOMAIN t : k = 1 \/ (k \in 2 .. n + 1 /\ k - 1 \in DOMAIN list)
        BY <2>4, <1>1
      <4>2. \A k \in DOMAIN t : k # 1 => t[k] = list[k - 1] /\ t[k].name # name
        BY <4>1, <2>1, <2>4
      <4>3. i # 1 /\ j # 1 => i - 1 = j - 1
        BY <3>1, <4>1, <4>2 DEF AttrsOk
      <4>4. i = 1 <=> j = 1
        BY <3>1, <4>2, <2>2, <2>4
      <4> QED BY <4>3, <4>4, <2>4, <1>1
    <3> QED BY <3>1, <2>4 DEF AttrsOk
  <2>6. ASSUME NEW other PROVE ValueOf(t, other) = IF other = name THEN value ELSE ValueOf(list, other)
    <3>1. CASE other = name
      <4>1. 1 \in DOMAIN t
        BY <2>4, <1>1
      <4> QED BY <3>1, <4>1, <2>2, <2>4, <2>5, ValueIs
    <3>2. CASE other # name /\ \E i \in DOMAIN list : list[i].name = other
      <4>1. PICK i \in DOMAIN list : list[i].name = other
        BY <3>2
      <4>2. i + 1 \in DOMAIN t /\ t[i + 1] = list[i]
        BY <2>4, <1>1
      <4>3. ValueOf(t, other) = t[i + 1].value /\ ValueOf(list, other) = list[i].value
        BY <4>1, <4>2, <2>5, ValueIs
      <4> QED BY <4>2, <4>3, <3>2
    <3>3. CASE other # name /\ \A i \in DOMAIN list : list[i].name # other
      <4>1. ASSUME NEW i \in DOMAIN t PROVE t[i].name # other
        <5>1. i = 1 \/ (i \in 2 .. n + 1 /\ i - 1 \in DOMAIN list)
          BY <2>4, <1>1
        <5> QED BY <5>1, <3>3, <2>2, <2>4
      <4>2. ValueOf(t, other) = None /\ ValueOf(list, other) = None
        BY <4>1, <3>3, <2>5, ValueIs
      <4> QED BY <4>2, <3>3
    <3> QED BY <3>1, <3>2, <3>3
  <2> QED BY <2>5, <2>6 DEF t
<1> QED BY <1>2, <1>3

LEMMA WithoutIs ==
  ASSUME NEW list, AttrsOk(list), NEW name, AttrAt(list, name) # 0
  PROVE  /\ AttrsOk(WithoutAttr(list, name))
         /\ \A other : ValueOf(WithoutAttr(list, name), other)
                         = IF other = name THEN None ELSE ValueOf(list, other)
<1> DEFINE t == WithoutAttr(list, name)
           a == AttrAt(list, name)
           n == Len(list)
<1>1. /\ list \in Seq(Attribute) /\ n \in Nat /\ DOMAIN list = 1 .. n
  BY DEF AttrsOk
<1>2. a \in 1 .. n /\ list[a].name = name
  BY <1>1, AttrAtFirst
<1>3. t = RemoveAt(list, a)
  BY DEF WithoutAttr
<1> HIDE DEF t, a
<1>4. /\ t \in Seq(Attribute) /\ DOMAIN t = 1 .. n - 1
      /\ \A i \in 1 .. n - 1 : t[i] = IF i < a THEN list[i] ELSE list[i + 1]
  BY <1>1, <1>2, <1>3, TakenOut
<1> DEFINE At(m) == IF m < a THEN m ELSE m + 1
<1>5. \A i \in 1 .. n - 1 : At(i) \in 1 .. n /\ At(i) # a /\ t[i] = list[At(i)]
  BY <1>1, <1>2, <1>4
<1>6. \A i, j \in 1 .. n - 1 : At(i) = At(j) => i = j
  BY <1>1, <1>2
<1>7. \A k \in 1 .. n : k # a => \E i \in 1 .. n - 1 : At(i) = k
  <2>1. ASSUME NEW k \in 1 .. n, k < a PROVE \E i \in 1 .. n - 1 : At(i) = k
    <3>1. k \in 1 .. n - 1 /\ At(k) = k
      BY <2>1, <1>1, <1>2
    <3> HIDE DEF At
    <3> QED BY <3>1
  <2>2. ASSUME NEW k \in 1 .. n, k > a PROVE \E i \in 1 .. n - 1 : At(i) = k
    <3>1. k - 1 \in 1 .. n - 1 /\ At(k - 1) = k
      BY <2>2, <1>1, <1>2
    <3> HIDE DEF At
    <3> QED BY <3>1
  <2>3. \A k \in 1 .. n : k # a => k < a \/ k > a
    BY <1>1, <1>2
  <2> QED BY <2>1, <2>2, <2>3
<1> HIDE DEF At
<1>8. AttrsOk(t)
  BY <1>1, <1>4, <1>5, <1>6 DEF AttrsOk
<1>9. ASSUME NEW other PROVE ValueOf(t, other) = IF other = name THEN None ELSE ValueOf(list, other)
  <2>1. CASE other = name
    <3>1. ASSUME NEW i \in DOMAIN t PROVE t[i].name # other
      <4>1. At(i) \in 1 .. n /\ At(i) # a /\ t[i] = list[At(i)]
        BY <3>1, <1>4, <1>5
      <4>2. \A k \in 1 .. n : k # a => list[k].name # list[a].name
        BY <1>1, <1>2 DEF AttrsOk
      <4> QED BY <4>1, <4>2, <2>1, <1>2
    <3> QED BY <3>1, <2>1, <1>8, ValueIs
  <2>2. CASE other # name /\ \E k \in DOMAIN list : list[k].name = other
    <3>1. PICK k \in DOMAIN list : list[k].name = other
      BY <2>2
    <3>2. PICK i \in 1 .. n - 1 : At(i) = k
      BY <3>1, <2>2, <1>1, <1>2, <1>7
    <3>3. t[i] = list[k] /\ i \in DOMAIN t
      BY <3>2, <1>4, <1>5
    <3>4. ValueOf(t, other) = t[i].value /\ ValueOf(list, other) = list[k].value
      BY <3>1, <3>3, <1>8, ValueIs
    <3> QED BY <3>3, <3>4, <2>2
  <2>3. CASE other # name /\ \A k \in DOMAIN list : list[k].name # other
    <3>1. \A i \in DOMAIN t : t[i].name # other
      BY <2>3, <1>1, <1>4, <1>5
    <3>2. ValueOf(t, other) = None /\ ValueOf(list, other) = None
      BY <3>1, <2>3, <1>8, ValueIs
    <3> QED BY <3>2, <2>3
  <2> QED BY <2>1, <2>2, <2>3
<1> QED BY <1>8, <1>9 DEF t

----------------------------------------------------------------------------
(* The refinement.                                                         *)

\* What hangs from each node is a list, and names are unique.
Listed(h) == \A p \in Nodes : ListOf(h, p, Kids(h, p))
TreeInv ==
  /\ DomInv
  /\ Listed(links)
  /\ attrs \in [Nodes -> Seq(Attribute)]
  /\ \A n \in Nodes : AttrsOk(attrs[n])

Tree(h) == [n \in Nodes |-> Kids(h, n)]
Map(lists) == [n \in Nodes |-> [name \in Names |-> ValueOf(lists[n], name)]]

LEMMA OfTheTree ==
  /\ [n \in Nodes |-> Kids(links, n)] = Tree(links)
  /\ [n \in Nodes |-> Kids(links, n)]' = Tree(links')
  /\ [n \in Nodes |-> [name \in Names |-> ValueOf(attrs[n], name)]] = Map(attrs)
  /\ [n \in Nodes |-> [name \in Names |-> ValueOf(attrs[n], name)]]' = Map(attrs')
<1>1. [n \in Nodes |-> Kids(links, n)]' = Tree(links')
  BY DEF Tree, Kids, Along, Nodes, Null
<1>2. [n \in Nodes |-> [name \in Names |-> ValueOf(attrs[n], name)]]' = Map(attrs')
  BY DEF Map, ValueOf, AttrAt, SelectInSeq, Nodes
<1> QED BY <1>1, <1>2 DEF Tree, Map

\* An operation on one list.
LEMMA OneList ==
  ASSUME NEW h \in Links, Listed(h), NEW g \in Links, NEW p \in Nodes, NEW s, ListOf(g, p, s),
         \A q \in Nodes \ {p} :
           /\ g.first[q] = h.first[q]
           /\ \A n \in Nodes : g.parent[n] = q <=> h.parent[n] = q
           /\ \A n \in Nodes : h.parent[n] = q => g.next[n] = h.next[n]
  PROVE  Listed(g) /\ Tree(g) = [Tree(h) EXCEPT ![p] = s]
<1>1. Kids(g, p) = s
  BY KidsAreList
<1>2. ASSUME NEW q \in Nodes \ {p} PROVE ListOf(g, q, Kids(h, q)) /\ Kids(g, q) = Kids(h, q)
  <2>1. ListOf(h, q, Kids(h, q))
    BY DEF Listed
  <2>2. ListOf(g, q, Kids(h, q))
    BY <2>1, OtherList
  <2> QED BY <2>2, KidsAreList
<1>3. Listed(g)
  BY <1>1, <1>2 DEF Listed
<1>4. \A q \in Nodes : Kids(g, q) = IF q = p THEN s ELSE Kids(h, q)
  BY <1>1, <1>2
<1> QED BY <1>3, <1>4 DEF Tree

LEMMA AppendTree ==
  ASSUME NEW h \in Links, Linked(h), Listed(h), NEW p \in Nodes, NEW c \in Nodes,
         h.parent[c] = Null
  PROVE  /\ Listed(AppendChild(h, p, c))
         /\ Tree(AppendChild(h, p, c)) = [Tree(h) EXCEPT ![p] = Append(@, c)]
<1> DEFINE g == AppendChild(h, p, c)
           s == Kids(h, p)
           t == Append(s, c)
<1>1. g \in Links
  BY AppendLinked
<1>2. ListOf(h, p, s)
  BY DEF Listed
<1>3. ListOf(g, p, t)
  BY <1>2, AppendList
<1>4. /\ h.parent \in Pointers /\ h.first \in Pointers /\ h.last \in Pointers
      /\ h.next \in Pointers
  BY LinksFields
<1>5. h.first[p] # Null => h.last[p] \in Nodes /\ h.parent[h.last[p]] = p
  BY <1>4 DEF Linked, Pointers
<1>6. ASSUME NEW q \in Nodes \ {p}
      PROVE  /\ g.first[q] = h.first[q]
             /\ \A n \in Nodes : g.parent[n] = q <=> h.parent[n] = q
             /\ \A n \in Nodes : h.parent[n] = q => g.next[n] = h.next[n]
  BY <1>4, <1>5, NullIsNoNode DEF AppendChild, Set, Pointers
<1> HIDE DEF g, t
<1>7. Tree(g) = [Tree(h) EXCEPT ![p] = t] /\ Listed(g)
  BY <1>1, <1>3, <1>6, OneList
<1> QED BY <1>7 DEF g, t, Tree

LEMMA InsertTree ==
  ASSUME NEW h \in Links, Linked(h), Listed(h), NEW p \in Nodes, NEW c \in Nodes,
         h.parent[c] = Null, NEW r \in Nodes, h.parent[r] = p
  PROVE  /\ Listed(InsertChild(h, p, c, r))
         /\ \E k \in DOMAIN Tree(h)[p] :
              /\ Tree(h)[p][k] = r
              /\ Tree(InsertChild(h, p, c, r)) = [Tree(h) EXCEPT ![p] = InsertAt(@, k, c)]
<1> DEFINE g == InsertChild(h, p, c, r)
           s == Kids(h, p)
<1>1. g \in Links
  BY InsertLinked
<1>2. ListOf(h, p, s)
  BY DEF Listed
<1>3. PICK k \in 1 .. Len(s) : s[k] = r
  BY <1>2 DEF ListOf
<1>4. ListOf(g, p, InsertAt(s, k, c))
  BY <1>2, <1>3, InsertList
<1>5. /\ h.parent \in Pointers /\ h.first \in Pointers /\ h.next \in Pointers
      /\ h.prev \in Pointers
  BY LinksFields
<1>6. h.prev[r] # Null => h.prev[r] \in Nodes /\ h.parent[h.prev[r]] = p
  <2>1. h.parent[r] # Null
    BY NullIsNoNode
  <2> QED BY <2>1, <1>5 DEF Linked, Pointers
<1>7. ASSUME NEW q \in Nodes \ {p}
      PROVE  /\ g.first[q] = h.first[q]
             /\ \A n \in Nodes : g.parent[n] = q <=> h.parent[n] = q
             /\ \A n \in Nodes : h.parent[n] = q => g.next[n] = h.next[n]
  BY <1>5, <1>6, NullIsNoNode DEF InsertChild, Set, Pointers
<1> HIDE DEF g
<1>8. Tree(g) = [Tree(h) EXCEPT ![p] = InsertAt(s, k, c)] /\ Listed(g)
  BY <1>1, <1>4, <1>7, OneList
<1>9. Tree(h)[p] = s /\ k \in DOMAIN s
  BY <1>2, <1>3, ListFacts DEF Tree
<1> QED BY <1>3, <1>8, <1>9 DEF g, Tree

LEMMA UnlinkTree ==
  ASSUME NEW h \in Links, Linked(h), Listed(h), NEW p \in Nodes, NEW c \in Nodes,
         h.parent[c] = p
  PROVE  /\ Listed(UnlinkChild(h, p, c))
         /\ \E k \in DOMAIN Tree(h)[p] :
              /\ Tree(h)[p][k] = c
              /\ Tree(UnlinkChild(h, p, c)) = [Tree(h) EXCEPT ![p] = RemoveAt(@, k)]
<1> DEFINE g == UnlinkChild(h, p, c)
           s == Kids(h, p)
<1>1. g \in Links
  BY UnlinkLinked
<1>2. ListOf(h, p, s)
  BY DEF Listed
<1>3. PICK k \in 1 .. Len(s) : s[k] = c
  BY <1>2 DEF ListOf
<1>4. ListOf(g, p, RemoveAt(s, k))
  BY <1>2, <1>3, UnlinkList
<1>5. /\ h.parent \in Pointers /\ h.first \in Pointers /\ h.next \in Pointers
      /\ h.prev \in Pointers
  BY LinksFields
<1>6. h.prev[c] # Null => h.prev[c] \in Nodes /\ h.parent[h.prev[c]] = p
  <2>1. h.parent[c] # Null
    BY NullIsNoNode
  <2> QED BY <2>1, <1>5 DEF Linked, Pointers
<1>7. ASSUME NEW q \in Nodes \ {p}
      PROVE  /\ g.first[q] = h.first[q]
             /\ \A n \in Nodes : g.parent[n] = q <=> h.parent[n] = q
             /\ \A n \in Nodes : h.parent[n] = q => g.next[n] = h.next[n]
  BY <1>5, <1>6, NullIsNoNode DEF UnlinkChild, Set, Pointers
<1> HIDE DEF g
<1>8. Tree(g) = [Tree(h) EXCEPT ![p] = RemoveAt(s, k)] /\ Listed(g)
  BY <1>1, <1>4, <1>7, OneList
<1>9. Tree(h)[p] = s /\ k \in DOMAIN s
  BY <1>2, <1>3, ListFacts DEF Tree
<1> QED BY <1>3, <1>8, <1>9 DEF g, Tree

LEMMA NoTree == NoLinks \in Links /\ Listed(NoLinks) /\ Tree(NoLinks) = [n \in Nodes |-> << >>]
<1>1. NoLinks \in Links
  BY DEF NoLinks, Links, Pointers
<1>2. ASSUME NEW p \in Nodes PROVE ListOf(NoLinks, p, << >>)
  <2>1. NoLinks.first[p] = Null /\ \A c \in Nodes : NoLinks.parent[c] = Null
    BY DEF NoLinks
  <2>2. << >> \in Seq(Nodes) /\ Len(<< >>) = 0 /\ 1 .. 0 = {}
    OBVIOUS
  <2> QED BY <2>1, <2>2, NullIsNoNode DEF ListOf
<1>3. \A p \in Nodes : Kids(NoLinks, p) = << >>
  BY <1>1, <1>2, KidsAreList
<1> QED BY <1>1, <1>2, <1>3 DEF Listed, Tree

\* A child that hangs nowhere is in no list.
LEMMA HangsNowhere ==
  ASSUME TreeInv, NEW c \in Nodes, links.parent[c] = Null
  PROVE  DomTree!Orphan(c)
<1>1. ASSUME NEW n \in Nodes PROVE ~ DomTree!Contains(Tree(links)[n], c)
  <2>1. Tree(links)[n] = Kids(links, n)
    BY DEF Tree
  <2>2. \A i \in 1 .. Len(Kids(links, n)) : links.parent[Kids(links, n)[i]] = n
    BY DEF TreeInv, Listed, ListOf
  <2> QED BY <2>1, <2>2, NullIsNoNode DEF DomTree!Contains
<1> QED BY <1>1, OfTheTree DEF DomTree!Orphan

\* The chain of parents, step by step.
LEMMA UpIs ==
  ASSUME NEW h \in Links, NEW p \in Nodes
  PROVE  /\ Up(h, p)[0] = p
         /\ \A k \in 0 .. MaxNode : Up(h, p)[k] \in Nodes \union {Null}
         /\ \A k \in 1 .. MaxNode :
              Up(h, p)[k] = IF Up(h, p)[k - 1] = Null THEN Null ELSE h.parent[Up(h, p)[k - 1]]
<1> DEFINE V == Nodes \union {Null}
           above == [a \in Nat \X V |-> IF a[2] = Null THEN Null ELSE h.parent[a[2]]]
<1>1. above \in [Nat \X V -> V] /\ p \in V
  BY LinksFields DEF Pointers
<1>2. MaxNode \in Nat
  BY DomAssumption
<1>3. PICK f \in [0 .. MaxNode -> V] : Recursive(f, MaxNode, p, above)
  <2> HIDE DEF V, above
  <2> QED BY <1>1, <1>2, Recursion
<1>4. f[0] = p
  BY <1>3 DEF Recursive
<1>5. ASSUME NEW k \in 1 .. MaxNode
      PROVE  f[k] = IF f[k - 1] = Null THEN Null ELSE h.parent[f[k - 1]]
  <2>1. k \in Nat /\ k - 1 \in 0 .. MaxNode
    BY <1>2
  <2>2. f[k - 1] \in V /\ f[k] = above[<<k, f[k - 1]>>]
    BY <2>1, <1>3 DEF Recursive
  <2> QED BY <2>1, <2>2
<1>6. f = [k \in 0 .. MaxNode |-> IF k = 0 THEN p
                                 ELSE IF f[k - 1] = Null THEN Null ELSE h.parent[f[k - 1]]]
  <2>1. f = [k \in 0 .. MaxNode |-> f[k]]
    BY <1>3
  <2>2. \A k \in 0 .. MaxNode : k # 0 => k \in 1 .. MaxNode
    BY <1>2
  <2> QED BY <2>1, <2>2, <1>4, <1>5
<1> HIDE DEF above, V
<1> DEFINE e == CHOOSE at : at = [k \in 0 .. MaxNode |->
                   IF k = 0 THEN p
                   ELSE IF at[k - 1] = Null THEN Null ELSE h.parent[at[k - 1]]]
<1>7. e = [k \in 0 .. MaxNode |-> IF k = 0 THEN p
                                 ELSE IF e[k - 1] = Null THEN Null ELSE h.parent[e[k - 1]]]
  BY <1>6
<1>8. Up(h, p) = e
  BY DEF Up
<1> HIDE DEF e
<1>9. e[0] = p /\ \A k \in 1 .. MaxNode : e[k] = IF e[k - 1] = Null THEN Null ELSE h.parent[e[k - 1]]
  <2>1. 0 \in 0 .. MaxNode /\ \A k \in 1 .. MaxNode : k \in 0 .. MaxNode /\ k # 0
    BY <1>2
  <2> QED BY ONLY <2>1, <1>7
<1> DEFINE S == {k \in Nat : k <= MaxNode => e[k] \in Nodes \union {Null}}
<1>10. ASSUME NEW k \in Nat, k \in S PROVE k + 1 \in S
  <2>1. SUFFICES ASSUME k + 1 <= MaxNode PROVE e[k + 1] \in Nodes \union {Null}
    OBVIOUS
  <2>2. k + 1 \in 1 .. MaxNode /\ (k + 1) - 1 = k /\ k <= MaxNode
    BY <1>2, <2>1
  <2>3. e[k + 1] = IF e[k] = Null THEN Null ELSE h.parent[e[k]]
    BY ONLY <2>2, <1>9
  <2>4. e[k] \in Nodes \union {Null} /\ h.parent \in Pointers
    BY <1>10, <2>2, LinksFields
  <2> QED BY <2>3, <2>4 DEF Pointers
<1>11. \A k \in Nat : k \in S
  <2>1. 0 \in S
    BY <1>9
  <2> HIDE DEF S
  <2> QED BY <1>10, <2>1, Induction
<1>12. \A k \in 0 .. MaxNode : e[k] \in Nodes \union {Null}
  BY <1>2, <1>11
<1> QED BY <1>8, <1>9, <1>12

\* No node is put into itself.
LEMMA NotItself ==
  ASSUME NEW h \in Links, NEW p \in Nodes, NEW c, ~ AtOrAbove(h, c, p)
  PROVE  c # p
<1>1. Up(h, p)[0] = p /\ 0 \in 0 .. MaxNode
  BY UpIs, DomAssumption
<1> QED BY <1>1 DEF AtOrAbove

LEMMA TreeInitial == Init => TreeInv /\ DomTree!Init
<1> SUFFICES ASSUME Init PROVE TreeInv /\ DomTree!Init
  OBVIOUS
<1>1. DomInv
  BY DomInit
<1>2. links = NoLinks /\ \A n \in Nodes : attrs[n] = << >>
  BY DEF Init
<1>3. AttrsOk(<< >>)
  BY DEF AttrsOk
<1>4. \A name : ValueOf(<< >>, name) = None
  <2>1. DOMAIN << >> = {}
    OBVIOUS
  <2> QED BY <2>1, <1>3, ValueIs
<1>5. Map(attrs) = [n \in Nodes |-> [name \in Names |-> None]]
  BY <1>2, <1>4 DEF Map
<1>6. attrs \in [Nodes -> Seq(Attribute)]
  BY DEF Init
<1> QED BY <1>1, <1>2, <1>3, <1>5, <1>6, NoTree, OfTheTree DEF TreeInv, DomTree!Init

\* Every operation keeps the invariant and does to the tree what it is to.
LEMMA TreeStep == TreeInv /\ [Next]_vars => TreeInv' /\ [EachCallTakesEffect]_vars
<1> SUFFICES ASSUME TreeInv, [Next]_vars
             PROVE  TreeInv' /\ EachCallTakesEffect
  OBVIOUS
<1>0. DomInv' /\ Existing \subseteq Nodes /\ links \in Links /\ Linked(links) /\ Listed(links)
  BY DomStep, DomAssumption DEF TreeInv, DomInv, Existing, Nodes
<1> DEFINE children == [n \in Nodes |-> Kids(links, n)]
           attributes == [n \in Nodes |-> [name \in Names |-> ValueOf(attrs[n], name)]]
<1>1. /\ children = Tree(links) /\ children' = Tree(links')
      /\ attributes = Map(attrs) /\ attributes' = Map(attrs')
  BY OfTheTree
<1>2. ASSUME Listed(links'), UNCHANGED attrs PROVE TreeInv' /\ attributes' = attributes
  <2>1. Listed(links)'
    BY <1>2 DEF Listed, ListOf, Kids, Along, Nodes, Null
  <2>2. \A n \in Nodes : AttrsOk(attrs[n])'
    BY <1>2 DEF TreeInv, AttrsOk, Attribute
  <2> QED BY <1>0, <1>1, <1>2, <2>1, <2>2 DEF TreeInv
<1>3. ASSUME UNCHANGED <<links, attrs>>
      PROVE  TreeInv' /\ UNCHANGED DomTree!treeVars
  <2>1. Tree(links') = Tree(links) /\ Listed(links')
    BY <1>0, <1>3
  <2> QED BY <2>1, <1>1, <1>2, <1>3 DEF DomTree!treeVars
<1>4. ASSUME NEW p \in Existing, NEW c \in Existing, InsertLast(p, c)
      PROVE  TreeInv' /\ DomTree!PutLast(p, c)
  <2>1. p \in Nodes /\ c \in Nodes /\ links.parent[c] = Null /\ c # p
    BY <1>0, <1>4, NotItself DEF InsertLast, Proper
  <2>2. Listed(links') /\ Tree(links') = [Tree(links) EXCEPT ![p] = Append(@, c)]
        /\ attrs' = attrs
    BY <1>0, <1>4, <2>1, AppendTree DEF InsertLast
  <2>3. DomTree!PutLast(p, c)
    BY <2>1, <2>2, <1>1, <1>2, HangsNowhere DEF DomTree!PutLast
  <2> QED BY <2>2, <2>3, <1>2
<1>5. ASSUME NEW p \in Existing, NEW c \in Existing, NEW r \in Existing, InsertBefore(p, c, r)
      PROVE  TreeInv' /\ DomTree!PutBefore(p, c, r)
  <2>1. p \in Nodes /\ c \in Nodes /\ r \in Nodes /\ links.parent[c] = Null /\ c # p
        /\ links.parent[r] = p
    BY <1>0, <1>5, NotItself, NullIsNoNode DEF InsertBefore, Proper
  <2>2. Listed(links') /\ attrs' = attrs
    BY <1>0, <1>5, <2>1, InsertTree DEF InsertBefore
  <2>3. PICK k \in DOMAIN Tree(links)[p] :
          /\ Tree(links)[p][k] = r
          /\ Tree(links') = [Tree(links) EXCEPT ![p] = InsertAt(@, k, c)]
    BY <1>0, <1>5, <2>1, InsertTree DEF InsertBefore
  <2>4. DomTree!PutBefore(p, c, r)
    BY <2>1, <2>2, <2>3, <1>1, <1>2, HangsNowhere
       DEF DomTree!PutBefore, DomTree!InsertAt, InsertAt
  <2> QED BY <2>2, <2>4, <1>2
<1>6. ASSUME NEW p \in Existing, NEW c \in Existing, RemoveChild(p, c)
      PROVE  TreeInv' /\ DomTree!TakeOut(p, c)
  <2>1. p \in Nodes /\ c \in Nodes /\ links.parent[c] = p
    BY <1>0, <1>6 DEF RemoveChild
  <2>2. Listed(links') /\ attrs' = attrs
    BY <1>0, <1>6, <2>1, UnlinkTree DEF RemoveChild
  <2>3. PICK k \in DOMAIN Tree(links)[p] :
          /\ Tree(links)[p][k] = c
          /\ Tree(links') = [Tree(links) EXCEPT ![p] = RemoveAt(@, k)]
    BY <1>0, <1>6, <2>1, UnlinkTree DEF RemoveChild
  <2>4. DomTree!TakeOut(p, c)
    BY <2>2, <2>3, <1>1, <1>2 DEF DomTree!TakeOut, DomTree!RemoveAt, RemoveAt
  <2> QED BY <2>2, <2>4, <1>2
<1>7. ASSUME NEW n \in Nodes, NEW name \in Names, NEW value \in Values \union {None}, NEW list,
             AttrsOk(list),
             \A other : ValueOf(list, other) = IF other = name THEN value
                                               ELSE ValueOf(attrs[n], other),
             attrs' = [attrs EXCEPT ![n] = list], links' = links
      PROVE  TreeInv' /\ DomTree!SetAttribute(n, name, value)
  <2>1. attrs \in [Nodes -> Seq(Attribute)] /\ list \in Seq(Attribute)
    BY <1>7 DEF TreeInv, AttrsOk
  <2>2. attrs' \in [Nodes -> Seq(Attribute)]
        /\ \A m \in Nodes : attrs'[m] = IF m = n THEN list ELSE attrs[m]
    BY <1>7, <2>1
  <2>3. \A m \in Nodes : AttrsOk(attrs'[m])
    BY <1>7, <2>2 DEF TreeInv
  <2>4. Map(attrs') = [Map(attrs) EXCEPT ![n][name] = value]
    BY <1>7, <2>2 DEF Map
  <2>5. DomTree!SetAttribute(n, name, value)
    BY <1>1, <1>7, <2>4 DEF DomTree!SetAttribute
  <2>6. Listed(links')
    BY <1>0, <1>7
  <2>7. Listed(links)'
    BY <2>6 DEF Listed, ListOf, Kids, Along, Nodes, Null
  <2>8. TreeInv'
    BY <1>0, <2>2, <2>3, <2>7 DEF TreeInv, AttrsOk, Attribute, Nodes
  <2> QED BY <2>5, <2>8
<1>8. ASSUME NEW n \in Existing, NEW name \in Names, NEW value \in Values,
             SetAttribute(n, name, value)
      PROVE  TreeInv' /\ DomTree!SetAttribute(n, name, value)
  <2> DEFINE list == WithAttr(attrs[n], name, value)
  <2>1. n \in Nodes /\ AttrsOk(attrs[n])
    BY <1>0 DEF TreeInv
  <2>2. AttrsOk(list) /\ \A other : ValueOf(list, other) = IF other = name THEN value
                                                          ELSE ValueOf(attrs[n], other)
    BY <2>1, WithIs
  <2>3. attrs' = [attrs EXCEPT ![n] = list] /\ links' = links
    BY <1>8 DEF SetAttribute
  <2>4. value \in Values \union {None}
    OBVIOUS
  <2> HIDE DEF list, children, attributes
  <2> QED BY <2>1, <2>2, <2>3, <2>4, <1>7
<1>9. ASSUME NEW n \in Existing, NEW name \in Names, RemoveAttribute(n, name)
      PROVE  TreeInv' /\ DomTree!RemoveAttribute(n, name)
  <2> DEFINE list == WithoutAttr(attrs[n], name)
  <2>1. n \in Nodes /\ AttrsOk(attrs[n])
    BY <1>0 DEF TreeInv
  <2>2. AttrsOk(list) /\ \A other : ValueOf(list, other) = IF other = name THEN None
                                                          ELSE ValueOf(attrs[n], other)
    BY <1>9, <2>1, WithoutIs DEF RemoveAttribute
  <2>3. attrs' = [attrs EXCEPT ![n] = list] /\ links' = links
    BY <1>9 DEF RemoveAttribute
  <2>4. None \in Values \union {None}
    OBVIOUS
  <2> HIDE DEF list, children, attributes
  <2>5. TreeInv' /\ DomTree!SetAttribute(n, name, None)
    BY <2>1, <2>2, <2>3, <2>4, <1>7
  <2> QED BY <2>5 DEF DomTree!RemoveAttribute
<1>10. ASSUME CreateNode \/ Refused \/ UNCHANGED vars
       PROVE  UNCHANGED <<links, attrs>>
  BY <1>10 DEF CreateNode, Refused, vars
<1>11. TreeInv'
  BY <1>3, <1>4, <1>5, <1>6, <1>8, <1>9, <1>10 DEF Next
<1>12. CreateNode \/ Refused => UNCHANGED DomTree!treeVars
  BY <1>3, <1>10
<1> HIDE DEF children, attributes
<1>13. EachCallTakesEffect
  BY <1>4, <1>5, <1>6, <1>8, <1>9, <1>12 DEF EachCallTakesEffect
<1> QED BY <1>11, <1>13

\* However many nodes there are: every insertion puts its child at the end or
\* right in front of its reference, every removal takes out its child and no
\* other, and an attribute has the value it was last given or none
\* (elements.h:108-221).
THEOREM DomRefinesTree == Spec => PointersAreTree
BY TreeInitial, TreeStep, PTL DEF Spec, PointersAreTree

----------------------------------------------------------------------------
(* diff_trees: the patches say what was done.                              *)

\* Texts of nodes, values of attributes, and none of either.
Texts == {label.text : label \in Labels} \union {None}
Worth == Values \union Texts
Lists == {list \in Seq(Attribute) : AttrsOk(list)}
Patches ==
  [action : {"Insert", "Remove", "UpdateText", "UpdateAttribute", "RemoveAttribute"},
   target : Nodes, related : Nodes \union {Null}, key : Names \union {None}, value : Worth]
States ==
  [links : Links, attrs : [Nodes -> Lists], text : [Nodes -> Texts], queue : Seq(Patches),
   asked : Nat]

\* What patches tell of, in a state and before the call.
Described ==
  [parent : Pointers, text : [Nodes -> Worth], value : [Nodes -> [Names -> Worth]]]
Told(s) == [parent |-> s.links.parent, text |-> s.text, value |-> AttributeValues(s.attrs)]
Before == [parent |-> start.links.parent, text |-> start.text,
           value |-> AttributeValues(start.attrs)]

\* Replayed, of any queue.
ReplayedBy(q) ==
  LET after[k \in 0 .. Len(q)] ==
        IF k = 0 THEN [parent |-> start.links.parent, text |-> start.text,
                       value |-> AttributeValues(start.attrs)]
        ELSE Applied(after[k - 1], q[k])
  IN after[Len(q)]
Follows(f, q) ==
  /\ f[0] = Before
  /\ \A k \in 1 .. Len(q) : f[k] = Applied(f[k - 1], q[k])

LEMMA AppliedTyped ==
  ASSUME NEW acc \in Described, NEW patch \in Patches
  PROVE  Applied(acc, patch) \in Described
<1>1. /\ acc.parent \in [Nodes -> Nodes \union {Null}] /\ acc.text \in [Nodes -> Worth]
      /\ acc.value \in [Nodes -> [Names -> Worth]]
      /\ acc = [parent |-> acc.parent, text |-> acc.text, value |-> acc.value]
  BY DEF Described, Pointers
<1>2. /\ patch.target \in Nodes /\ patch.related \in Nodes \union {Null} /\ patch.value \in Worth
      /\ patch.action \in {"Insert", "Remove", "UpdateText", "UpdateAttribute", "RemoveAttribute"}
  BY DEF Patches
<1>3. CASE patch.action = "Insert"
  <2>1. [acc.parent EXCEPT ![patch.related] = patch.target] \in Pointers
    BY <1>1, <1>2 DEF Pointers
  <2> QED BY <2>1, <1>1, <1>3 DEF Applied, Described
<1>4. CASE patch.action = "Remove"
  <2>1. [acc.parent EXCEPT ![patch.related] = Null] \in Pointers
    BY <1>1, <1>2 DEF Pointers
  <2> QED BY <2>1, <1>1, <1>4 DEF Applied, Described
<1>5. CASE patch.action = "UpdateText"
  <2>1. [acc.text EXCEPT ![patch.target] = patch.value] \in [Nodes -> Worth]
    BY <1>1, <1>2
  <2> QED BY <2>1, <1>1, <1>5 DEF Applied, Described
<1>6. CASE patch.action \in {"UpdateAttribute", "RemoveAttribute"}
  <2>1. [acc.value EXCEPT ![patch.target][patch.key] = patch.value] \in [Nodes -> [Names -> Worth]]
    BY <1>1, <1>2
  <2>2. Applied(acc, patch) = [acc EXCEPT !.value[patch.target][patch.key] = patch.value]
    BY <1>6 DEF Applied
  <2>3. Applied(acc, patch) = [acc EXCEPT !.value = [acc.value EXCEPT ![patch.target][patch.key] = patch.value]]
    BY <2>2
  <2> QED BY <2>1, <2>3, <1>1 DEF Described
<1> QED BY <1>2, <1>3, <1>4, <1>5, <1>6

LEMMA ReplayUnrolled ==
  ASSUME NEW q \in Seq(Patches), Before \in Described
  PROVE  \E f \in [0 .. Len(q) -> Described] : Follows(f, q) /\ ReplayedBy(q) = f[Len(q)]
<1> DEFINE n == Len(q)
           step == [a \in Nat \X Described |->
                      IF a[1] \in 1 .. n THEN Applied(a[2], q[a[1]]) ELSE Before]
<1>1. n \in Nat /\ \A k \in 1 .. n : q[k] \in Patches
  BY ElementOfSeq
<1>2. step \in [Nat \X Described -> Described]
  <2> HIDE DEF n
  <2> QED BY <1>1, AppliedTyped
<1>3. PICK f \in [0 .. n -> Described] : Unrolls(f, n, Before, step)
  <2> HIDE DEF n, step
  <2> QED BY <1>1, <1>2, Unrolled
<1>4. ASSUME NEW k \in 0 .. n, k # 0
      PROVE  k \in 1 .. n /\ step[<<k, f[k - 1]>>] = Applied(f[k - 1], q[k])
  <2>1. k \in 1 .. n /\ k - 1 \in 0 .. n /\ k \in Nat
    BY <1>1, <1>4
  <2>2. <<k, f[k - 1]>> \in Nat \X Described
    BY <2>1, <1>3
  <2> HIDE DEF n
  <2> QED BY <2>1, <2>2
<1> HIDE DEF step
<1>a. f = [k \in 0 .. n |-> IF k = 0 THEN Before ELSE step[<<k, f[k - 1]>>]]
  BY <1>3 DEF Unrolls
<1>5. f = [k \in 0 .. n |-> IF k = 0 THEN Before ELSE Applied(f[k - 1], q[k])]
  BY ONLY <1>a, <1>4
<1>6. ReplayedBy(q) = (CHOOSE g : g = [k \in 0 .. n |-> IF k = 0 THEN Before ELSE Applied(g[k - 1], q[k])])[n]
  BY DEF ReplayedBy, Before
<1> HIDE DEF n
<1> DEFINE e == CHOOSE g : g = [k \in 0 .. n |-> IF k = 0 THEN Before ELSE Applied(g[k - 1], q[k])]
<1>7. e = [k \in 0 .. n |-> IF k = 0 THEN Before ELSE Applied(e[k - 1], q[k])]
  BY <1>5
<1>8. ReplayedBy(q) = e[n]
  BY <1>6
<1> HIDE DEF e
<1> DEFINE S == {k \in Nat : k <= n => e[k] = f[k]}
<1>9. e[0] = Before /\ f[0] = Before
  BY <1>1, <1>5, <1>7
<1>10. ASSUME NEW k \in Nat, k \in S PROVE k + 1 \in S
  <2>1. SUFFICES ASSUME k + 1 <= n PROVE e[k + 1] = f[k + 1]
    OBVIOUS
  <2>2. k + 1 \in 0 .. n /\ k + 1 # 0 /\ (k + 1) - 1 = k /\ k <= n
    BY <2>1, <1>1
  <2>3. e[k + 1] = Applied(e[k], q[k + 1]) /\ f[k + 1] = Applied(f[k], q[k + 1])
    BY ONLY <2>2, <1>5, <1>7
  <2> QED BY <2>2, <2>3, <1>10
<1>11. \A k \in Nat : k \in S
  <2>1. 0 \in S
    BY <1>9
  <2> HIDE DEF S
  <2> QED BY <2>1, <1>10, Induction
<1>12. e[n] = f[n]
  BY <1>1, <1>11
<1>13. \A k \in 1 .. n : k \in 0 .. n /\ k # 0
  BY <1>1
<1>14. \A k \in 1 .. n : f[k] = Applied(f[k - 1], q[k])
  BY ONLY <1>5, <1>13
<1>15. Follows(f, q)
  BY <1>9, <1>14 DEF Follows, n
<1> QED BY <1>3, <1>8, <1>12, <1>15 DEF n

\* One patch more is one patch applied.
LEMMA ReplayMore ==
  ASSUME NEW q \in Seq(Patches), NEW patch \in Patches, Before \in Described
  PROVE  ReplayedBy(Append(q, patch)) = Applied(ReplayedBy(q), patch)
<1> DEFINE t == Append(q, patch)
           n == Len(q)
<1>1. t \in Seq(Patches) /\ n \in Nat /\ Len(t) = n + 1 /\ t[n + 1] = patch
      /\ \A k \in 1 .. n : t[k] = q[k]
  BY AppendProperties
<1>2. PICK f \in [0 .. n -> Described] : Follows(f, q) /\ ReplayedBy(q) = f[n]
  BY ReplayUnrolled
<1> HIDE DEF t
<1>3. PICK g \in [0 .. Len(t) -> Described] : Follows(g, t) /\ ReplayedBy(t) = g[Len(t)]
  BY <1>1, ReplayUnrolled
<1> DEFINE S == {k \in Nat : k <= n => g[k] = f[k]}
<1>4. 0 \in S
  BY <1>2, <1>3 DEF Follows
<1>5. ASSUME NEW k \in Nat, k \in S PROVE k + 1 \in S
  <2>1. SUFFICES ASSUME k + 1 <= n PROVE g[k + 1] = f[k + 1]
    OBVIOUS
  <2>2. k + 1 \in 1 .. n /\ k + 1 \in 1 .. Len(t) /\ (k + 1) - 1 = k /\ k <= n
    BY <2>1, <1>1
  <2>3. g[k + 1] = Applied(g[(k + 1) - 1], t[k + 1])
    BY <2>2, <1>3 DEF Follows
  <2>4. f[k + 1] = Applied(f[(k + 1) - 1], q[k + 1])
    BY <2>2, <1>2 DEF Follows
  <2>5. t[k + 1] = q[k + 1] /\ g[k] = f[k]
    BY <2>2, <1>1, <1>5
  <2> QED BY ONLY <2>2, <2>3, <2>4, <2>5
<1>6. \A k \in Nat : k \in S
  <2> HIDE DEF S
  <2> QED BY <1>4, <1>5, Induction
<1>7. g[n] = f[n]
  BY <1>1, <1>6
<1>8. n + 1 \in 1 .. Len(t) /\ (n + 1) - 1 = n
  BY <1>1
<1>9. g[n + 1] = Applied(g[(n + 1) - 1], t[n + 1])
  BY <1>8, <1>3 DEF Follows
<1>10. ReplayedBy(t) = Applied(f[n], patch)
  BY ONLY <1>1, <1>3, <1>7, <1>8, <1>9
<1> QED BY <1>2, <1>10 DEF t

----------------------------------------------------------------------------
\* What holds between any two changes of the call.
StateOk(s) ==
  /\ s \in States
  /\ Len(s.queue) <= QueueCapacity
  /\ Len(s.queue) < QueueCapacity => ReplayedBy(s.queue) = Told(s)

LEMMA StateParts ==
  ASSUME NEW s \in States
  PROVE  /\ s.links \in Links /\ s.attrs \in [Nodes -> Lists] /\ s.text \in [Nodes -> Texts]
         /\ s.queue \in Seq(Patches) /\ s.asked \in Nat
         /\ s = [links |-> s.links, attrs |-> s.attrs, text |-> s.text, queue |-> s.queue,
            asked |-> s.asked]
  BY DEF States

\* A change and the patch that tells of it.
LEMMA ChangeOk ==
  ASSUME NEW s, StateOk(s), NEW t, NEW patch \in Patches, Before \in Described,
         t.links \in Links, t.attrs \in [Nodes -> Lists], t.text \in [Nodes -> Texts],
         t.queue = Pushed(s.queue, patch), t.asked \in Nat,
         t = [links |-> t.links, attrs |-> t.attrs, text |-> t.text, queue |-> t.queue,
            asked |-> t.asked],
         Told(t) = Applied(Told(s), patch)
  PROVE  StateOk(t)
<1> DEFINE q == s.queue
<1>1. q \in Seq(Patches) /\ Len(q) \in Nat /\ Len(q) <= QueueCapacity /\ QueueCapacity \in Nat
      /\ (Len(q) < QueueCapacity => ReplayedBy(q) = Told(s))
  BY StateParts, DomAssumption DEF StateOk
<1>2. t.queue = IF Len(q) < QueueCapacity THEN Append(q, patch) ELSE q
  BY DEF Pushed
<1> HIDE DEF q
<1>3. CASE Len(q) < QueueCapacity
  <2>1. t.queue = Append(q, patch) /\ t.queue \in Seq(Patches) /\ Len(t.queue) = Len(q) + 1
    BY <1>1, <1>2, <1>3, AppendProperties
  <2>2. ReplayedBy(t.queue) = Told(t)
    BY <2>1, <1>1, <1>3, ReplayMore
  <2>3. Len(t.queue) <= QueueCapacity
    BY <2>1, <1>1, <1>3
  <2>4. t \in States
    BY <2>1 DEF States
  <2> QED BY <2>2, <2>3, <2>4 DEF StateOk
<1>4. CASE ~ (Len(q) < QueueCapacity)
  <2>1. t.queue = q
    BY <1>2, <1>4
  <2>2. t \in States
    BY <2>1, <1>1 DEF States
  <2> QED BY <2>1, <2>2, <1>1, <1>4 DEF StateOk
<1> QED BY <1>3, <1>4

LEMMA ListIs == ASSUME NEW list PROVE list \in Lists <=> AttrsOk(list)
  BY DEF Lists, AttrsOk

\* The five changes.
LEMMA InsertedOk ==
  ASSUME NEW s, StateOk(s), NEW p \in Nodes \union {Null}, NEW c \in Nodes, Before \in Described
  PROVE  StateOk(Inserted(s, p, c))
<1>1. CASE p = Null
  BY <1>1 DEF Inserted
<1>2. CASE p # Null
  <2> DEFINE t == Inserted(s, p, c)
             h == s.links
             patch == Patch("Insert", p, c, None, None)
  <2>1. /\ p \in Nodes /\ s \in States /\ h \in Links /\ s.attrs \in [Nodes -> Lists]
        /\ s.text \in [Nodes -> Texts] /\ s.asked \in Nat
        /\ s = [links |-> s.links, attrs |-> s.attrs, text |-> s.text, queue |-> s.queue,
            asked |-> s.asked]
    BY <1>2, StateParts DEF StateOk
  <2>2. /\ h.parent \in Pointers /\ h.first \in Pointers /\ h.last \in Pointers
        /\ h.next \in Pointers /\ h.prev \in Pointers /\ h.count \in [Nodes -> Int]
    BY <2>1, LinksFields
  <2>3. AppendChild(h, p, c) \in Links
    <3>1. /\ Set(h.parent, c, p) \in Pointers /\ Set(h.first, p, c) \in Pointers
          /\ Set(h.last, p, c) \in Pointers /\ Set(h.next, h.last[p], c) \in Pointers
          /\ Set(h.prev, c, h.last[p]) \in Pointers
      BY <2>1, <2>2 DEF Set, Pointers
    <3>2. Set(h.count, p, h.count[p] + 1) \in [Nodes -> Int]
      BY <2>1, <2>2 DEF Set
    <3> QED BY <2>2, <3>1, <3>2 DEF AppendChild, Links
  <2>4. patch \in Patches
    BY <2>1 DEF Patch, Patches, Worth, Texts
  <2>5. /\ t.links = AppendChild(h, p, c) /\ t.attrs = s.attrs /\ t.text = s.text
        /\ t.queue = Pushed(s.queue, patch) /\ t.asked = s.asked
        /\ t = [links |-> t.links, attrs |-> t.attrs, text |-> t.text, queue |-> t.queue,
            asked |-> t.asked]
    BY <1>2, <2>1 DEF Inserted, Sent
  <2> HIDE DEF t
  <2>6. t.links.parent = [h.parent EXCEPT ![c] = p]
    BY <2>5 DEF AppendChild, Set
  <2>7. Told(t) = Applied(Told(s), patch)
    BY <2>5, <2>6 DEF Told, Applied, Patch
  <2>8. StateOk(t)
    <3> HIDE DEF patch, h
    <3> QED BY <2>1, <2>3, <2>4, <2>5, <2>7, ChangeOk
  <2> QED BY <2>8 DEF t
<1> QED BY <1>1, <1>2

LEMMA RemovedOk ==
  ASSUME NEW s, StateOk(s), NEW p \in Nodes \union {Null}, NEW c \in Nodes, Before \in Described
  PROVE  StateOk(Removed(s, p, c))
<1>1. CASE p = Null \/ s.links.parent[c] # p
  BY <1>1 DEF Removed
<1>2. CASE p # Null /\ s.links.parent[c] = p
  <2> DEFINE t == Removed(s, p, c)
             h == s.links
             patch == Patch("Remove", p, c, None, None)
  <2>1. /\ p \in Nodes /\ s \in States /\ h \in Links /\ s.attrs \in [Nodes -> Lists]
        /\ s.text \in [Nodes -> Texts] /\ s.asked \in Nat
        /\ s = [links |-> s.links, attrs |-> s.attrs, text |-> s.text, queue |-> s.queue,
            asked |-> s.asked]
    BY <1>2, StateParts DEF StateOk
  <2>2. /\ h.parent \in Pointers /\ h.first \in Pointers /\ h.last \in Pointers
        /\ h.next \in Pointers /\ h.prev \in Pointers /\ h.count \in [Nodes -> Int]
    BY <2>1, LinksFields
  <2>3. UnlinkChild(h, p, c) \in Links
    BY <2>1, <2>2 DEF UnlinkChild, Set, Links, Pointers
  <2>4. patch \in Patches
    BY <2>1 DEF Patch, Patches, Worth, Texts
  <2>5. /\ t.links = UnlinkChild(h, p, c) /\ t.attrs = s.attrs /\ t.text = s.text
        /\ t.queue = Pushed(s.queue, patch) /\ t.asked = s.asked
        /\ t = [links |-> t.links, attrs |-> t.attrs, text |-> t.text, queue |-> t.queue,
            asked |-> t.asked]
    BY <1>2, <2>1 DEF Removed, Sent
  <2> HIDE DEF t
  <2>6. t.links.parent = [h.parent EXCEPT ![c] = Null]
    BY <2>5 DEF UnlinkChild, Set
  <2>7. Told(t) = Applied(Told(s), patch)
    BY <2>5, <2>6 DEF Told, Applied, Patch
  <2>8. StateOk(t)
    <3> HIDE DEF patch, h
    <3> QED BY <2>1, <2>3, <2>4, <2>5, <2>7, ChangeOk
  <2> QED BY <2>8 DEF t
<1> QED BY <1>1, <1>2

LEMMA ValueSetOk ==
  ASSUME NEW s, StateOk(s), NEW n \in Nodes, NEW value \in Texts, Before \in Described
  PROVE  StateOk(ValueSet(s, n, value))
<1> DEFINE t == ValueSet(s, n, value)
           patch == Patch("UpdateText", n, Null, None, value)
<1>1. /\ s \in States /\ s.links \in Links /\ s.attrs \in [Nodes -> Lists]
      /\ s.text \in [Nodes -> Texts] /\ s.asked \in Nat
      /\ s = [links |-> s.links, attrs |-> s.attrs, text |-> s.text, queue |-> s.queue,
            asked |-> s.asked]
  BY StateParts DEF StateOk
<1>2. patch \in Patches
  BY DEF Patch, Patches, Worth
<1>3. /\ t.links = s.links /\ t.attrs = s.attrs /\ t.text = [s.text EXCEPT ![n] = value]
      /\ t.queue = Pushed(s.queue, patch) /\ t.asked = s.asked
      /\ t = [links |-> t.links, attrs |-> t.attrs, text |-> t.text, queue |-> t.queue,
            asked |-> t.asked]
  <2>1. t = [s EXCEPT !.text = [s.text EXCEPT ![n] = value], !.queue = Pushed(s.queue, patch)]
    BY DEF ValueSet, Sent
  <2> HIDE DEF t, patch
  <2> QED BY <2>1, <1>1
<1> HIDE DEF t
<1>4. t.text \in [Nodes -> Texts]
  BY <1>1, <1>3
<1>5. Told(t) = Applied(Told(s), patch)
  BY <1>3 DEF Told, Applied, Patch
<1>6. StateOk(t)
  <2> HIDE DEF patch
  <2> QED BY <1>1, <1>2, <1>3, <1>4, <1>5, ChangeOk
<1> QED BY <1>6 DEF t

\* One attribute list changed: what the lists say changes in one place.
ChangedAt(list, name, value, before) ==
  \A other : ValueOf(list, other) = IF other = name THEN value ELSE ValueOf(before, other)
SaidAt(more, lists, n, name, value) ==
  AttributeValues(more) = [AttributeValues(lists) EXCEPT ![n][name] = value]

LEMMA ValuesChange ==
  ASSUME NEW lists \in [Nodes -> Lists], NEW n \in Nodes, NEW list, NEW name \in Names, NEW value,
         ChangedAt(list, name, value, lists[n]),
         NEW more, more = [lists EXCEPT ![n] = list]
  PROVE  SaidAt(more, lists, n, name, value)
<1> DEFINE A == AttributeValues(lists)
           B == AttributeValues(more)
<1>1. /\ A = [m \in Nodes |-> [other \in Names |-> ValueOf(lists[m], other)]]
      /\ B = [m \in Nodes |-> [other \in Names |-> ValueOf(more[m], other)]]
  BY DEF AttributeValues
<1>2. \A m \in Nodes : more[m] = IF m = n THEN list ELSE lists[m]
  OBVIOUS
<1> HIDE DEF A, B
<1>3. B[n] = [A[n] EXCEPT ![name] = value]
  <2>1. A[n] = [other \in Names |-> ValueOf(lists[n], other)]
        /\ B[n] = [other \in Names |-> ValueOf(list, other)]
    BY ONLY <1>1, <1>2, n \in Nodes
  <2>2. B[n] = [other \in Names |-> IF other = name THEN value ELSE ValueOf(lists[n], other)]
    BY <2>1 DEF ChangedAt
  <2> QED BY <2>1, <2>2
<1>4. \A m \in Nodes : m # n => B[m] = A[m]
  BY <1>1, <1>2
<1>5. B = [A EXCEPT ![n] = [A[n] EXCEPT ![name] = value]]
  BY <1>1, <1>3, <1>4
<1> QED BY <1>5 DEF A, B, SaidAt

LEMMA AttributeSetOk ==
  ASSUME NEW s, StateOk(s), NEW n \in Nodes, NEW attr \in Attribute, Before \in Described
  PROVE  StateOk(AttributeSet(s, n, attr))
<1> DEFINE t == AttributeSet(s, n, attr)
           patch == Patch("UpdateAttribute", n, Null, attr.name, attr.value)
           list == WithAttr(s.attrs[n], attr.name, attr.value)
           isNew == AttrAt(s.attrs[n], attr.name) = 0
<1>1. /\ s \in States /\ s.links \in Links /\ s.attrs \in [Nodes -> Lists]
      /\ s.text \in [Nodes -> Texts] /\ s.asked \in Nat /\ Room \in Nat
      /\ s = [links |-> s.links, attrs |-> s.attrs, text |-> s.text, queue |-> s.queue,
            asked |-> s.asked]
  BY StateParts, DiffAssumption DEF StateOk
<1>2. attr.name \in Names /\ attr.value \in Values
  BY DEF Attribute
<1>3. patch \in Patches
  BY <1>2 DEF Patch, Patches, Worth
<1>4. /\ AttrsOk(list)
      /\ \A other : ValueOf(list, other) = IF other = attr.name THEN attr.value
                                           ELSE ValueOf(s.attrs[n], other)
  BY <1>1, <1>2, ListIs, WithIs
<1> HIDE DEF isNew
<1>a. CASE isNew /\ s.asked >= Room
  <2>1. t = [s EXCEPT !.asked = s.asked + 1]
    BY <1>a DEF AttributeSet, isNew
  <2> HIDE DEF t
  <2>2. /\ t.links = s.links /\ t.attrs = s.attrs /\ t.text = s.text /\ t.queue = s.queue
        /\ t.asked = s.asked + 1
        /\ t = [links |-> t.links, attrs |-> t.attrs, text |-> t.text, queue |-> t.queue,
              asked |-> t.asked]
    BY <2>1, <1>1
  <2>3. t \in States /\ Told(t) = Told(s)
    BY <2>2, <1>1, StateParts DEF States, Told
  <2>4. StateOk(t)
    BY <2>2, <2>3 DEF StateOk
  <2> QED BY <2>4 DEF t
<1> SUFFICES ASSUME ~ (isNew /\ s.asked >= Room) PROVE StateOk(t)
  BY <1>a
<1>5. /\ t.links = s.links /\ t.attrs = [s.attrs EXCEPT ![n] = list] /\ t.text = s.text
      /\ t.queue = Pushed(s.queue, patch) /\ t.asked \in Nat
      /\ t = [links |-> t.links, attrs |-> t.attrs, text |-> t.text, queue |-> t.queue,
            asked |-> t.asked]
  <2> DEFINE more == IF isNew THEN s.asked + 1 ELSE s.asked
  <2>1. t = [s EXCEPT !.attrs = [s.attrs EXCEPT ![n] = list], !.queue = Pushed(s.queue, patch),
                      !.asked = more]
    BY DEF AttributeSet, Sent, isNew
  <2>2. more \in Nat
    BY <1>1
  <2> HIDE DEF t, patch, list, more
  <2> QED BY <2>1, <2>2, <1>1
<1> HIDE DEF t, list
<1>6. t.attrs \in [Nodes -> Lists]
  BY <1>1, <1>4, <1>5, ListIs
<1>7. AttributeValues(t.attrs) = [AttributeValues(s.attrs) EXCEPT ![n][attr.name] = attr.value]
  <2>1. ChangedAt(list, attr.name, attr.value, s.attrs[n])
    BY <1>4 DEF ChangedAt
  <2>2. s.attrs \in [Nodes -> Lists] /\ attr.name \in Names /\ n \in Nodes
        /\ t.attrs = [s.attrs EXCEPT ![n] = list]
    BY <1>1, <1>2, <1>5
  <2>3. SaidAt(t.attrs, s.attrs, n, attr.name, attr.value)
    BY ONLY <2>1, <2>2, ValuesChange
  <2> QED BY <2>3 DEF SaidAt
<1>8. Told(t) = Applied(Told(s), patch)
  BY <1>5, <1>7 DEF Told, Applied, Patch
<1>9. StateOk(t)
  <2> HIDE DEF patch
  <2> QED BY <1>1, <1>3, <1>5, <1>6, <1>8, ChangeOk
<1> QED BY <1>9 DEF t

LEMMA AttributeRemovedOk ==
  ASSUME NEW s, StateOk(s), NEW n \in Nodes, NEW attr \in Attribute, Before \in Described
  PROVE  StateOk(AttributeRemoved(s, n, attr))
<1> DEFINE t == AttributeRemoved(s, n, attr)
           patch == Patch("RemoveAttribute", n, Null, attr.name, None)
           list == WithoutAttr(s.attrs[n], attr.name)
<1>1. /\ s \in States /\ s.links \in Links /\ s.attrs \in [Nodes -> Lists]
      /\ s.text \in [Nodes -> Texts] /\ s.asked \in Nat
      /\ s = [links |-> s.links, attrs |-> s.attrs, text |-> s.text, queue |-> s.queue,
            asked |-> s.asked]
  BY StateParts DEF StateOk
<1>2. attr.name \in Names /\ AttrsOk(s.attrs[n])
  BY <1>1, ListIs DEF Attribute
<1>3. patch \in Patches
  BY <1>2 DEF Patch, Patches, Worth, Texts
<1>4. /\ AttrsOk(list)
      /\ \A other : ValueOf(list, other) = IF other = attr.name THEN None
                                           ELSE ValueOf(s.attrs[n], other)
  <2>1. CASE AttrAt(s.attrs[n], attr.name) = 0
    BY <2>1, <1>2 DEF WithoutAttr, ValueOf
  <2>2. CASE AttrAt(s.attrs[n], attr.name) # 0
    BY <2>2, <1>2, WithoutIs
  <2> QED BY <2>1, <2>2
<1>5. /\ t.links = s.links /\ t.attrs = [s.attrs EXCEPT ![n] = list] /\ t.text = s.text
      /\ t.queue = Pushed(s.queue, patch) /\ t.asked = s.asked
      /\ t = [links |-> t.links, attrs |-> t.attrs, text |-> t.text, queue |-> t.queue,
            asked |-> t.asked]
  <2>1. t = [s EXCEPT !.attrs = [s.attrs EXCEPT ![n] = list], !.queue = Pushed(s.queue, patch)]
    BY DEF AttributeRemoved, Sent
  <2> HIDE DEF t, patch, list
  <2> QED BY <2>1, <1>1
<1> HIDE DEF t, list
<1>6. t.attrs \in [Nodes -> Lists]
  BY <1>1, <1>4, <1>5, ListIs
<1>7. AttributeValues(t.attrs) = [AttributeValues(s.attrs) EXCEPT ![n][attr.name] = None]
  <2>1. ChangedAt(list, attr.name, None, s.attrs[n])
    BY <1>4 DEF ChangedAt
  <2>2. s.attrs \in [Nodes -> Lists] /\ attr.name \in Names /\ n \in Nodes
        /\ t.attrs = [s.attrs EXCEPT ![n] = list]
    BY <1>1, <1>2, <1>5
  <2>3. SaidAt(t.attrs, s.attrs, n, attr.name, None)
    BY ONLY <2>1, <2>2, ValuesChange
  <2> QED BY <2>3 DEF SaidAt
<1>8. Told(t) = Applied(Told(s), patch)
  BY <1>5, <1>7 DEF Told, Applied, Patch
<1>9. StateOk(t)
  <2> HIDE DEF patch
  <2> QED BY <1>1, <1>3, <1>5, <1>6, <1>8, ChangeOk
<1> QED BY <1>9 DEF t

----------------------------------------------------------------------------
(* diff_attributes: its two loops.                                         *)
OkStates == {s \in States : StateOk(s)}

LEMMA OkState == \A s : s \in OkStates <=> StateOk(s)
  BY DEF OkStates, StateOk

\* f goes through the attributes of the old node, or of the new one.
Drops(f, s, o, n) ==
  /\ f[0] = s
  /\ \A k \in 1 .. Len(s.attrs[o]) :
       f[k] = IF AttrAt(s.attrs[n], s.attrs[o][k].name) = 0
              THEN AttributeRemoved(f[k - 1], o, s.attrs[o][k]) ELSE f[k - 1]
Assigns(f, s, o, n) ==
  /\ f[0] = s
  /\ \A k \in 1 .. Len(s.attrs[n]) :
       f[k] = IF ValueOf(f[k - 1].attrs[o], s.attrs[n][k].name) = s.attrs[n][k].value
              THEN f[k - 1] ELSE AttributeSet(f[k - 1], o, s.attrs[n][k])

LEMMA DropsInSteps ==
  ASSUME NEW s, StateOk(s), NEW o \in Nodes, NEW n \in Nodes, Before \in Described
  PROVE  \E f \in [0 .. Len(s.attrs[o]) -> OkStates] :
           Drops(f, s, o, n) /\ Dropped(s, o, n) = f[Len(s.attrs[o])]
<1> DEFINE list == s.attrs[o]
           N == Len(list)
           Next1(k, t) == IF AttrAt(s.attrs[n], list[k].name) = 0
                          THEN AttributeRemoved(t, o, list[k]) ELSE t
           step == [a \in Nat \X OkStates |-> IF a[1] \in 1 .. N THEN Next1(a[1], a[2]) ELSE s]
<1>1. N \in Nat /\ \A k \in 1 .. N : list[k] \in Attribute
  BY ElementOfSeq, StateParts, ListIs DEF StateOk, AttrsOk
<1>2. ASSUME NEW k \in 1 .. N, NEW t \in OkStates PROVE Next1(k, t) \in OkStates
  <2> HIDE DEF N, list
  <2> QED BY <1>1, <1>2, OkState, AttributeRemovedOk
<1>3. s \in OkStates
  BY OkState
<1>4. step \in [Nat \X OkStates -> OkStates]
  <2> HIDE DEF N, Next1
  <2> QED BY <1>2, <1>3
<1>5. PICK f \in [0 .. N -> OkStates] : Unrolls(f, N, s, step)
  <2> HIDE DEF N, step
  <2> QED BY <1>1, <1>3, <1>4, Unrolled
<1>6. ASSUME NEW k \in 0 .. N, k # 0 PROVE step[<<k, f[k - 1]>>] = Next1(k, f[k - 1])
  <2>1. k \in 1 .. N /\ k - 1 \in 0 .. N /\ k \in Nat
    BY <1>1, <1>6
  <2>2. <<k, f[k - 1]>> \in Nat \X OkStates
    BY ONLY <2>1, f \in [0 .. N -> OkStates]
  <2> HIDE DEF N, Next1
  <2> QED BY <2>1, <2>2
<1>7. f = [k \in 0 .. N |-> IF k = 0 THEN s ELSE step[<<k, f[k - 1]>>]]
  BY <1>5 DEF Unrolls
<1> HIDE DEF step
<1>8. f = [k \in 0 .. N |-> IF k = 0 THEN s ELSE Next1(k, f[k - 1])]
  <2> HIDE DEF Next1, N
  <2> QED BY ONLY <1>6, <1>7
<1> DEFINE e == CHOOSE g : g = [k \in 0 .. N |-> IF k = 0 THEN s ELSE Next1(k, g[k - 1])]
<1>9. e = [k \in 0 .. N |-> IF k = 0 THEN s ELSE Next1(k, e[k - 1])]
  BY ONLY <1>8
<1>10. Dropped(s, o, n) = e[N]
  BY DEF Dropped
<1> HIDE DEF e, N, Next1
<1> DEFINE S == {k \in Nat : k <= N => e[k] = f[k]}
<1>11. ASSUME NEW k \in Nat, k \in S PROVE k + 1 \in S
  <2>1. SUFFICES ASSUME k + 1 <= N PROVE e[k + 1] = f[k + 1]
    OBVIOUS
  <2>2. k + 1 \in 0 .. N /\ k + 1 # 0 /\ (k + 1) - 1 = k /\ k <= N
    BY <2>1, <1>1
  <2>3. e[k + 1] = Next1(k + 1, e[k]) /\ f[k + 1] = Next1(k + 1, f[k])
    BY ONLY <2>2, <1>8, <1>9
  <2> QED BY <2>2, <2>3, <1>11
<1>12. \A k \in Nat : k \in S
  <2>1. 0 \in S
    BY <1>1, <1>8, <1>9
  <2> HIDE DEF S
  <2> QED BY <2>1, <1>11, Induction
<1>13. e[N] = f[N]
  BY <1>1, <1>12
<1>14. \A k \in 1 .. N : k \in 0 .. N /\ k # 0
  BY <1>1
<1>15. f[0] = s /\ \A k \in 1 .. N : f[k] = Next1(k, f[k - 1])
  BY ONLY <1>1, <1>8, <1>14
<1>16. Drops(f, s, o, n)
  BY <1>15 DEF Drops, Next1, N
<1> QED BY <1>5, <1>10, <1>13, <1>16 DEF N

LEMMA AssignsInSteps ==
  ASSUME NEW s, StateOk(s), NEW o \in Nodes, NEW n \in Nodes, Before \in Described
  PROVE  \E f \in [0 .. Len(s.attrs[n]) -> OkStates] :
           Assigns(f, s, o, n) /\ Assigned(s, o, n) = f[Len(s.attrs[n])]
<1> DEFINE list == s.attrs[n]
           N == Len(list)
           Next1(k, t) == IF ValueOf(t.attrs[o], list[k].name) = list[k].value
                          THEN t ELSE AttributeSet(t, o, list[k])
           step == [a \in Nat \X OkStates |-> IF a[1] \in 1 .. N THEN Next1(a[1], a[2]) ELSE s]
<1>1. N \in Nat /\ \A k \in 1 .. N : list[k] \in Attribute
  BY ElementOfSeq, StateParts, ListIs DEF StateOk, AttrsOk
<1>2. ASSUME NEW k \in 1 .. N, NEW t \in OkStates PROVE Next1(k, t) \in OkStates
  <2> HIDE DEF N, list
  <2> QED BY <1>1, <1>2, OkState, AttributeSetOk
<1>3. s \in OkStates
  BY OkState
<1>4. step \in [Nat \X OkStates -> OkStates]
  <2> HIDE DEF N, Next1
  <2> QED BY <1>2, <1>3
<1>5. PICK f \in [0 .. N -> OkStates] : Unrolls(f, N, s, step)
  <2> HIDE DEF N, step
  <2> QED BY <1>1, <1>3, <1>4, Unrolled
<1>6. ASSUME NEW k \in 0 .. N, k # 0 PROVE step[<<k, f[k - 1]>>] = Next1(k, f[k - 1])
  <2>1. k \in 1 .. N /\ k - 1 \in 0 .. N /\ k \in Nat
    BY <1>1, <1>6
  <2>2. <<k, f[k - 1]>> \in Nat \X OkStates
    BY ONLY <2>1, f \in [0 .. N -> OkStates]
  <2> HIDE DEF N, Next1
  <2> QED BY <2>1, <2>2
<1>7. f = [k \in 0 .. N |-> IF k = 0 THEN s ELSE step[<<k, f[k - 1]>>]]
  BY <1>5 DEF Unrolls
<1> HIDE DEF step
<1>8. f = [k \in 0 .. N |-> IF k = 0 THEN s ELSE Next1(k, f[k - 1])]
  <2> HIDE DEF Next1, N
  <2> QED BY ONLY <1>6, <1>7
<1> DEFINE e == CHOOSE g : g = [k \in 0 .. N |-> IF k = 0 THEN s ELSE Next1(k, g[k - 1])]
<1>9. e = [k \in 0 .. N |-> IF k = 0 THEN s ELSE Next1(k, e[k - 1])]
  BY ONLY <1>8
<1>10. Assigned(s, o, n) = e[N]
  BY DEF Assigned
<1> HIDE DEF e, N, Next1
<1> DEFINE S == {k \in Nat : k <= N => e[k] = f[k]}
<1>11. ASSUME NEW k \in Nat, k \in S PROVE k + 1 \in S
  <2>1. SUFFICES ASSUME k + 1 <= N PROVE e[k + 1] = f[k + 1]
    OBVIOUS
  <2>2. k + 1 \in 0 .. N /\ k + 1 # 0 /\ (k + 1) - 1 = k /\ k <= N
    BY <2>1, <1>1
  <2>3. e[k + 1] = Next1(k + 1, e[k]) /\ f[k + 1] = Next1(k + 1, f[k])
    BY ONLY <2>2, <1>8, <1>9
  <2> QED BY <2>2, <2>3, <1>11
<1>12. \A k \in Nat : k \in S
  <2>1. 0 \in S
    BY <1>1, <1>8, <1>9
  <2> HIDE DEF S
  <2> QED BY <2>1, <1>11, Induction
<1>13. e[N] = f[N]
  BY <1>1, <1>12
<1>14. \A k \in 1 .. N : k \in 0 .. N /\ k # 0
  BY <1>1
<1>15. f[0] = s /\ \A k \in 1 .. N : f[k] = Next1(k, f[k - 1])
  BY ONLY <1>1, <1>8, <1>14
<1>16. Assigns(f, s, o, n)
  BY <1>15 DEF Assigns, Next1, N
<1> QED BY <1>5, <1>10, <1>13, <1>16 DEF N

\* What t is when only the attributes of o have changed.
OnlyAttrs(t, s, o) ==
  /\ t.links = s.links /\ t.text = s.text
  /\ \A m \in Nodes : m # o => t.attrs[m] = s.attrs[m]

\* No attribute record was refused.
Given(s) == s.asked <= Room

LEMMA AttributeOps ==
  ASSUME NEW s, StateOk(s), NEW o \in Nodes, NEW attr \in Attribute
  PROVE  /\ OnlyAttrs(AttributeRemoved(s, o, attr), s, o)
         /\ ChangedAt(AttributeRemoved(s, o, attr).attrs[o], attr.name, None, s.attrs[o])
         /\ AttributeRemoved(s, o, attr).asked = s.asked
         /\ OnlyAttrs(AttributeSet(s, o, attr), s, o)
         /\ s.asked <= AttributeSet(s, o, attr).asked
         /\ Given(AttributeSet(s, o, attr)) =>
              ChangedAt(AttributeSet(s, o, attr).attrs[o], attr.name, attr.value, s.attrs[o])
<1> DEFINE t == AttributeRemoved(s, o, attr)
           w == AttributeSet(s, o, attr)
<1>1. s \in States /\ s.attrs \in [Nodes -> Lists] /\ attr.name \in Names /\ attr.value \in Values
      /\ AttrsOk(s.attrs[o]) /\ s.asked \in Nat /\ Room \in Nat
      /\ s = [links |-> s.links, attrs |-> s.attrs, text |-> s.text, queue |-> s.queue,
            asked |-> s.asked]
  BY StateParts, ListIs, DiffAssumption DEF StateOk, Attribute
<1>2. /\ t.links = s.links /\ t.text = s.text /\ t.asked = s.asked
      /\ t.attrs = [s.attrs EXCEPT ![o] = WithoutAttr(s.attrs[o], attr.name)]
  <2> DEFINE q == Sent(s, "RemoveAttribute", o, Null, attr.name, None)
             list == WithoutAttr(s.attrs[o], attr.name)
  <2>1. t = [s EXCEPT !.attrs = [s.attrs EXCEPT ![o] = list], !.queue = q]
    BY DEF AttributeRemoved
  <2> HIDE DEF t, q, list
  <2>2. /\ t.links = s.links /\ t.text = s.text /\ t.attrs = [s.attrs EXCEPT ![o] = list]
        /\ t.asked = s.asked
    BY <2>1, <1>1
  <2> QED BY <2>2 DEF list
<1>3. \/ /\ w.links = s.links /\ w.text = s.text /\ s.asked <= w.asked
         /\ w.attrs = [s.attrs EXCEPT ![o] = WithAttr(s.attrs[o], attr.name, attr.value)]
      \/ /\ w.links = s.links /\ w.text = s.text /\ w.attrs = s.attrs
         /\ w.asked = s.asked + 1 /\ s.asked >= Room
  <2> DEFINE q == Sent(s, "UpdateAttribute", o, Null, attr.name, attr.value)
             list == WithAttr(s.attrs[o], attr.name, attr.value)
             isNew == AttrAt(s.attrs[o], attr.name) = 0
             more == IF isNew THEN s.asked + 1 ELSE s.asked
  <2>1. CASE isNew /\ s.asked >= Room
    <3>1. w = [s EXCEPT !.asked = s.asked + 1]
      BY <2>1 DEF AttributeSet
    <3> HIDE DEF w
    <3> QED BY <3>1, <2>1, <1>1
  <2>2. CASE ~ (isNew /\ s.asked >= Room)
    <3>1. w = [s EXCEPT !.attrs = [s.attrs EXCEPT ![o] = list], !.queue = q, !.asked = more]
      BY <2>2 DEF AttributeSet
    <3>2. more \in Nat /\ s.asked <= more
      BY <1>1
    <3> HIDE DEF w, q, list, more
    <3>3. /\ w.links = s.links /\ w.text = s.text /\ w.attrs = [s.attrs EXCEPT ![o] = list]
          /\ s.asked <= w.asked
      BY <3>1, <3>2, <1>1
    <3> QED BY <3>3 DEF list
  <2> QED BY <2>1, <2>2
<1> HIDE DEF t, w
<1>4. \A other : ValueOf(WithoutAttr(s.attrs[o], attr.name), other)
                  = IF other = attr.name THEN None ELSE ValueOf(s.attrs[o], other)
  <2>1. CASE AttrAt(s.attrs[o], attr.name) = 0
    BY <2>1, <1>1 DEF WithoutAttr, ValueOf
  <2>2. CASE AttrAt(s.attrs[o], attr.name) # 0
    BY <2>2, <1>1, WithoutIs
  <2> QED BY <2>1, <2>2
<1>5. \A other : ValueOf(WithAttr(s.attrs[o], attr.name, attr.value), other)
                  = IF other = attr.name THEN attr.value ELSE ValueOf(s.attrs[o], other)
  BY <1>1, WithIs
<1>6. OnlyAttrs(t, s, o) /\ ChangedAt(t.attrs[o], attr.name, None, s.attrs[o])
  BY <1>1, <1>2, <1>4 DEF OnlyAttrs, ChangedAt
<1>7. OnlyAttrs(w, s, o) /\ s.asked <= w.asked
  BY <1>1, <1>3 DEF OnlyAttrs
<1>8. Given(w) => ChangedAt(w.attrs[o], attr.name, attr.value, s.attrs[o])
  <2>1. SUFFICES ASSUME Given(w)
                 PROVE  ChangedAt(w.attrs[o], attr.name, attr.value, s.attrs[o])
    OBVIOUS
  <2>2. w.attrs = [s.attrs EXCEPT ![o] = WithAttr(s.attrs[o], attr.name, attr.value)]
    BY <2>1, <1>1, <1>3 DEF Given
  <2> QED BY <2>2, <1>1, <1>5 DEF ChangedAt
<1> QED BY <1>2, <1>6, <1>7, <1>8 DEF t, w

\* A name has no value exactly when the list has it not.
LEMMA Absent ==
  ASSUME NEW list, AttrsOk(list), NEW name
  PROVE  /\ AttrAt(list, name) = 0 <=> ValueOf(list, name) = None
         /\ ValueOf(list, name) # None <=> \E i \in 1 .. Len(list) : list[i].name = name
<1>1. list \in Seq(Attribute) /\ DOMAIN list = 1 .. Len(list)
      /\ \A i \in 1 .. Len(list) : list[i].value \in Values
  <2>1. list \in Seq(Attribute)
    BY DEF AttrsOk
  <2>2. \A i \in 1 .. Len(list) : list[i] \in Attribute
    BY <2>1, ElementOfSeq
  <2> QED BY <2>1, <2>2 DEF Attribute
<1>2. None \notin Values
  BY DiffAssumption
<1>3. CASE AttrAt(list, name) = 0
  BY <1>1, <1>3, AttrAtFirst DEF ValueOf
<1>4. CASE AttrAt(list, name) # 0
  BY <1>1, <1>2, <1>4, AttrAtFirst DEF ValueOf
<1> QED BY <1>3, <1>4

\* What is left of was when what other lacks is gone, and what it says when
\* other has been written over it.
Reduced(list, other, was) ==
  \A name : ValueOf(list, name) = IF ValueOf(other, name) = None THEN None ELSE ValueOf(was, name)
Overlaid(list, other, was) ==
  \A name : ValueOf(list, name) = IF ValueOf(other, name) # None THEN ValueOf(other, name)
                                  ELSE ValueOf(was, name)

LEMMA DroppedIs ==
  ASSUME NEW s, StateOk(s), NEW o \in Nodes, NEW n \in Nodes, o # n, Before \in Described
  PROVE  LET t == Dropped(s, o, n) IN
         /\ StateOk(t) /\ OnlyAttrs(t, s, o) /\ t.asked = s.asked
         /\ Reduced(t.attrs[o], s.attrs[n], s.attrs[o])
         /\ (\A name \in Names : ValueOf(s.attrs[o], name) = ValueOf(s.attrs[n], name)) => t = s
<1> DEFINE list == s.attrs[o]
           N == Len(list)
           lacks(name) == ValueOf(s.attrs[n], name) = None
<1>1. PICK f \in [0 .. N -> OkStates] : Drops(f, s, o, n) /\ Dropped(s, o, n) = f[N]
  BY DropsInSteps
<1>2. /\ N \in Nat /\ AttrsOk(list) /\ AttrsOk(s.attrs[n])
      /\ \A k \in 1 .. N : list[k] \in Attribute
  BY ElementOfSeq, StateParts, ListIs DEF StateOk, AttrsOk
<1>3. /\ f[0] = s
      /\ \A k \in 1 .. N : f[k] = IF lacks(list[k].name) THEN AttributeRemoved(f[k - 1], o, list[k])
                                  ELSE f[k - 1]
  BY <1>1, <1>2, Absent DEF Drops
<1>4. \A k \in 0 .. N : StateOk(f[k])
  BY <1>1, OkState
<1>5. \A name : ValueOf(list, name) # None <=> \E i \in 1 .. N : list[i].name = name
  BY <1>2, Absent
<1> HIDE DEF N, list, lacks
<1> DEFINE At(k) == /\ OnlyAttrs(f[k], s, o) /\ f[k].asked = s.asked
                    /\ \A name : ValueOf(f[k].attrs[o], name)
                                   = IF lacks(name) /\ \E i \in 1 .. k : list[i].name = name
                                     THEN None ELSE ValueOf(s.attrs[o], name)
           S == {k \in Nat : k <= N => At(k)}
<1>6. 0 \in S
  BY <1>3 DEF OnlyAttrs
<1>7. ASSUME NEW k \in Nat, k \in S PROVE k + 1 \in S
  <2> DEFINE m == k + 1
  <2>1. SUFFICES ASSUME m <= N PROVE At(m)
    OBVIOUS
  <2>2. m \in 1 .. N /\ m - 1 = k /\ k \in 0 .. N /\ At(k)
        /\ (\A i \in 1 .. m : i \in 1 .. k \/ i = m)
        /\ \A i \in 1 .. k : i \in 1 .. m
        /\ m \in 1 .. m
    BY <2>1, <1>2, <1>7
  <2>3. f[m] = IF lacks(list[m].name) THEN AttributeRemoved(f[k], o, list[m]) ELSE f[k]
    BY <2>2, <1>3
  <2> HIDE DEF m
  <2>4. CASE lacks(list[m].name)
    <3>1. list[m] \in Attribute /\ StateOk(f[k]) /\ f[m] = AttributeRemoved(f[k], o, list[m])
      BY <2>2, <2>3, <2>4, <1>2, <1>4
    <3>2. /\ OnlyAttrs(f[m], f[k], o) /\ f[m].asked = f[k].asked
          /\ ChangedAt(f[m].attrs[o], list[m].name, None, f[k].attrs[o])
      BY <3>1, AttributeOps
    <3>3. OnlyAttrs(f[m], s, o) /\ f[m].asked = s.asked
      BY <3>2, <2>2 DEF OnlyAttrs
    <3>4. ASSUME NEW name
          PROVE  ValueOf(f[m].attrs[o], name) = IF lacks(name) /\ \E i \in 1 .. m : list[i].name = name
                                                THEN None ELSE ValueOf(s.attrs[o], name)
      <4>1. ValueOf(f[m].attrs[o], name) = IF name = list[m].name THEN None ELSE ValueOf(f[k].attrs[o], name)
        BY <3>2 DEF ChangedAt
      <4>2. ValueOf(f[k].attrs[o], name) = IF lacks(name) /\ \E i \in 1 .. k : list[i].name = name
                                           THEN None ELSE ValueOf(s.attrs[o], name)
        BY <2>2
      <4> QED BY ONLY <4>1, <4>2, <2>2, <2>4
    <3> QED BY <3>3, <3>4
  <2>5. CASE ~ lacks(list[m].name)
    <3>1. f[m] = f[k]
      BY <2>3, <2>5
    <3>2. ASSUME NEW name
          PROVE  (lacks(name) /\ \E i \in 1 .. m : list[i].name = name)
                   <=> (lacks(name) /\ \E i \in 1 .. k : list[i].name = name)
      BY ONLY <2>2, <2>5
    <3> QED BY <3>1, <3>2, <2>2
  <2> QED BY <2>4, <2>5 DEF m
<1>8. \A k \in Nat : k \in S
  <2> HIDE DEF S
  <2> QED BY <1>6, <1>7, Induction
<1>9. At(N)
  BY <1>2, <1>8
<1>10. \A name : ValueOf(f[N].attrs[o], name) = IF lacks(name) THEN None ELSE ValueOf(s.attrs[o], name)
  BY <1>5, <1>9 DEF list
<1>11. ASSUME \A name \in Names : ValueOf(s.attrs[o], name) = ValueOf(s.attrs[n], name)
       PROVE  f[N] = s
  <2>1. ASSUME NEW k \in 1 .. N PROVE f[k] = f[k - 1]
    <3>1. ValueOf(list, list[k].name) # None /\ list[k].name \in Names
      BY <1>2, <1>5 DEF Attribute
    <3>2. ~ lacks(list[k].name)
      BY <3>1, <1>11 DEF lacks, list
    <3> QED BY <3>2, <1>3
  <2> DEFINE Z == {k \in Nat : k <= N => f[k] = s}
  <2>2. ASSUME NEW k \in Nat, k \in Z PROVE k + 1 \in Z
    <3>1. SUFFICES ASSUME k + 1 <= N PROVE f[k + 1] = s
      OBVIOUS
    <3>2. k + 1 \in 1 .. N /\ (k + 1) - 1 = k /\ k <= N
      BY <3>1, <1>2
    <3> QED BY <3>2, <2>1, <2>2
  <2>3. 0 \in Z
    BY <1>3
  <2>4. \A k \in Nat : k \in Z
    <3> HIDE DEF Z
    <3> QED BY <2>2, <2>3, Induction
  <2> QED BY <2>4, <1>2
<1>12. StateOk(f[N]) /\ OnlyAttrs(f[N], s, o) /\ f[N].asked = s.asked
  BY <1>2, <1>4, <1>9
<1>13. Reduced(f[N].attrs[o], s.attrs[n], s.attrs[o])
  BY <1>10 DEF lacks, Reduced
<1> QED BY <1>1, <1>11, <1>12, <1>13

LEMMA AssignedIs ==
  ASSUME NEW s, StateOk(s), NEW o \in Nodes, NEW n \in Nodes, o # n, Before \in Described
  PROVE  LET t == Assigned(s, o, n) IN
         /\ StateOk(t) /\ OnlyAttrs(t, s, o) /\ s.asked <= t.asked
         /\ Given(t) => Overlaid(t.attrs[o], s.attrs[n], s.attrs[o])
         /\ (\A name \in Names : ValueOf(s.attrs[o], name) = ValueOf(s.attrs[n], name)) => t = s
<1> DEFINE list == s.attrs[n]
           N == Len(list)
<1>1. PICK f \in [0 .. N -> OkStates] : Assigns(f, s, o, n) /\ Assigned(s, o, n) = f[N]
  BY AssignsInSteps
<1>2. /\ N \in Nat /\ AttrsOk(list) /\ DOMAIN list = 1 .. N
      /\ \A k \in 1 .. N : list[k] \in Attribute
  BY ElementOfSeq, StateParts, ListIs DEF StateOk, AttrsOk
<1>3. /\ f[0] = s
      /\ \A k \in 1 .. N : f[k] = IF ValueOf(f[k - 1].attrs[o], list[k].name) = list[k].value
                                  THEN f[k - 1] ELSE AttributeSet(f[k - 1], o, list[k])
  BY <1>1 DEF Assigns
<1>4. \A k \in 0 .. N : StateOk(f[k]) /\ f[k].asked \in Nat
  BY <1>1, OkState, StateParts DEF StateOk
<1>5. /\ \A name : ValueOf(list, name) # None <=> \E i \in 1 .. N : list[i].name = name
      /\ \A k \in 1 .. N : ValueOf(list, list[k].name) = list[k].value
  <2>1. \A name : ValueOf(list, name) # None <=> \E i \in 1 .. N : list[i].name = name
    BY <1>2, Absent
  <2>2. \A k \in DOMAIN list : ValueOf(list, list[k].name) = list[k].value
    BY <1>2, ValueIs
  <2> QED BY <2>1, <2>2, <1>2
<1> HIDE DEF N, list
<1> DEFINE Says(k) == \A name : ValueOf(f[k].attrs[o], name)
                                  = IF \E i \in 1 .. k : list[i].name = name
                                    THEN ValueOf(list, name) ELSE ValueOf(s.attrs[o], name)
           At(k) == /\ OnlyAttrs(f[k], s, o) /\ s.asked <= f[k].asked
                    /\ Given(f[k]) => Says(k)
           S == {k \in Nat : k <= N => At(k)}
<1>6. 0 \in S
  <2>1. s.asked \in Nat
    BY StateParts DEF StateOk
  <2>2. f[0] = s /\ OnlyAttrs(s, s, o) /\ s.asked <= s.asked
    BY <1>3, <2>1 DEF OnlyAttrs
  <2>3. Says(0)
    BY <1>3
  <2> QED BY <2>2, <2>3
<1>7. ASSUME NEW k \in Nat, k \in S PROVE k + 1 \in S
  <2> DEFINE m == k + 1
  <2>1. SUFFICES ASSUME m <= N PROVE At(m)
    OBVIOUS
  <2>2. m \in 1 .. N /\ m - 1 = k /\ k \in 0 .. N /\ At(k)
        /\ (\A i \in 1 .. m : i \in 1 .. k \/ i = m)
        /\ \A i \in 1 .. k : i \in 1 .. m
        /\ m \in 1 .. m
    BY <2>1, <1>2, <1>7
  <2>3. /\ f[m] = IF ValueOf(f[k].attrs[o], list[m].name) = list[m].value
                  THEN f[k] ELSE AttributeSet(f[k], o, list[m])
        /\ ValueOf(list, list[m].name) = list[m].value
        /\ list[m] \in Attribute /\ StateOk(f[k]) /\ f[k].asked \in Nat /\ f[m].asked \in Nat
        /\ s.asked \in Nat /\ Room \in Nat
    BY <2>2, <1>2, <1>3, <1>4, <1>5, StateParts, DiffAssumption DEF StateOk
  <2> HIDE DEF m
  <2>4. Given(f[k]) => Says(k)
    BY <2>2
  <2>5. CASE ValueOf(f[k].attrs[o], list[m].name) = list[m].value
    <3>1. f[m] = f[k] /\ OnlyAttrs(f[m], s, o) /\ s.asked <= f[m].asked
      BY <2>2, <2>3, <2>5
    <3>2. ASSUME NEW name, Given(f[m])
          PROVE  ValueOf(f[m].attrs[o], name) = IF \E i \in 1 .. m : list[i].name = name
                                                THEN ValueOf(list, name) ELSE ValueOf(s.attrs[o], name)
      BY ONLY <3>1, <3>2, <2>2, <2>3, <2>4, <2>5
    <3> QED BY <3>1, <3>2
  <2>6. CASE ValueOf(f[k].attrs[o], list[m].name) # list[m].value
    <3>1. f[m] = AttributeSet(f[k], o, list[m])
      BY <2>3, <2>6
    <3>2. /\ OnlyAttrs(f[m], f[k], o) /\ f[k].asked <= f[m].asked
          /\ Given(f[m]) => ChangedAt(f[m].attrs[o], list[m].name, list[m].value, f[k].attrs[o])
      BY <3>1, <2>3, AttributeOps
    <3>3. OnlyAttrs(f[m], s, o) /\ s.asked <= f[m].asked
      BY <3>2, <2>2, <2>3 DEF OnlyAttrs
    <3>4. ASSUME NEW name, Given(f[m])
          PROVE  ValueOf(f[m].attrs[o], name) = IF \E i \in 1 .. m : list[i].name = name
                                                THEN ValueOf(list, name) ELSE ValueOf(s.attrs[o], name)
      <4>1. ValueOf(f[m].attrs[o], name)
              = IF name = list[m].name THEN list[m].value ELSE ValueOf(f[k].attrs[o], name)
        BY <3>2, <3>4 DEF ChangedAt
      <4>2. Given(f[k])
        BY <3>2, <3>4, <2>3 DEF Given
      <4> QED BY ONLY <4>1, <4>2, <2>2, <2>3, <2>4
    <3> QED BY <3>3, <3>4
  <2> QED BY <2>5, <2>6 DEF m
<1>8. \A k \in Nat : k \in S
  <2> HIDE DEF S
  <2> QED BY <1>6, <1>7, Induction
<1>9. At(N)
  BY <1>2, <1>8
<1>10. Given(f[N]) => \A name : ValueOf(f[N].attrs[o], name)
                   = IF ValueOf(list, name) # None THEN ValueOf(list, name) ELSE ValueOf(s.attrs[o], name)
  BY <1>5, <1>9
<1>11. ASSUME \A name \in Names : ValueOf(s.attrs[o], name) = ValueOf(list, name)
       PROVE  f[N] = s
  <2> DEFINE Z == {k \in Nat : k <= N => f[k] = s}
  <2>2. ASSUME NEW k \in Nat, k \in Z PROVE k + 1 \in Z
    <3>1. SUFFICES ASSUME k + 1 <= N PROVE f[k + 1] = s
      OBVIOUS
    <3>2. k + 1 \in 1 .. N /\ (k + 1) - 1 = k /\ k <= N
      BY <3>1, <1>2
    <3>3. f[k] = s /\ list[k + 1].name \in Names
      BY <3>2, <2>2, <1>2 DEF Attribute
    <3>4. ValueOf(f[k].attrs[o], list[k + 1].name) = list[k + 1].value
      BY <3>2, <3>3, <1>5, <1>11
    <3> QED BY <3>2, <3>3, <3>4, <1>3
  <2>3. 0 \in Z
    BY <1>3
  <2>4. \A k \in Nat : k \in Z
    <3> HIDE DEF Z
    <3> QED BY <2>2, <2>3, Induction
  <2> QED BY <2>4, <1>2
<1>12. StateOk(f[N]) /\ OnlyAttrs(f[N], s, o) /\ s.asked <= f[N].asked
  BY <1>2, <1>4, <1>9
<1>13. Given(f[N]) => Overlaid(f[N].attrs[o], s.attrs[n], s.attrs[o])
  BY <1>10 DEF list, Overlaid
<1> QED BY <1>1, <1>11, <1>12, <1>13 DEF list

----------------------------------------------------------------------------
(* The trees before the call.                                              *)
Parents == [Nodes -> Nodes \union {Null}]

LEMMA NodeFacts ==
  /\ MaxNode \in Nat /\ MaxNode >= 2 /\ Nodes \subseteq Int
  /\ \A n \in Nodes : n \in Nat /\ n > 0 /\ n < MaxNode + 1
  /\ Null \notin Nodes
  BY DomAssumption, DiffAssumption DEF Nodes, Null

LEMMA RootsAreNodes ==
  /\ Half \in Nat /\ Half >= 1 /\ Half < MaxNode
  /\ OldRoot \in Nodes /\ NewRoot \in Nodes /\ OldRoot # NewRoot
  /\ Nodes = (OldRoot .. Half) \union (NewRoot .. MaxNode)
  /\ (OldRoot .. Half) \intersect (NewRoot .. MaxNode) = {}
<1> DEFINE half == MaxNode \div 2
<1>1. half \in Int /\ 2 * half <= MaxNode /\ MaxNode < 2 * half + 2
  BY NodeFacts
<1> HIDE DEF half
<1>2. half \in Nat /\ half >= 1 /\ half < MaxNode
  BY <1>1, NodeFacts
<1> QED BY <1>2, NodeFacts DEF Half, half, OldRoot, NewRoot, Nodes

\* One tree beside the other.
LEMMA ShapesBeside ==
  ASSUME NEW a \in Shapes(OldRoot, Half), NEW b \in Shapes(NewRoot, MaxNode),
         NEW up, up = Beside(a, b)
  PROVE  /\ up \in Parents
         /\ \A n \in OldRoot .. Half : up[n] = a[n]
         /\ \A n \in NewRoot .. MaxNode : up[n] = b[n]
<1> DEFINE O == OldRoot .. Half
           N == NewRoot .. MaxNode
<1>1. /\ Nodes = O \union N /\ O \intersect N = {}
      /\ a \in [O -> {Null} \union O] /\ b \in [N -> {Null} \union N]
  BY RootsAreNodes DEF Shapes
<1>2. up = [n \in O \union N |-> IF n \in O THEN a[n] ELSE b[n]]
  <2>1. \A n \in Nodes : n <= Half <=> n \in O
    BY RootsAreNodes, NodeFacts DEF OldRoot, NewRoot
  <2>2. up = [n \in O \union N |-> IF n <= Half THEN a[n] ELSE b[n]]
    BY <1>1 DEF Beside
  <2> QED BY ONLY <2>1, <2>2, <1>1
<1> HIDE DEF O, N
<1>3. up \in Parents
  BY <1>1, <1>2 DEF Parents
<1>4. (\A n \in O : up[n] = a[n]) /\ \A n \in N : up[n] = b[n]
  BY <1>1, <1>2
<1> QED BY <1>3, <1>4 DEF O, N

\* f builds it child by child.
Builds(f, up) ==
  /\ f[0] = NoLinks
  /\ \A n \in Nodes : f[n] = IF up[n] = Null THEN f[n - 1] ELSE AppendChild(f[n - 1], up[n], n)

LEMMA NoLinksTyped == NoLinks \in Links
  BY DEF NoLinks, Links, Pointers

LEMMA AppendTyped ==
  ASSUME NEW h \in Links, NEW p \in Nodes, NEW c \in Nodes
  PROVE  AppendChild(h, p, c) \in Links
<1>1. /\ h.parent \in Pointers /\ h.first \in Pointers /\ h.last \in Pointers
      /\ h.next \in Pointers /\ h.prev \in Pointers /\ h.count \in [Nodes -> Int]
  BY LinksFields
<1>2. /\ Set(h.parent, c, p) \in Pointers /\ Set(h.first, p, c) \in Pointers
      /\ Set(h.last, p, c) \in Pointers /\ Set(h.next, h.last[p], c) \in Pointers
      /\ Set(h.prev, c, h.last[p]) \in Pointers
  BY <1>1 DEF Set, Pointers
<1>3. Set(h.count, p, h.count[p] + 1) \in [Nodes -> Int]
  BY <1>1 DEF Set
<1> QED BY <1>1, <1>2, <1>3 DEF AppendChild, Links

LEMMA BuiltInSteps ==
  ASSUME NEW up \in Parents
  PROVE  \E f \in [0 .. MaxNode -> Links] : Builds(f, up) /\ Built(up) = f[MaxNode]
<1> DEFINE More(n, h) == IF up[n] = Null THEN h ELSE AppendChild(h, up[n], n)
           step == [a \in Nat \X Links |-> IF a[1] \in Nodes THEN More(a[1], a[2]) ELSE NoLinks]
<1>1. MaxNode \in Nat /\ \A n \in 0 .. MaxNode : n # 0 <=> n \in Nodes
  BY NodeFacts DEF Nodes
<1>2. ASSUME NEW n \in Nodes, NEW h \in Links PROVE More(n, h) \in Links
  BY AppendTyped DEF Parents
<1>3. step \in [Nat \X Links -> Links]
  <2> HIDE DEF More
  <2> QED BY <1>2, NoLinksTyped
<1>4. PICK f \in [0 .. MaxNode -> Links] : Unrolls(f, MaxNode, NoLinks, step)
  <2> HIDE DEF step
  <2> QED BY <1>1, <1>3, NoLinksTyped, Unrolled
<1>5. ASSUME NEW n \in 0 .. MaxNode, n # 0 PROVE step[<<n, f[n - 1]>>] = More(n, f[n - 1])
  <2>1. n \in Nodes /\ n - 1 \in 0 .. MaxNode /\ n \in Nat
    BY <1>1, <1>5
  <2>2. <<n, f[n - 1]>> \in Nat \X Links
    BY <2>1, <1>4
  <2> HIDE DEF More
  <2> QED BY <2>1, <2>2
<1>6. f = [n \in 0 .. MaxNode |-> IF n = 0 THEN NoLinks ELSE step[<<n, f[n - 1]>>]]
  BY <1>4 DEF Unrolls
<1> HIDE DEF step
<1>7. f = [n \in 0 .. MaxNode |-> IF n = 0 THEN NoLinks ELSE More(n, f[n - 1])]
  BY ONLY <1>5, <1>6
<1> DEFINE e == CHOOSE g : g = [n \in 0 .. MaxNode |->
                                  IF n = 0 THEN NoLinks
                                  ELSE IF up[n] = Null THEN g[n - 1]
                                  ELSE AppendChild(g[n - 1], up[n], n)]
<1>8. e = [n \in 0 .. MaxNode |-> IF n = 0 THEN NoLinks ELSE More(n, e[n - 1])]
  BY ONLY <1>7
<1>9. Built(up) = e[MaxNode]
  BY DEF Built
<1> HIDE DEF e, More
<1> DEFINE S == {n \in Nat : n <= MaxNode => e[n] = f[n]}
<1>10. ASSUME NEW n \in Nat, n \in S PROVE n + 1 \in S
  <2>1. SUFFICES ASSUME n + 1 <= MaxNode PROVE e[n + 1] = f[n + 1]
    OBVIOUS
  <2>2. n + 1 \in 0 .. MaxNode /\ n + 1 # 0 /\ (n + 1) - 1 = n /\ n <= MaxNode
    BY <2>1, <1>1
  <2>3. e[n + 1] = More(n + 1, e[n]) /\ f[n + 1] = More(n + 1, f[n])
    BY ONLY <2>2, <1>7, <1>8
  <2> QED BY <2>2, <2>3, <1>10
<1>11. \A n \in Nat : n \in S
  <2>1. 0 \in S
    BY <1>1, <1>7, <1>8
  <2> HIDE DEF S
  <2> QED BY <2>1, <1>10, Induction
<1>12. e[MaxNode] = f[MaxNode]
  BY <1>1, <1>11
<1>13. \A n \in Nodes : n \in 0 .. MaxNode /\ n # 0
  BY NodeFacts DEF Nodes
<1>14. f[0] = NoLinks /\ \A n \in Nodes : f[n] = More(n, f[n - 1])
  BY ONLY <1>1, <1>7, <1>13
<1>15. Builds(f, up)
  BY <1>14 DEF Builds, More
<1> QED BY <1>4, <1>9, <1>12, <1>15

----------------------------------------------------------------------------
\* The calls under way.
Frames ==
  [old : Nodes, new : Nodes, oldChild : Nodes \union {Null}, newChild : Nodes \union {Null}]

\* What every step keeps: the state is typed and the patches tell of it.
DiffInv ==
  /\ Before \in Described
  /\ StateOk(State)
  /\ calls \in Seq(Frames)

LEMMA SaidTyped ==
  ASSUME NEW lists \in [Nodes -> Lists]
  PROVE  AttributeValues(lists) \in [Nodes -> [Names -> Worth]]
<1>1. ASSUME NEW n \in Nodes, NEW name \in Names PROVE ValueOf(lists[n], name) \in Worth
  <2>1. AttrsOk(lists[n])
    BY ListIs
  <2>2. CASE AttrAt(lists[n], name) = 0
    BY <2>2 DEF ValueOf, Worth, Texts
  <2>3. CASE AttrAt(lists[n], name) # 0
    <3>1. AttrAt(lists[n], name) \in DOMAIN lists[n]
      BY <2>1, <2>3, AttrAtFirst DEF AttrsOk
    <3>2. lists[n][AttrAt(lists[n], name)].value \in Values
      <4>1. lists[n] \in Seq(Attribute)
        BY <2>1 DEF AttrsOk
      <4>2. lists[n][AttrAt(lists[n], name)] \in Attribute
        BY <4>1, <3>1, ElementOfSeq
      <4> QED BY <4>2 DEF Attribute
    <3> QED BY <2>3, <3>2 DEF ValueOf, Worth
  <2> QED BY <2>2, <2>3
<1> QED BY <1>1 DEF AttributeValues

LEMMA ReplayedIsBy == Replayed = ReplayedBy(queue)
  BY DEF Replayed, ReplayedBy

LEMMA StateIs ==
  ASSUME NEW s, Become(s), s \in States
  PROVE  State' = s
<1>1. s = [links |-> s.links, attrs |-> s.attrs, text |-> s.text, queue |-> s.queue,
            asked |-> s.asked]
  BY StateParts
<1> QED BY <1>1 DEF Become, State

\* What one pair makes of the state.
LEMMA DiffOwnOk ==
  ASSUME NEW s, StateOk(s), NEW o \in Nodes, NEW n \in Nodes, Before \in Described
  PROVE  StateOk(DiffOwn(s, o, n))
<1>1. StateOk(DiffText(s, o, n))
  <2>1. s.text[n] \in Texts
    BY StateParts DEF StateOk
  <2> QED BY <2>1, ValueSetOk DEF DiffText
<1> DEFINE t == DiffText(s, o, n)
           d == Dropped(t, o, n)
<1> HIDE DEF t
<1>2. ASSUME NEW list \in Lists PROVE Len(list) \in 0 .. Len(list)
  BY ListIs DEF AttrsOk
<1>3. StateOk(d)
  <2>1. PICK f \in [0 .. Len(t.attrs[o]) -> OkStates] : d = f[Len(t.attrs[o])]
    BY <1>1, DropsInSteps DEF t
  <2>2. t.attrs[o] \in Lists
    BY <1>1, StateParts DEF StateOk, t
  <2>3. d \in OkStates
    BY ONLY <2>1, <2>2, <1>2
  <2> QED BY <2>3, OkState
<1> HIDE DEF d
<1>4. StateOk(Assigned(d, o, n))
  <2>1. PICK f \in [0 .. Len(d.attrs[n]) -> OkStates] : Assigned(d, o, n) = f[Len(d.attrs[n])]
    BY <1>3, AssignsInSteps
  <2>2. d.attrs[n] \in Lists
    BY <1>3, StateParts DEF StateOk
  <2>3. Assigned(d, o, n) \in OkStates
    BY ONLY <2>1, <2>2, <1>2
  <2> QED BY <2>3, OkState
<1> QED BY <1>4 DEF DiffOwn, t, d

LEMMA ReplacedOk ==
  ASSUME NEW s, StateOk(s), NEW o \in Nodes, NEW n \in Nodes, Before \in Described
  PROVE  StateOk(Replaced(s, o, n))
<1>1. s.links.parent[o] \in Nodes \union {Null}
  BY StateParts, LinksFields DEF StateOk, Pointers
<1> DEFINE w == Removed(s, s.links.parent[o], o)
<1>2. StateOk(w)
  BY <1>1, RemovedOk
<1> HIDE DEF w
<1>3. w.links.parent[o] \in Nodes \union {Null}
  BY <1>2, StateParts, LinksFields DEF StateOk, Pointers
<1>4. StateOk(Inserted(w, w.links.parent[o], n))
  BY <1>2, <1>3, InsertedOk
<1> QED BY <1>4 DEF Replaced, w

LEMMA CurrentTyped ==
  ASSUME calls \in Seq(Frames), calls # << >>, links \in Links
  PROVE  /\ Current \in Frames /\ Front(calls) \in Seq(Frames)
         /\ Current.old \in Nodes /\ Current.new \in Nodes
         /\ Current.oldChild \in Nodes \union {Null} /\ Current.newChild \in Nodes \union {Null}
         /\ Stepped \in Seq(Frames)
<1>1. Current \in Frames /\ Front(calls) \in Seq(Frames)
  BY LastOff DEF Current
<1>2. /\ Current.old \in Nodes /\ Current.new \in Nodes
      /\ Current.oldChild \in Nodes \union {Null} /\ Current.newChild \in Nodes \union {Null}
  BY <1>1 DEF Frames
<1>3. \A n \in Nodes \union {Null} : Sibling(n) \in Nodes \union {Null}
  BY LinksFields DEF Sibling, Pointers
<1> DEFINE e == Frame(Current.old, Current.new, Sibling(Current.oldChild), Sibling(Current.newChild))
<1>4. e \in Frames
  BY <1>2, <1>3 DEF Frame, Frames
<1> HIDE DEF e
<1>5. Append(Front(calls), e) \in Seq(Frames)
  BY <1>4, LastReplaced
<1> QED BY <1>1, <1>2, <1>5 DEF Stepped, e

LEMMA CompareKeeps ==
  ASSUME Before \in Described, StateOk(State), NEW o \in Nodes, NEW n \in Nodes,
         NEW callers \in Seq(Frames), Compare(o, n, callers)
  PROVE  StateOk(State') /\ calls' \in Seq(Frames)
<1>1. CASE kind[o] # kind[n]
  <2>1. Become(Replaced(State, o, n)) /\ calls' = callers
    BY <1>1 DEF Compare
  <2>2. StateOk(Replaced(State, o, n))
    BY ReplacedOk
  <2>3. State' = Replaced(State, o, n)
    BY <2>1, <2>2, StateIs DEF StateOk
  <2> QED BY <2>1, <2>2, <2>3
<1>2. CASE kind[o] = kind[n]
  <2> DEFINE e == Frame(o, n, links.first[o], links.first[n])
  <2>1. Become(DiffOwn(State, o, n)) /\ calls' = Append(callers, e)
    BY <1>2 DEF Compare
  <2>2. StateOk(DiffOwn(State, o, n))
    BY DiffOwnOk
  <2>3. State' = DiffOwn(State, o, n)
    BY <2>1, <2>2, StateIs DEF StateOk
  <2>4. links \in Links
    BY StateParts DEF StateOk, State
  <2>5. e \in Frames
    BY <2>4, LinksFields DEF Frame, Frames, Pointers
  <2> HIDE DEF e
  <2>6. calls' \in Seq(Frames)
    BY <2>1, <2>5, PutOn
  <2> QED BY <2>2, <2>3, <2>6
<1> QED BY <1>1, <1>2

LEMMA DiffInvInit == DiffInit => DiffInv
<1> SUFFICES ASSUME DiffInit PROVE DiffInv
  OBVIOUS
<1>1. PICK a \in Shapes(OldRoot, Half), b \in Shapes(NewRoot, MaxNode) : Planted(Beside(a, b))
  BY DEF DiffInit
<1> DEFINE up == Beside(a, b)
           inTree == InTree(up)
<1>2. PICK label \in [inTree -> Labels] :
             /\ links = Built(up)
             /\ text = [n \in Nodes |-> IF n \in inTree THEN label[n].text ELSE None]
             /\ attrs = [n \in Nodes |-> IF n \in inTree THEN label[n].attrs ELSE << >>]
  BY <1>1 DEF Planted
<1>3. links \in Links
  <2>1. up \in Parents
    BY ShapesBeside
  <2> HIDE DEF up
  <2>2. PICK f \in [0 .. MaxNode -> Links] : Built(up) = f[MaxNode]
    BY <2>1, BuiltInSteps
  <2> QED BY <1>2, <2>2, NodeFacts
<1>4. text \in [Nodes -> Texts]
  <2>1. \A n \in inTree : label[n].text \in Texts
    BY DEF Texts
  <2> HIDE DEF inTree
  <2> QED BY <2>1, <1>2 DEF Texts
<1>5. attrs \in [Nodes -> Lists]
  <2>1. << >> \in Lists
    <3>1. << >> \in Seq(Attribute) /\ DOMAIN << >> = {}
      OBVIOUS
    <3> QED BY ONLY <3>1 DEF Lists, AttrsOk
  <2>2. \A l \in Labels : l.attrs \in Lists
    BY DiffAssumption, ListIs DEF AttrsOk, Attribute
  <2> HIDE DEF inTree
  <2> QED BY <2>1, <2>2, <1>2
<1>6. /\ queue = << >> /\ calls = << >> /\ asked = 0
      /\ start = [links |-> links, attrs |-> attrs, text |-> text]
  BY DEF DiffInit
<1>7. Before \in Described
  <2>1. links.parent \in Pointers /\ AttributeValues(attrs) \in [Nodes -> [Names -> Worth]]
        /\ text \in [Nodes -> Worth]
    BY <1>3, <1>4, <1>5, LinksFields, SaidTyped DEF Worth
  <2> QED BY <2>1, <1>6 DEF Before, Described
<1>8. StateOk(State)
  <2>1. State \in States /\ State.queue = << >>
    BY <1>3, <1>4, <1>5, <1>6 DEF State, States
  <2>2. ReplayedBy(<< >>) = Before
    <3>1. << >> \in Seq(Patches) /\ Len(<< >>) = 0
      OBVIOUS
    <3>2. PICK f \in [0 .. Len(<< >>) -> Described] : Follows(f, << >>) /\ ReplayedBy(<< >>) = f[Len(<< >>)]
      BY ONLY <3>1, <1>7, ReplayUnrolled
    <3> QED BY ONLY <3>1, <3>2 DEF Follows
  <2>3. Before = Told(State)
    BY <1>6 DEF Before, Told, State
  <2>4. Len(<< >>) = 0 /\ QueueCapacity \in Nat
    BY DomAssumption
  <2> QED BY <2>1, <2>2, <2>3, <2>4 DEF StateOk
<1>9. calls \in Seq(Frames)
  BY <1>6
<1> QED BY <1>7, <1>8, <1>9 DEF DiffInv

LEMMA DiffInvStep == DiffInv /\ [DiffNext]_diffVars => DiffInv'
<1> SUFFICES ASSUME DiffInv, [DiffNext]_diffVars PROVE DiffInv'
  OBVIOUS
<1>1. /\ Before \in Described /\ StateOk(State) /\ calls \in Seq(Frames) /\ links \in Links
  BY StateParts DEF DiffInv, StateOk, State
<1>2. ASSUME start' = start PROVE Before' = Before
  BY <1>2 DEF Before
<1>3. \A s : StateOk(s) /\ start' = start => StateOk(s)'
  BY DEF StateOk, ReplayedBy, Told
<1> DEFINE Good == start' = start /\ StateOk(State') /\ calls' \in Seq(Frames)
<1>4. SUFFICES Good
  BY <1>1, <1>2, <1>3 DEF DiffInv
<1>5. CASE DiffTrees
  BY <1>1, <1>5, CompareKeeps, RootsAreNodes DEF DiffTrees
<1>6. CASE DiffChildren
  <2>1. Current.oldChild \in Nodes /\ Current.newChild \in Nodes /\ Stepped \in Seq(Frames)
    BY <1>1, <1>6, CurrentTyped DEF DiffChildren
  <2> QED BY <2>1, <1>1, <1>6, CompareKeeps DEF DiffChildren
<1>7. CASE RemoveRest
  <2>1. Current.old \in Nodes /\ Current.oldChild \in Nodes /\ Stepped \in Seq(Frames)
    BY <1>1, <1>7, CurrentTyped DEF RemoveRest
  <2>2. StateOk(Removed(State, Current.old, Current.oldChild))
    BY <2>1, <1>1, RemovedOk
  <2>3. State' = Removed(State, Current.old, Current.oldChild)
    BY <2>2, <1>7, StateIs DEF RemoveRest, StateOk
  <2> QED BY <2>1, <2>2, <2>3, <1>7 DEF RemoveRest
<1>8. CASE InsertRest
  <2>1. Current.old \in Nodes /\ Current.newChild \in Nodes /\ Stepped \in Seq(Frames)
    BY <1>1, <1>8, CurrentTyped DEF InsertRest
  <2>2. StateOk(Inserted(State, Current.old, Current.newChild))
    BY <2>1, <1>1, InsertedOk
  <2>3. State' = Inserted(State, Current.old, Current.newChild)
    BY <2>2, <1>8, StateIs DEF InsertRest, StateOk
  <2> QED BY <2>1, <2>2, <2>3, <1>8 DEF InsertRest
<1>9. CASE Return
  <2>1. State' = State /\ start' = start
    BY <1>9 DEF Return, vars, State
  <2>2. calls' \in Seq(Frames)
    BY <1>1, <1>9, CurrentTyped DEF Return
  <2> QED BY <2>1, <2>2, <1>1
<1>10. CASE UNCHANGED diffVars
  BY <1>1, <1>10 DEF diffVars, vars, State
<1> QED BY <1>5, <1>6, <1>7, <1>8, <1>9, <1>10 DEF DiffNext

\* The patches, applied to what was there, tell of every state of the call.
THEOREM PatchesReplayAlways == DiffSpec => []PatchesReplay
<1>1. DiffInv => PatchesReplay
  <2> SUFFICES ASSUME DiffInv, Len(queue) < QueueCapacity
               PROVE  Replayed = [parent |-> links.parent, text |-> text, value |-> AttributeValues(attrs)]
    BY DEF PatchesReplay
  <2>1. ReplayedBy(queue) = Told(State)
    BY DEF DiffInv, StateOk, State
  <2> QED BY <2>1, ReplayedIsBy DEF Told, State
<1> QED BY <1>1, DiffInvInit, DiffInvStep, PTL DEF DiffSpec

----------------------------------------------------------------------------
(* A list in the middle of the call: s hangs below p, linked both ways, and *)
(* its last node says that e follows.                                       *)
Held(h, p, s, e) ==
  /\ s \in Seq(Nodes)
  /\ \A i, j \in 1 .. Len(s) : s[i] = s[j] => i = j
  /\ h.first[p] = IF Len(s) = 0 THEN Null ELSE s[1]
  /\ h.last[p] = IF Len(s) = 0 THEN Null ELSE s[Len(s)]
  /\ h.count[p] = Len(s)
  /\ \A i \in 1 .. Len(s) : /\ h.parent[s[i]] = p
                            /\ h.next[s[i]] = IF i = Len(s) THEN e ELSE s[i + 1]
                            /\ h.prev[s[i]] = IF i = 1 THEN Null ELSE s[i - 1]
  /\ \A c \in Nodes : h.parent[c] = p => \E i \in 1 .. Len(s) : s[i] = c

LEMMA HeldFacts ==
  ASSUME NEW h, NEW p, NEW s, NEW e, Held(h, p, s, e)
  PROVE  /\ s \in Seq(Nodes) /\ Len(s) \in Nat /\ DOMAIN s = 1 .. Len(s)
         /\ \A i \in 1 .. Len(s) : s[i] \in Nodes
  BY ElementOfSeq DEF Held

LEMMA HeldIsList ==
  ASSUME NEW h \in Links, NEW p \in Nodes, NEW s, Held(h, p, s, Null)
  PROVE  ListOf(h, p, s) /\ Kids(h, p) = s
<1>1. ListOf(h, p, s)
  BY DEF Held, ListOf
<1> QED BY <1>1, KidsAreList

\* Outside the call every list is.
LEMMA ListIsHeld ==
  ASSUME NEW h \in Links, Linked(h), Counted(h), NEW p \in Nodes, NEW s, ListOf(h, p, s)
  PROVE  Held(h, p, s, Null)
<1> DEFINE n == Len(s)
<1>1. /\ s \in Seq(Nodes) /\ n \in Nat /\ DOMAIN s = 1 .. n /\ \A i \in 1 .. n : s[i] \in Nodes
  BY ListFacts DEF ListOf
<1>2. \A i \in 1 .. n : /\ h.prev[s[i]] = IF i = 1 THEN Null ELSE s[i - 1]
                        /\ h.next[s[i]] = IF i = n THEN Null ELSE s[i + 1]
                        /\ h.parent[s[i]] = p
  BY InList
<1>3. h.last[p] = IF n = 0 THEN Null ELSE s[n]
  <2>1. h.first[p] = IF n = 0 THEN Null ELSE s[1]
    BY DEF ListOf
  <2>2. CASE n = 0
    BY <2>1, <2>2 DEF Linked
  <2>3. CASE n # 0
    <3>1. n \in 1 .. n /\ s[n] \in Nodes
      BY <1>1, <2>3
    <3>2. h.next[s[n]] = Null /\ h.parent[s[n]] = p /\ p # Null
      BY <3>1, <1>2, NullIsNoNode
    <3> QED BY <3>1, <3>2, <2>3 DEF Linked
  <2> QED BY <2>2, <2>3
<1>4. h.count[p] = n
  <2> DEFINE T == Children(h, p)
  <2>1. /\ \A i \in 1 .. n : s[i] \in T
        /\ \A i, j \in 1 .. n : s[i] = s[j] => i = j
        /\ \A c \in T : \E i \in 1 .. n : s[i] = c
    BY <1>1 DEF ListOf, Children
  <2>2. IsFiniteSet(T) /\ Cardinality(T) \in Nat
    BY ChildrenFinite
  <2> HIDE DEF T
  <2>3. Cardinality(T) <= n
    BY <1>1, <2>1, Enumerated
  <2>4. Cardinality(1 .. n) <= Cardinality(T)
    BY <2>1, <2>2, Injected
  <2>5. Cardinality(1 .. n) = n
    BY <1>1, UpTo
  <2>6. h.count[p] = Cardinality(T)
    BY DEF Counted, T
  <2> QED BY <2>2, <2>3, <2>4, <2>5, <2>6, <1>1
<1> QED BY <1>1, <1>2, <1>3, <1>4 DEF ListOf, Held

\* A node is put last, wherever it hung; what it says follows it stays.
LEMMA AppendHeld ==
  ASSUME NEW h \in Links, NEW p \in Nodes, NEW c \in Nodes, NEW s, NEW e, Held(h, p, s, e),
         \A i \in 1 .. Len(s) : s[i] # c,
         Len(s) = 0 => h.prev[c] = Null
  PROVE  Held(AppendChild(h, p, c), p, Append(s, c), h.next[c])
<1> DEFINE g == AppendChild(h, p, c)
           t == Append(s, c)
           n == Len(s)
<1>1. /\ h.parent \in Pointers /\ h.first \in Pointers /\ h.last \in Pointers
      /\ h.next \in Pointers /\ h.prev \in Pointers /\ h.count \in [Nodes -> Int]
  BY LinksFields
<1>2. /\ s \in Seq(Nodes) /\ n \in Nat /\ \A i \in 1 .. n : s[i] \in Nodes /\ s[i] # c
      /\ n # 0 => n \in 1 .. n /\ 1 \in 1 .. n
  BY HeldFacts
<1>3. /\ t \in Seq(Nodes) /\ Len(t) = n + 1
      /\ (\A i \in 1 .. n : t[i] = s[i]) /\ t[n + 1] = c
  BY <1>2, AppendProperties
<1>4. /\ h.first[p] = Null <=> n = 0
      /\ n # 0 => h.last[p] = s[n] /\ s[n] \in Nodes /\ s[n] # c
      /\ h.count[p] = n
      /\ n = 0 => h.prev[c] = Null
  BY <1>2, NullIsNoNode DEF Held
<1>5. /\ \A m \in Nodes : g.parent[m] = IF m = c THEN p ELSE h.parent[m]
      /\ g.first[p] = IF n = 0 THEN c ELSE h.first[p]
      /\ g.last[p] = c
      /\ g.count[p] = n + 1
      /\ \A m \in Nodes : g.next[m] = IF n # 0 /\ m = s[n] THEN c ELSE h.next[m]
      /\ \A m \in Nodes : g.prev[m] = IF n # 0 /\ m = c THEN s[n] ELSE h.prev[m]
  <2>1. /\ g.parent = [h.parent EXCEPT ![c] = p]
        /\ g.first = IF n = 0 THEN [h.first EXCEPT ![p] = c] ELSE h.first
        /\ g.last = [h.last EXCEPT ![p] = c]
        /\ g.count = [h.count EXCEPT ![p] = h.count[p] + 1]
        /\ g.next = IF n = 0 THEN h.next ELSE [h.next EXCEPT ![s[n]] = c]
        /\ g.prev = IF n = 0 THEN h.prev ELSE [h.prev EXCEPT ![c] = s[n]]
    BY <1>4 DEF AppendChild, Set
  <2> HIDE DEF g, n
  <2> QED BY <2>1, <1>1, <1>4 DEF Pointers
<1> HIDE DEF g, t, n
<1>6. ASSUME NEW i \in 1 .. n
      PROVE  /\ t[i] = s[i] /\ s[i] \in Nodes /\ s[i] # c /\ n # 0 /\ n \in 1 .. n
             /\ h.parent[s[i]] = p
             /\ h.next[s[i]] = IF i = n THEN e ELSE s[i + 1]
             /\ h.prev[s[i]] = IF i = 1 THEN Null ELSE s[i - 1]
             /\ s[i] = s[n] <=> i = n
  <2>1. n # 0 /\ n \in 1 .. n
    BY <1>2
  <2> QED BY <2>1, <1>2, <1>3 DEF Held, n
<1>7. ASSUME NEW i \in 1 .. n + 1
      PROVE  /\ g.parent[t[i]] = p
             /\ g.next[t[i]] = IF i = n + 1 THEN h.next[c] ELSE t[i + 1]
             /\ g.prev[t[i]] = IF i = 1 THEN Null ELSE t[i - 1]
  <2>1. CASE i = n + 1
    <3>1. t[i] = c /\ (n # 0 => i - 1 = n /\ t[n] = s[n] /\ s[n] # c) /\ (n = 0 <=> i = 1)
      BY <2>1, <1>2, <1>3
    <3>2. g.parent[c] = p /\ g.next[c] = h.next[c] /\ g.prev[c] = IF n = 0 THEN Null ELSE s[n]
      BY <3>1, <1>4, <1>5
    <3> QED BY <3>1, <3>2, <2>1
  <2>2. CASE i \in 1 .. n
    <3>1. i # n + 1 /\ (i # n => i + 1 \in 1 .. n) /\ (i # 1 => i - 1 \in 1 .. n)
      BY <2>2, <1>2
    <3>2. /\ t[i] = s[i] /\ t[i + 1] = IF i = n THEN c ELSE s[i + 1]
          /\ i # 1 => t[i - 1] = s[i - 1]
      BY <3>1, <2>2, <1>3
    <3> QED BY ONLY <3>1, <3>2, <2>2, <1>5, <1>6
  <2> QED BY <2>1, <2>2, <1>2
<1>8. ASSUME NEW i \in 1 .. n + 1, NEW j \in 1 .. n + 1, t[i] = t[j] PROVE i = j
  <2>1. (i = n + 1 \/ i \in 1 .. n) /\ (j = n + 1 \/ j \in 1 .. n)
    BY <1>2
  <2>2. i \in 1 .. n /\ j \in 1 .. n => i = j
    BY <1>3, <1>8 DEF Held, n
  <2> QED BY <2>1, <2>2, <1>2, <1>3, <1>8
<1>9. g.first[p] = t[1] /\ g.last[p] = t[n + 1] /\ g.count[p] = n + 1
  <2>1. n # 0 => h.first[p] = s[1] /\ t[1] = s[1]
    BY <1>2, <1>3 DEF Held, n
  <2>2. n = 0 => t[1] = c
    BY <1>3
  <2> QED BY <2>1, <2>2, <1>3, <1>5
<1>10. ASSUME NEW m \in Nodes, g.parent[m] = p PROVE \E i \in 1 .. n + 1 : t[i] = m
  <2>1. CASE m = c
    <3>1. n + 1 \in 1 .. n + 1
      BY <1>2
    <3> QED BY <3>1, <2>1, <1>3
  <2>2. CASE m # c
    <3>1. PICK i \in 1 .. n : s[i] = m
      BY <2>2, <1>5, <1>10 DEF Held, n
    <3>2. i \in 1 .. n + 1
      BY <1>2
    <3> QED BY <3>1, <3>2, <1>3
  <2> QED BY <2>1, <2>2
<1>11. n + 1 # 0
  BY <1>2
<1>12. Held(g, p, t, h.next[c])
  BY ONLY <1>3, <1>7, <1>8, <1>9, <1>10, <1>11 DEF Held
<1> QED BY <1>12 DEF g, t

\* One is taken out.
LEMMA UnlinkHeld ==
  ASSUME NEW h \in Links, NEW p \in Nodes, NEW s, Held(h, p, s, Null), NEW k \in 1 .. Len(s)
  PROVE  Held(UnlinkChild(h, p, s[k]), p, RemoveAt(s, k), Null)
<1> DEFINE c == s[k]
           g == UnlinkChild(h, p, c)
           t == RemoveAt(s, k)
           n == Len(s)
<1>1. /\ h.parent \in Pointers /\ h.first \in Pointers /\ h.last \in Pointers
      /\ h.next \in Pointers /\ h.prev \in Pointers /\ h.count \in [Nodes -> Int]
  BY LinksFields
<1>2. /\ s \in Seq(Nodes) /\ n \in Nat /\ k \in Nat /\ 1 <= k /\ k <= n
      /\ \A i \in 1 .. n : s[i] \in Nodes /\ s[i] # Null
  BY HeldFacts, NullIsNoNode
<1>3. /\ t \in Seq(Nodes) /\ Len(t) = n - 1
      /\ \A i \in 1 .. n - 1 : t[i] = IF i < k THEN s[i] ELSE s[i + 1]
  BY <1>2, TakenOut
<1>4. /\ \A i \in 1 .. n : /\ h.parent[s[i]] = p
                           /\ h.next[s[i]] = IF i = n THEN Null ELSE s[i + 1]
                           /\ h.prev[s[i]] = IF i = 1 THEN Null ELSE s[i - 1]
      /\ \A i, j \in 1 .. n : s[i] = s[j] => i = j
      /\ h.first[p] = s[1] /\ h.last[p] = s[n] /\ h.count[p] = n
      /\ \A m \in Nodes : h.parent[m] = p => \E i \in 1 .. n : s[i] = m
  BY <1>2 DEF Held
<1>5. /\ k # 1 => k - 1 \in 1 .. n
      /\ k # n => k + 1 \in 1 .. n
      /\ k \in 1 .. n
  BY <1>2
<1>6. /\ \A m \in Nodes : g.parent[m] = IF m = c THEN Null ELSE h.parent[m]
      /\ g.first[p] = IF k # 1 THEN s[1] ELSE IF k = n THEN Null ELSE s[k + 1]
      /\ g.last[p] = IF k # n THEN s[n] ELSE IF k = 1 THEN Null ELSE s[k - 1]
      /\ g.count[p] = n - 1
      /\ \A m \in Nodes : m # c => g.next[m] = IF k # 1 /\ m = s[k - 1]
                                              THEN (IF k = n THEN Null ELSE s[k + 1]) ELSE h.next[m]
      /\ \A m \in Nodes : m # c => g.prev[m] = IF k # n /\ m = s[k + 1]
                                              THEN (IF k = 1 THEN Null ELSE s[k - 1]) ELSE h.prev[m]
  <2> DEFINE b == h.prev[c]
             a == h.next[c]
  <2>1. /\ c \in Nodes
        /\ a = IF k = n THEN Null ELSE s[k + 1]
        /\ b = IF k = 1 THEN Null ELSE s[k - 1]
    BY <1>2, <1>4, <1>5
  <2>2. /\ b = Null <=> k = 1
        /\ a = Null <=> k = n
        /\ a \in Nodes \union {Null} /\ b \in Nodes \union {Null}
    BY <2>1, <1>2, <1>5
  <2>3. /\ g.parent = [h.parent EXCEPT ![c] = Null]
        /\ g.first = IF b = Null THEN [h.first EXCEPT ![p] = a] ELSE h.first
        /\ g.last = IF a = Null THEN [h.last EXCEPT ![p] = b] ELSE h.last
        /\ g.next = [(IF b = Null THEN h.next ELSE [h.next EXCEPT ![b] = a]) EXCEPT ![c] = Null]
        /\ g.prev = [(IF a = Null THEN h.prev ELSE [h.prev EXCEPT ![a] = b]) EXCEPT ![c] = Null]
        /\ g.count = [h.count EXCEPT ![p] = h.count[p] - 1]
    BY DEF UnlinkChild, Set
  <2> HIDE DEF a, b, c, g, n
  <2>4. /\ g.parent \in [Nodes -> Nodes \union {Null}]
        /\ \A m \in Nodes : g.parent[m] = IF m = c THEN Null ELSE h.parent[m]
        /\ g.first[p] = IF b = Null THEN a ELSE h.first[p]
        /\ g.last[p] = IF a = Null THEN b ELSE h.last[p]
        /\ g.count[p] = h.count[p] - 1
    BY <2>1, <2>2, <2>3, <1>1 DEF Pointers
  <2>5. \A m \in Nodes : m # c => g.next[m] = IF b # Null /\ m = b THEN a ELSE h.next[m]
    BY <2>1, <2>2, <2>3, <1>1 DEF Pointers
  <2>6. \A m \in Nodes : m # c => g.prev[m] = IF a # Null /\ m = a THEN b ELSE h.prev[m]
    BY <2>1, <2>2, <2>3, <1>1 DEF Pointers
  <2> QED BY ONLY <2>1, <2>2, <2>4, <2>5, <2>6, <1>4
<1> HIDE DEF g, t, n
<1>7. c = s[k]
  OBVIOUS
<1> HIDE DEF c
<1> DEFINE at(i) == IF i < k THEN i ELSE i + 1
<1>8. ASSUME NEW i \in 1 .. n - 1
      PROVE  /\ at(i) \in 1 .. n /\ at(i) # k /\ t[i] = s[at(i)] /\ s[at(i)] # c /\ s[at(i)] \in Nodes
  <2>1. at(i) \in 1 .. n /\ at(i) # k /\ t[i] = s[at(i)]
    BY <1>2, <1>3
  <2> HIDE DEF at
  <2>2. s[at(i)] # c
    BY <2>1, <1>4, <1>5, <1>7
  <2> QED BY <2>1, <2>2, <1>2
<1>a. ASSUME NEW j \in 1 .. n, s[j] # c, s[j] \in Nodes
      PROVE  /\ g.parent[s[j]] = p
             /\ g.next[s[j]] = IF k # 1 /\ s[j] = s[k - 1] THEN (IF k = n THEN Null ELSE s[k + 1])
                              ELSE IF j = n THEN Null ELSE s[j + 1]
             /\ g.prev[s[j]] = IF k # n /\ s[j] = s[k + 1] THEN (IF k = 1 THEN Null ELSE s[k - 1])
                              ELSE IF j = 1 THEN Null ELSE s[j - 1]
  BY ONLY <1>4, <1>6, <1>a
<1>9. ASSUME NEW i \in 1 .. n - 1 PROVE g.parent[t[i]] = p
  <2> HIDE DEF at
  <2>1. at(i) \in 1 .. n /\ s[at(i)] # c /\ s[at(i)] \in Nodes /\ t[i] = s[at(i)]
    BY ONLY <1>8, i \in 1 .. n - 1
  <2> QED BY ONLY <2>1, <1>a
<1>10. ASSUME NEW i \in 1 .. n - 1 PROVE g.next[t[i]] = IF i = n - 1 THEN Null ELSE t[i + 1]
  <2>1. g.next[s[at(i)]] = IF k # 1 /\ s[at(i)] = s[k - 1]
                           THEN (IF k = n THEN Null ELSE s[k + 1])
                           ELSE IF at(i) = n THEN Null ELSE s[at(i) + 1]
    <3> HIDE DEF at
    <3>1. at(i) \in 1 .. n /\ s[at(i)] # c /\ s[at(i)] \in Nodes
      BY ONLY <1>8, i \in 1 .. n - 1
    <3> QED BY ONLY <3>1, <1>a
  <2>2. k # 1 => (s[at(i)] = s[k - 1] <=> at(i) = k - 1)
    <3> HIDE DEF at
    <3> QED BY <1>4, <1>5, <1>8
  <2>3. i # n - 1 => i + 1 \in 1 .. n - 1 /\ t[i + 1] = s[at(i + 1)]
    <3>1. i # n - 1 => i + 1 \in 1 .. n - 1
      BY <1>2
    <3> HIDE DEF at
    <3> QED BY <3>1, <1>8
  <2>4. CASE i = k - 1
    <3>1. at(i) = k - 1 /\ k # 1 /\ at(i + 1) = k + 1 /\ (k = n <=> i = n - 1)
      BY <2>4, <1>2
    <3> HIDE DEF at
    <3> QED BY <3>1, <2>1, <2>2, <2>3, <1>8
  <2>5. CASE i # k - 1
    <3>1. at(i) # k - 1 /\ at(i + 1) = at(i) + 1 /\ (at(i) = n <=> i = n - 1)
      BY <2>5, <1>2
    <3> HIDE DEF at
    <3> QED BY <3>1, <2>1, <2>2, <2>3, <1>8
  <2> QED BY <2>4, <2>5
<1>11. ASSUME NEW i \in 1 .. n - 1 PROVE g.prev[t[i]] = IF i = 1 THEN Null ELSE t[i - 1]
  <2>1. g.prev[s[at(i)]] = IF k # n /\ s[at(i)] = s[k + 1]
                           THEN (IF k = 1 THEN Null ELSE s[k - 1])
                           ELSE IF at(i) = 1 THEN Null ELSE s[at(i) - 1]
    <3> HIDE DEF at
    <3>1. at(i) \in 1 .. n /\ s[at(i)] # c /\ s[at(i)] \in Nodes
      BY ONLY <1>8, i \in 1 .. n - 1
    <3> QED BY ONLY <3>1, <1>a
  <2>2. k # n => (s[at(i)] = s[k + 1] <=> at(i) = k + 1)
    <3> HIDE DEF at
    <3> QED BY <1>4, <1>5, <1>8
  <2>3. i # 1 => i - 1 \in 1 .. n - 1 /\ t[i - 1] = s[at(i - 1)]
    <3>1. i # 1 => i - 1 \in 1 .. n - 1
      BY <1>2
    <3> HIDE DEF at
    <3> QED BY <3>1, <1>8
  <2>4. CASE i = k
    <3>1. at(i) = k + 1 /\ k # n /\ (i # 1 => at(i - 1) = k - 1)
      BY <2>4, <1>2
    <3> HIDE DEF at
    <3> QED BY <3>1, <2>1, <2>2, <2>3, <2>4, <1>8
  <2>5. CASE i # k
    <3>1. at(i) # k + 1 /\ (i # 1 => at(i - 1) = at(i) - 1) /\ (at(i) = 1 <=> i = 1)
      BY <2>5, <1>2
    <3> HIDE DEF at
    <3> QED BY <3>1, <2>1, <2>2, <2>3, <1>8
  <2> QED BY <2>4, <2>5
<1>12. /\ g.first[p] = IF n - 1 = 0 THEN Null ELSE t[1]
       /\ g.last[p] = IF n - 1 = 0 THEN Null ELSE t[n - 1]
       /\ g.count[p] = n - 1
  <2>1. n - 1 # 0 => 1 \in 1 .. n - 1 /\ n - 1 \in 1 .. n - 1
    BY <1>2
  <2>2. n - 1 # 0 => t[1] = s[IF k = 1 THEN 2 ELSE 1] /\ t[n - 1] = s[IF k = n THEN n - 1 ELSE n]
    BY <2>1, <1>2, <1>3
  <2> QED BY <2>2, <1>2, <1>6
<1>13. ASSUME NEW i \in 1 .. n - 1, NEW j \in 1 .. n - 1, t[i] = t[j] PROVE i = j
  <2>1. at(i) = at(j)
    <3> HIDE DEF at
    <3> QED BY <1>4, <1>8, <1>13
  <2> QED BY <2>1, <1>2
<1>14. ASSUME NEW m \in Nodes, g.parent[m] = p PROVE \E i \in 1 .. n - 1 : t[i] = m
  <2>1. m # c /\ h.parent[m] = p
    BY <1>6, <1>14, NullIsNoNode
  <2>2. PICK i \in 1 .. n : s[i] = m
    BY <2>1, <1>4
  <2>3. i # k
    BY <2>1, <2>2, <1>7
  <2>4. CASE i < k
    <3>1. i \in 1 .. n - 1 /\ t[i] = s[i]
      BY <2>4, <1>2, <1>3
    <3> QED BY <3>1, <2>2
  <2>5. CASE ~ (i < k)
    <3>1. i - 1 \in 1 .. n - 1 /\ ~ (i - 1 < k) /\ (i - 1) + 1 = i
      BY <2>3, <2>5, <1>2
    <3>2. t[i - 1] = s[i]
      BY <3>1, <1>3
    <3> QED BY <3>1, <3>2, <2>2
  <2> QED BY <2>4, <2>5
<1>15. Held(g, p, t, Null)
  BY ONLY <1>3, <1>9, <1>10, <1>11, <1>12, <1>13, <1>14 DEF Held
<1> QED BY <1>15 DEF g, t, c

\* What both operations leave alone.
LEMMA AppendLeaves ==
  ASSUME NEW h \in Links, NEW p \in Nodes, NEW c \in Nodes, NEW s, NEW e, Held(h, p, s, e),
         NEW g, g = AppendChild(h, p, c)
  PROVE  /\ g \in Links
         /\ \A q \in Nodes : q # p => /\ g.first[q] = h.first[q] /\ g.last[q] = h.last[q]
                                      /\ g.count[q] = h.count[q]
         /\ \A x \in Nodes : x # c /\ h.parent[x] # p =>
              /\ g.parent[x] = h.parent[x] /\ g.next[x] = h.next[x] /\ g.prev[x] = h.prev[x]
         /\ \A x \in Nodes : g.parent[x] = IF x = c THEN p ELSE h.parent[x]
<1>1. /\ h.parent \in Pointers /\ h.first \in Pointers /\ h.last \in Pointers
      /\ h.next \in Pointers /\ h.prev \in Pointers /\ h.count \in [Nodes -> Int]
  BY LinksFields
<1>2. h.first[p] # Null => h.last[p] \in Nodes /\ h.parent[h.last[p]] = p
  <2>1. CASE Len(s) = 0
    BY <2>1 DEF Held
  <2>2. CASE Len(s) # 0
    <3>1. Len(s) \in 1 .. Len(s) /\ s[Len(s)] \in Nodes
      BY <2>2, HeldFacts
    <3> QED BY <3>1, <2>2 DEF Held
  <2> QED BY <2>1, <2>2
<1>3. g \in Links
  BY AppendTyped
<1>4. /\ g.parent = [h.parent EXCEPT ![c] = p]
      /\ g.first = IF h.first[p] = Null THEN [h.first EXCEPT ![p] = c] ELSE h.first
      /\ g.last = [h.last EXCEPT ![p] = c]
      /\ g.count = [h.count EXCEPT ![p] = h.count[p] + 1]
      /\ g.next = IF h.first[p] = Null THEN h.next ELSE [h.next EXCEPT ![h.last[p]] = c]
      /\ g.prev = IF h.first[p] = Null THEN h.prev ELSE [h.prev EXCEPT ![c] = h.last[p]]
  BY DEF AppendChild, Set
<1>5. \A q \in Nodes : q # p => /\ g.first[q] = h.first[q] /\ g.last[q] = h.last[q]
                                /\ g.count[q] = h.count[q]
  BY <1>1, <1>4 DEF Pointers
<1>6. ASSUME NEW x \in Nodes, x # c, h.parent[x] # p
      PROVE  g.parent[x] = h.parent[x] /\ g.next[x] = h.next[x] /\ g.prev[x] = h.prev[x]
  BY <1>1, <1>2, <1>4, <1>6 DEF Pointers
<1>7. \A x \in Nodes : g.parent[x] = IF x = c THEN p ELSE h.parent[x]
  BY <1>1, <1>4 DEF Pointers
<1> QED BY <1>3, <1>5, <1>6, <1>7

LEMMA UnlinkLeaves ==
  ASSUME NEW h \in Links, NEW p \in Nodes, NEW s, Held(h, p, s, Null), NEW k \in 1 .. Len(s),
         NEW g, g = UnlinkChild(h, p, s[k])
  PROVE  /\ g \in Links
         /\ \A q \in Nodes : q # p => /\ g.first[q] = h.first[q] /\ g.last[q] = h.last[q]
                                      /\ g.count[q] = h.count[q]
         /\ \A x \in Nodes : h.parent[x] # p =>
              /\ g.parent[x] = h.parent[x] /\ g.next[x] = h.next[x] /\ g.prev[x] = h.prev[x]
         /\ \A x \in Nodes : g.parent[x] = IF x = s[k] THEN Null ELSE h.parent[x]
<1> DEFINE c == s[k]
           a == h.next[c]
           b == h.prev[c]
<1>1. /\ h.parent \in Pointers /\ h.first \in Pointers /\ h.last \in Pointers
      /\ h.next \in Pointers /\ h.prev \in Pointers /\ h.count \in [Nodes -> Int]
  BY LinksFields
<1>2. /\ c \in Nodes /\ h.parent[c] = p
      /\ a # Null => a \in Nodes /\ h.parent[a] = p
      /\ b # Null => b \in Nodes /\ h.parent[b] = p
  <2>1. Len(s) \in Nat /\ \A i \in 1 .. Len(s) : s[i] \in Nodes
    BY HeldFacts
  <2>2. (k # Len(s) => k + 1 \in 1 .. Len(s)) /\ (k # 1 => k - 1 \in 1 .. Len(s))
    BY <2>1
  <2>3. /\ a = IF k = Len(s) THEN Null ELSE s[k + 1]
        /\ b = IF k = 1 THEN Null ELSE s[k - 1]
        /\ \A i \in 1 .. Len(s) : h.parent[s[i]] = p
    BY DEF Held
  <2> HIDE DEF a, b
  <2> QED BY <2>1, <2>2, <2>3
<1>3. g = UnlinkChild(h, p, c)
  OBVIOUS
<1>4. /\ g.parent = [h.parent EXCEPT ![c] = Null]
      /\ g.first = IF b = Null THEN [h.first EXCEPT ![p] = a] ELSE h.first
      /\ g.last = IF a = Null THEN [h.last EXCEPT ![p] = b] ELSE h.last
      /\ g.next = [(IF b = Null THEN h.next ELSE [h.next EXCEPT ![b] = a]) EXCEPT ![c] = Null]
      /\ g.prev = [(IF a = Null THEN h.prev ELSE [h.prev EXCEPT ![a] = b]) EXCEPT ![c] = Null]
      /\ g.count = [h.count EXCEPT ![p] = h.count[p] - 1]
      /\ g = [parent |-> g.parent, first |-> g.first, last |-> g.last, next |-> g.next,
              prev |-> g.prev, count |-> g.count]
  BY <1>3 DEF UnlinkChild, Set
<1>a. a \in Nodes \union {Null} /\ b \in Nodes \union {Null}
  BY <1>1, <1>2 DEF Pointers
<1>b. c = s[k]
  OBVIOUS
<1> HIDE DEF a, b, c
<1>5. g \in Links
  <2>1. /\ g.parent \in Pointers /\ g.first \in Pointers /\ g.last \in Pointers
        /\ g.count \in [Nodes -> Int]
    BY <1>1, <1>2, <1>4, <1>a DEF Pointers
  <2> DEFINE n == IF b = Null THEN h.next ELSE [h.next EXCEPT ![b] = a]
             r == IF a = Null THEN h.prev ELSE [h.prev EXCEPT ![a] = b]
  <2>2. n \in Pointers /\ r \in Pointers
    BY <1>1, <1>2, <1>a DEF Pointers
  <2>3. g.next = [n EXCEPT ![c] = Null] /\ g.prev = [r EXCEPT ![c] = Null]
    BY <1>4
  <2> HIDE DEF n, r
  <2>4. g.next \in Pointers /\ g.prev \in Pointers
    BY <2>2, <2>3, <1>2 DEF Pointers
  <2> QED BY <2>1, <2>4, <1>4 DEF Links
<1>6. \A q \in Nodes : q # p => /\ g.first[q] = h.first[q] /\ g.last[q] = h.last[q]
                                /\ g.count[q] = h.count[q]
  BY <1>1, <1>4 DEF Pointers
<1>7. ASSUME NEW x \in Nodes, h.parent[x] # p
      PROVE  g.parent[x] = h.parent[x] /\ g.next[x] = h.next[x] /\ g.prev[x] = h.prev[x]
  <2>1. x # c /\ (a # Null => x # a) /\ (b # Null => x # b)
    BY <1>2, <1>7
  <2> QED BY <2>1, <1>1, <1>4 DEF Pointers
<1>8. \A x \in Nodes : g.parent[x] = IF x = c THEN Null ELSE h.parent[x]
  BY <1>1, <1>4 DEF Pointers
<1> QED BY <1>b, <1>5, <1>6, <1>7, <1>8

LEMMA HeldElsewhere ==
  ASSUME NEW h, NEW q, NEW s, NEW e, Held(h, q, s, e), NEW g,
         g.first[q] = h.first[q], g.last[q] = h.last[q], g.count[q] = h.count[q],
         \A x \in Nodes : h.parent[x] = q =>
           /\ g.parent[x] = h.parent[x] /\ g.next[x] = h.next[x] /\ g.prev[x] = h.prev[x],
         \A x \in Nodes : g.parent[x] = q => h.parent[x] = q
  PROVE  Held(g, q, s, e)
<1>1. \A i \in 1 .. Len(s) : s[i] \in Nodes /\ h.parent[s[i]] = q
  <2>1. \A i \in 1 .. Len(s) : s[i] \in Nodes
    BY ONLY HeldFacts, Held(h, q, s, e)
  <2>2. \A i \in 1 .. Len(s) : h.parent[s[i]] = q
    BY ONLY Held(h, q, s, e) DEF Held
  <2> QED BY ONLY <2>1, <2>2
<1>2. \A i \in 1 .. Len(s) : /\ g.parent[s[i]] = h.parent[s[i]] /\ g.next[s[i]] = h.next[s[i]]
                             /\ g.prev[s[i]] = h.prev[s[i]]
  BY <1>1
<1>3. \A i \in 1 .. Len(s) : /\ g.parent[s[i]] = q
                             /\ g.next[s[i]] = IF i = Len(s) THEN e ELSE s[i + 1]
                             /\ g.prev[s[i]] = IF i = 1 THEN Null ELSE s[i - 1]
  <2>1. \A i \in 1 .. Len(s) : /\ h.parent[s[i]] = q
                               /\ h.next[s[i]] = IF i = Len(s) THEN e ELSE s[i + 1]
                               /\ h.prev[s[i]] = IF i = 1 THEN Null ELSE s[i - 1]
    BY ONLY Held(h, q, s, e) DEF Held
  <2> QED BY ONLY <1>2, <2>1
<1>4. \A c \in Nodes : g.parent[c] = q => \E i \in 1 .. Len(s) : s[i] = c
  BY DEF Held
<1>5. /\ s \in Seq(Nodes)
      /\ \A i, j \in 1 .. Len(s) : s[i] = s[j] => i = j
      /\ g.first[q] = IF Len(s) = 0 THEN Null ELSE s[1]
      /\ g.last[q] = IF Len(s) = 0 THEN Null ELSE s[Len(s)]
      /\ g.count[q] = Len(s)
  BY DEF Held
<1> QED BY ONLY <1>3, <1>4, <1>5 DEF Held

----------------------------------------------------------------------------
(* The list of an old node with children a, whose new one has children b,  *)
(* when the walk has come to position at of both.                          *)
Item(s, i) == IF i <= Len(s) THEN s[i] ELSE Null
Ended(a, b, at) == at > Len(a) /\ at > Len(b)
Now(a, b, at) ==
  IF at <= Len(a) + 1 /\ at <= Len(b) + 1 THEN a
  ELSE IF Len(b) < Len(a)
       THEN [k \in 1 .. Len(a) - (at - Len(b) - 1) |->
               IF k <= Len(b) THEN a[k] ELSE a[k + (at - Len(b) - 1)]]
       ELSE [k \in 1 .. at - 1 |-> IF k <= Len(a) THEN a[k] ELSE b[k]]
\* What its last one says follows it: the one to be moved next.
After(a, b, at) == IF Len(a) < Len(b) /\ at > Len(a) + 1 THEN Item(b, at) ELSE Null

\* A function over 1 .. n is a sequence.
LEMMA AsSequence ==
  ASSUME NEW S, NEW n \in Nat, NEW f, f = [k \in 1 .. n |-> f[k]], \A k \in 1 .. n : f[k] \in S
  PROVE  f \in Seq(S) /\ Len(f) = n /\ DOMAIN f = 1 .. n
<1>1. f \in [1 .. n -> S]
  OBVIOUS
<1> QED BY <1>1, SeqDef

LEMMA NowCompared ==
  ASSUME NEW a \in Seq(Nodes), NEW b \in Seq(Nodes), NEW at \in Nat, at <= Len(a), at <= Len(b)
  PROVE  /\ Now(a, b, at) = a /\ After(a, b, at) = Null
         /\ Now(a, b, at + 1) = a /\ After(a, b, at + 1) = Null
<1>1. Len(a) \in Nat /\ Len(b) \in Nat
  OBVIOUS
<1>2. /\ at <= Len(a) + 1 /\ at <= Len(b) + 1 /\ ~ (at > Len(a) + 1)
      /\ at + 1 <= Len(a) + 1 /\ at + 1 <= Len(b) + 1 /\ ~ (at + 1 > Len(a) + 1)
  BY <1>1
<1> QED BY ONLY <1>2 DEF Now, After

LEMMA NowRemoved ==
  ASSUME NEW a \in Seq(Nodes), NEW b \in Seq(Nodes), NEW at \in Nat, at <= Len(a), Len(b) < at,
         NEW s, s = Now(a, b, at)
  PROVE  /\ After(a, b, at) = Null /\ After(a, b, at + 1) = Null
         /\ s \in Seq(Nodes) /\ Len(b) + 1 \in 1 .. Len(s) /\ s[Len(b) + 1] = a[at]
         /\ Item(a, at + 1) = IF Len(b) + 1 = Len(s) THEN Null ELSE s[Len(b) + 1 + 1]
         /\ RemoveAt(s, Len(b) + 1) = Now(a, b, at + 1)
<1> DEFINE la == Len(a)
           lb == Len(b)
           gone == at - lb - 1
           t == Now(a, b, at + 1)
<1>1. la \in Nat /\ lb \in Nat /\ (\A k \in 1 .. la : a[k] \in Nodes) /\ DOMAIN a = 1 .. la
      /\ a = [k \in 1 .. la |-> a[k]]
  BY ElementOfSeq
<1>2. gone \in Nat /\ lb + 1 + gone = at /\ la - gone >= lb + 1 /\ gone < la
      /\ (at + 1) - lb - 1 = gone + 1
  BY <1>1
<1>n. /\ la \in Nat /\ lb \in Nat /\ gone \in Nat /\ lb + 1 + gone = at /\ la - gone >= lb + 1
      /\ gone < la /\ at \in Nat
  BY <1>1, <1>2
<1>3. After(a, b, at) = Null /\ After(a, b, at + 1) = Null
  BY <1>1 DEF After
<1>4. s = [k \in 1 .. la - gone |-> IF k <= lb THEN a[k] ELSE a[k + gone]]
  <2>1. CASE at <= lb + 1
    <3>1. gone = 0 /\ at = lb + 1 /\ s = a
      BY <2>1, <1>1, <1>2 DEF Now
    <3>2. la - gone = la /\ \A k \in 1 .. la : k + gone = k
      BY <3>1, <1>1
    <3> HIDE DEF gone, la, lb
    <3>3. a = [k \in 1 .. la - gone |-> IF k <= lb THEN a[k] ELSE a[k + gone]]
      BY ONLY <3>2, <1>1
    <3> QED BY <3>1, <3>3
  <2>2. CASE ~ (at <= lb + 1)
    BY <2>2, <1>1 DEF Now
  <2> QED BY <2>1, <2>2
<1>5. t = [k \in 1 .. la - (gone + 1) |-> IF k <= lb THEN a[k] ELSE a[k + (gone + 1)]]
  <2>1. ~ (at + 1 <= lb + 1) /\ lb < la
    BY <1>1
  <2>2. t = [k \in 1 .. la - ((at + 1) - lb - 1) |-> IF k <= lb THEN a[k] ELSE a[k + ((at + 1) - lb - 1)]]
    BY ONLY <2>1 DEF Now
  <2> HIDE DEF t, la, lb, gone
  <2> QED BY <2>2, <1>2
<1> HIDE DEF la, lb, gone, t
<1>6. s \in Seq(Nodes) /\ Len(s) = la - gone
  <2>1. ASSUME NEW k \in 1 .. la - gone PROVE s[k] \in Nodes
    <3>1. s[k] = IF k <= lb THEN a[k] ELSE a[k + gone]
      BY <1>4
    <3>2. k \in 1 .. la /\ k + gone \in 1 .. la
      BY <1>1, <1>2
    <3> QED BY <3>1, <3>2, <1>1
  <2>2. s = [k \in 1 .. la - gone |-> s[k]] /\ la - gone \in Nat
    <3>1. la - gone \in Nat
      BY ONLY <1>n
    <3>2. s = [k \in 1 .. la - gone |-> s[k]]
      BY ONLY <1>4
    <3> QED BY <3>1, <3>2
  <2> DEFINE m == la - gone
  <2>3. m \in Nat /\ s = [k \in 1 .. m |-> s[k]] /\ \A k \in 1 .. m : s[k] \in Nodes
    BY ONLY <2>1, <2>2
  <2> HIDE DEF m
  <2>4. s \in Seq(Nodes) /\ Len(s) = m
    BY ONLY <2>3, AsSequence
  <2> QED BY ONLY <2>4 DEF m
<1>7. lb + 1 \in 1 .. Len(s) /\ s[lb + 1] = a[at]
  <2>1. lb + 1 \in 1 .. la - gone /\ ~ (lb + 1 <= lb) /\ lb + 1 + gone = at
    BY ONLY <1>n
  <2> QED BY ONLY <2>1, <1>4, <1>6
<1>8. Item(a, at + 1) = IF lb + 1 = Len(s) THEN Null ELSE s[lb + 1 + 1]
  <2>1. (at + 1 <= Len(a)) <=> (lb + 1 # Len(s))
    BY <1>1, <1>2, <1>6 DEF la
  <2>2. lb + 1 # Len(s) => lb + 1 + 1 \in 1 .. la - gone /\ ~ (lb + 1 + 1 <= lb) /\ lb + 1 + 1 + gone = at + 1
    <3>1. Len(s) = la - gone
      BY <1>6
    <3> QED BY ONLY <3>1, <1>n
  <2>3. lb + 1 # Len(s) => s[lb + 1 + 1] = a[at + 1]
    BY ONLY <2>2, <1>4
  <2> QED BY ONLY <2>1, <2>3 DEF Item
<1>9. RemoveAt(s, lb + 1) = t
  <2> DEFINE r == RemoveAt(s, lb + 1)
  <2>1. /\ r \in Seq(Nodes) /\ Len(r) = Len(s) - 1
        /\ \A i \in 1 .. Len(s) - 1 : r[i] = IF i < lb + 1 THEN s[i] ELSE s[i + 1]
    <3> DEFINE n == lb + 1
    <3>1. s \in Seq(Nodes) /\ n \in 1 .. Len(s)
      BY ONLY <1>6, <1>7
    <3> HIDE DEF n
    <3>2. /\ RemoveAt(s, n) \in Seq(Nodes) /\ Len(RemoveAt(s, n)) = Len(s) - 1
          /\ \A i \in 1 .. Len(s) - 1 : RemoveAt(s, n)[i] = IF i < n THEN s[i] ELSE s[i + 1]
      BY ONLY <3>1, TakenOut
    <3> QED BY ONLY <3>2 DEF n, r
  <2> HIDE DEF r
  <2>2. Len(s) - 1 = la - (gone + 1) /\ la - (gone + 1) \in Nat
    <3>1. Len(s) = la - gone
      BY <1>6
    <3> QED BY ONLY <3>1, <1>n
  <2>3. ASSUME NEW k \in 1 .. la - (gone + 1) PROVE r[k] = t[k] /\ t[k] \in Nodes
    <3>1. t[k] = IF k <= lb THEN a[k] ELSE a[k + (gone + 1)]
      BY <1>5
    <3>2. r[k] = IF k < lb + 1 THEN s[k] ELSE s[k + 1]
      BY <2>1, <2>2
    <3>3. k \in 1 .. la - gone /\ k + 1 \in 1 .. la - gone /\ (k < lb + 1 <=> k <= lb)
          /\ (k <= lb => k \in 1 .. la) /\ (~ (k <= lb) => ~ (k + 1 <= lb))
          /\ k + 1 + gone = k + (gone + 1) /\ k + (gone + 1) \in 1 .. la
      BY ONLY <1>n, k \in 1 .. la - (gone + 1)
    <3>4. s[k] = IF k <= lb THEN a[k] ELSE a[k + gone]
      BY <3>3, <1>4
    <3>5. s[k + 1] = IF k + 1 <= lb THEN a[k + 1] ELSE a[k + 1 + gone]
      BY <3>3, <1>4
    <3>6. r[k] = t[k]
      BY ONLY <3>1, <3>2, <3>3, <3>4, <3>5
    <3>7. t[k] \in Nodes
      BY ONLY <3>1, <3>3, <1>1
    <3> QED BY <3>6, <3>7
  <2>4. t = [k \in 1 .. la - (gone + 1) |-> t[k]]
    BY ONLY <1>5
  <2>5. t \in Seq(Nodes) /\ Len(t) = la - (gone + 1)
    BY <2>2, <2>3, <2>4, AsSequence
  <2>6. r = t
    BY <2>1, <2>2, <2>3, <2>5, SeqEqual
  <2> QED BY <2>6 DEF r
<1> QED BY <1>3, <1>6, <1>7, <1>8, <1>9 DEF lb, t

LEMMA NowInserted ==
  ASSUME NEW a \in Seq(Nodes), NEW b \in Seq(Nodes), NEW at \in Nat, at <= Len(b), Len(a) < at,
         NEW s, s = Now(a, b, at)
  PROVE  /\ s \in Seq(Nodes) /\ Len(s) = at - 1
         /\ \A k \in 1 .. at - 1 : s[k] = IF k <= Len(a) THEN a[k] ELSE b[k]
         /\ Append(s, b[at]) = Now(a, b, at + 1)
         /\ After(a, b, at + 1) = Item(b, at + 1)
<1> DEFINE la == Len(a)
           t == Now(a, b, at + 1)
<1>1. la \in Nat /\ Len(b) \in Nat /\ (\A k \in 1 .. la : a[k] \in Nodes) /\ DOMAIN a = 1 .. la
      /\ a = [k \in 1 .. la |-> a[k]] /\ (\A k \in 1 .. Len(b) : b[k] \in Nodes)
      /\ b[at] \in Nodes
  <2>1. at \in 1 .. Len(b)
    BY DEF la
  <2> QED BY <2>1, ElementOfSeq
<1>2. s = [k \in 1 .. at - 1 |-> IF k <= la THEN a[k] ELSE b[k]]
  <2>1. CASE at <= la + 1
    <3>1. at - 1 = la /\ s = a
      BY <2>1, <1>1 DEF Now
    <3>2. \A k \in 1 .. la : k <= la
      BY <1>1
    <3> HIDE DEF la
    <3>3. a = [k \in 1 .. at - 1 |-> IF k <= la THEN a[k] ELSE b[k]]
      BY ONLY <3>1, <3>2, <1>1
    <3> QED BY <3>1, <3>3
  <2>2. CASE ~ (at <= la + 1)
    <3>1. ~ (Len(b) < la)
      BY <1>1
    <3> QED BY ONLY <2>2, <3>1, s = Now(a, b, at) DEF Now
  <2> QED BY <2>1, <2>2
<1>3. t = [k \in 1 .. at |-> IF k <= la THEN a[k] ELSE b[k]]
  <2>1. ~ (at + 1 <= la + 1) /\ ~ (Len(b) < la) /\ at + 1 - 1 = at
    BY <1>1
  <2>2. t = [k \in 1 .. at + 1 - 1 |-> IF k <= la THEN a[k] ELSE b[k]]
    BY ONLY <2>1 DEF Now
  <2> HIDE DEF t
  <2> QED BY <2>1, <2>2
<1>4. After(a, b, at + 1) = Item(b, at + 1)
  BY <1>1 DEF After
<1> HIDE DEF la, t
<1>a. at \in Nat /\ at >= 1 /\ at <= Len(b) /\ la < at
  BY <1>1 DEF la
<1>5. ASSUME NEW k \in 1 .. at PROVE (IF k <= la THEN a[k] ELSE b[k]) \in Nodes
  <2>1. (k <= la => k \in 1 .. la) /\ k \in 1 .. Len(b)
    BY <1>1, <1>a
  <2> QED BY <2>1, <1>1
<1>6. s \in Seq(Nodes) /\ Len(s) = at - 1 /\ \A k \in 1 .. at - 1 : s[k] = IF k <= la THEN a[k] ELSE b[k]
  <2>1. at - 1 \in Nat /\ \A k \in 1 .. at - 1 : k \in 1 .. at
    BY <1>a
  <2>2. s = [k \in 1 .. at - 1 |-> s[k]] /\ \A k \in 1 .. at - 1 : s[k] = IF k <= la THEN a[k] ELSE b[k]
    BY ONLY <1>2
  <2>3. \A k \in 1 .. at - 1 : s[k] \in Nodes
    BY <2>1, <2>2, <1>5
  <2> DEFINE m == at - 1
  <2>4. m \in Nat /\ s = [k \in 1 .. m |-> s[k]] /\ \A k \in 1 .. m : s[k] \in Nodes
    BY <2>1, <2>2, <2>3
  <2>5. s \in Seq(Nodes) /\ Len(s) = m
    <3> HIDE DEF m
    <3> QED BY ONLY <2>4, AsSequence
  <2> QED BY <2>2, <2>5
<1>7. t \in Seq(Nodes) /\ Len(t) = at /\ \A k \in 1 .. at : t[k] = IF k <= la THEN a[k] ELSE b[k]
  <2>1. t = [k \in 1 .. at |-> t[k]] /\ \A k \in 1 .. at : t[k] = IF k <= la THEN a[k] ELSE b[k]
    BY ONLY <1>3
  <2>2. \A k \in 1 .. at : t[k] \in Nodes
    BY <2>1, <1>5
  <2> QED BY <2>1, <2>2, AsSequence
<1>8. Append(s, b[at]) = t
  <2> DEFINE r == Append(s, b[at])
  <2>1. /\ r \in Seq(Nodes) /\ Len(r) = Len(s) + 1 /\ r[Len(s) + 1] = b[at]
        /\ \A k \in 1 .. Len(s) : r[k] = s[k]
    BY <1>1, <1>6, AppendProperties
  <2> HIDE DEF r
  <2>2. Len(s) + 1 = at
    BY <1>6, <1>a
  <2>3. ASSUME NEW k \in 1 .. at PROVE r[k] = t[k]
    <3>1. k = at \/ k \in 1 .. at - 1
      BY <1>a
    <3>2. ~ (at <= la)
      BY <1>1, <1>a
    <3> QED BY <3>1, <3>2, <2>1, <2>2, <1>6, <1>7
  <2>4. r = t
    BY <2>1, <2>2, <2>3, <1>7, SeqEqual
  <2> QED BY <2>4 DEF r
<1> QED BY <1>4, <1>6, <1>8 DEF la, t

\* At the end it is as long as the new one.
LEMMA NowEnded ==
  ASSUME NEW a \in Seq(Nodes), NEW b \in Seq(Nodes), NEW at \in Nat, Ended(a, b, at),
         at <= Len(a) + 1 \/ at <= Len(b) + 1
  PROVE  /\ After(a, b, at) = Null
         /\ Len(Now(a, b, at)) = Len(b)
         /\ \A k \in 1 .. Len(b) : Now(a, b, at)[k] = IF k <= Len(a) THEN a[k] ELSE b[k]
<1>1. Len(a) \in Nat /\ Len(b) \in Nat
  OBVIOUS
<1>2. at > Len(a) /\ at > Len(b)
  BY DEF Ended
<1>3. CASE Len(a) = Len(b)
  <2>1. Now(a, b, at) = a /\ After(a, b, at) = Null
    BY <1>1, <1>2, <1>3 DEF Now, After
  <2>2. \A k \in 1 .. Len(b) : k <= Len(a)
    BY <1>1, <1>3
  <2> QED BY ONLY <2>1, <2>2, <1>3
<1>4. CASE Len(b) < Len(a)
  <2> DEFINE f == [k \in 1 .. Len(b) |-> a[k]]
  <2>1. /\ at = Len(a) + 1 /\ ~ (at <= Len(b) + 1) /\ Len(a) - (at - Len(b) - 1) = Len(b)
        /\ \A k \in 1 .. Len(b) : k <= Len(b) /\ k <= Len(a) /\ k \in 1 .. Len(a)
    BY <1>1, <1>2, <1>4
  <2>2. Now(a, b, at) = [k \in 1 .. Len(a) - (at - Len(b) - 1) |->
                           IF k <= Len(b) THEN a[k] ELSE a[k + (at - Len(b) - 1)]]
    BY ONLY <2>1, <1>4 DEF Now
  <2>3. Now(a, b, at) = f
    BY ONLY <2>1, <2>2
  <2>4. f = [k \in 1 .. Len(b) |-> f[k]] /\ \A k \in 1 .. Len(b) : f[k] = a[k]
    OBVIOUS
  <2>5. \A k \in 1 .. Len(b) : f[k] \in Nodes
    BY <2>1, <2>4, ElementOfSeq
  <2> HIDE DEF f
  <2>6. Len(f) = Len(b)
    BY <2>4, <2>5, <1>1, AsSequence
  <2>7. After(a, b, at) = Null
    BY <1>1, <1>4 DEF After
  <2> QED BY <2>1, <2>3, <2>4, <2>6, <2>7
<1>5. CASE Len(a) < Len(b)
  <2> DEFINE m == Len(b)
             s == Now(a, b, m)
  <2>1. m \in Nat /\ m <= Len(b) /\ Len(a) < m /\ at = m + 1 /\ m \in 1 .. m
    BY <1>1, <1>2, <1>5
  <2>2. /\ s \in Seq(Nodes) /\ Len(s) = m - 1
        /\ \A k \in 1 .. m - 1 : s[k] = IF k <= Len(a) THEN a[k] ELSE b[k]
        /\ Append(s, b[m]) = Now(a, b, m + 1)
        /\ After(a, b, m + 1) = Item(b, m + 1)
    <3> HIDE DEF m
    <3> QED BY <2>1, NowInserted
  <2>3. b[m] \in Nodes
    BY <2>1, ElementOfSeq
  <2> HIDE DEF m, s
  <2>4. /\ Len(Append(s, b[m])) = Len(s) + 1 /\ Append(s, b[m])[Len(s) + 1] = b[m]
        /\ \A k \in 1 .. Len(s) : Append(s, b[m])[k] = s[k]
    <3> DEFINE x == b[m]
    <3>1. s \in Seq(Nodes) /\ x \in Nodes
      BY ONLY <2>2, <2>3
    <3> HIDE DEF x
    <3>2. /\ Len(Append(s, x)) = Len(s) + 1 /\ Append(s, x)[Len(s) + 1] = x
          /\ \A k \in 1 .. Len(s) : Append(s, x)[k] = s[k]
      BY ONLY <3>1, AppendProperties
    <3> QED BY ONLY <3>2 DEF x
  <2>5. Len(s) + 1 = m /\ Len(s) = m - 1 /\ (\A k \in 1 .. m : k = m \/ k \in 1 .. m - 1)
        /\ ~ (m <= Len(a)) /\ ~ (m + 1 <= m)
    BY <2>1, <2>2, <1>1
  <2>6. Item(b, m + 1) = Null
    BY <2>5 DEF Item, m
  <2>7. \A k \in 1 .. m : Now(a, b, m + 1)[k] = IF k <= Len(a) THEN a[k] ELSE b[k]
    BY ONLY <2>2, <2>4, <2>5
  <2>8. Len(Now(a, b, m + 1)) = m
    BY ONLY <2>2, <2>4, <2>5
  <2> QED BY <2>1, <2>2, <2>6, <2>7, <2>8 DEF m
<1> QED BY <1>1, <1>3, <1>4, <1>5

----------------------------------------------------------------------------
(* The trees before the call: whole, and a child has a higher id than its  *)
(* parent, in the same half.                                               *)
Whole(h) == h \in Links /\ Linked(h) /\ Listed(h) /\ Counted(h)
Ascending(up) ==
  /\ up \in Parents /\ up[OldRoot] = Null /\ up[NewRoot] = Null
  /\ \A x \in Nodes : up[x] # Null => up[x] \in Nodes /\ up[x] < x /\ (up[x] <= Half <=> x <= Half)

LEMMA BesideAscends ==
  ASSUME NEW a \in Shapes(OldRoot, Half), NEW b \in Shapes(NewRoot, MaxNode),
         NEW up, up = Beside(a, b)
  PROVE  Ascending(up)
<1>1. /\ up \in Parents
      /\ \A n \in OldRoot .. Half : up[n] = a[n]
      /\ \A n \in NewRoot .. MaxNode : up[n] = b[n]
  BY ShapesBeside
<1>2. /\ Half \in Nat /\ Half >= 1 /\ Half < MaxNode /\ MaxNode \in Nat
      /\ OldRoot = 1 /\ NewRoot = Half + 1 /\ Nodes = 1 .. MaxNode
  BY RootsAreNodes, NodeFacts DEF OldRoot, NewRoot, Nodes
<1>3. /\ a[OldRoot] = Null /\ b[NewRoot] = Null
      /\ \A n \in OldRoot + 1 .. Half : a[n] = Null \/ a[n] < n
      /\ \A n \in NewRoot + 1 .. MaxNode : b[n] = Null \/ b[n] < n
      /\ \A n \in OldRoot .. Half : a[n] = Null \/ a[n] \in OldRoot .. Half
      /\ \A n \in NewRoot .. MaxNode : b[n] = Null \/ b[n] \in NewRoot .. MaxNode
  BY DEF Shapes
<1>4. OldRoot \in OldRoot .. Half /\ NewRoot \in NewRoot .. MaxNode
  BY <1>2
<1>5. up[OldRoot] = Null /\ up[NewRoot] = Null
  BY <1>1, <1>3, <1>4
<1>6. ASSUME NEW x \in Nodes, up[x] # Null
      PROVE  up[x] \in Nodes /\ up[x] < x /\ (up[x] <= Half <=> x <= Half)
  <2>1. CASE x <= Half
    <3>1. x \in OldRoot .. Half /\ up[x] = a[x] /\ x # OldRoot
      BY <2>1, <1>1, <1>2, <1>5, <1>6
    <3>2. x \in OldRoot + 1 .. Half
      BY <3>1, <1>2
    <3>3. a[x] < x /\ a[x] \in OldRoot .. Half
      BY <3>1, <3>2, <1>3, <1>6
    <3> QED BY <3>1, <3>3, <2>1, <1>2
  <2>2. CASE ~ (x <= Half)
    <3>1. x \in NewRoot .. MaxNode /\ up[x] = b[x] /\ x # NewRoot
      BY <2>2, <1>1, <1>2, <1>5, <1>6
    <3>2. x \in NewRoot + 1 .. MaxNode
      BY <3>1, <1>2
    <3>3. b[x] < x /\ b[x] \in NewRoot .. MaxNode
      BY <3>1, <3>2, <1>3, <1>6
    <3> QED BY <3>1, <3>3, <2>2, <1>2
  <2> QED BY <2>1, <2>2
<1> QED BY <1>1, <1>5, <1>6 DEF Ascending

\* insert_before builds whole trees.
LEMMA BuiltIs ==
  ASSUME NEW up \in Parents
  PROVE  Whole(Built(up)) /\ Built(up).parent = up
<1>1. PICK f \in [0 .. MaxNode -> Links] : Builds(f, up) /\ Built(up) = f[MaxNode]
  BY BuiltInSteps
<1> DEFINE At(n) == /\ Whole(f[n])
                    /\ \A x \in Nodes : f[n].parent[x] = IF x <= n THEN up[x] ELSE Null
           S == {n \in Nat : n <= MaxNode => At(n)}
<1>2. 0 \in S
  <2>1. f[0] = NoLinks
    BY <1>1 DEF Builds
  <2>2. NoLinks \in Links /\ Listed(NoLinks) /\ \A x \in Nodes : NoLinks.parent[x] = Null
    BY NoTree DEF NoLinks
  <2>3. Linked(NoLinks)
    BY DEF Linked, NoLinks
  <2>4. Counted(NoLinks)
    <3>1. ASSUME NEW p \in Nodes PROVE Cardinality(Children(NoLinks, p)) = 0 /\ NoLinks.count[p] = 0
      <4>1. Children(NoLinks, p) = {}
        BY <2>2, NullIsNoNode DEF Children
      <4>2. NoLinks.count[p] = 0
        BY DEF NoLinks
      <4> QED BY <4>1, <4>2, FS_EmptySet
    <3> QED BY <3>1 DEF Counted
  <2>5. \A x \in Nodes : ~ (x <= 0)
    BY NodeFacts
  <2> QED BY <2>1, <2>2, <2>3, <2>4, <2>5 DEF Whole
<1>3. ASSUME NEW n \in Nat, n \in S PROVE n + 1 \in S
  <2> DEFINE m == n + 1
  <2>1. SUFFICES ASSUME m <= MaxNode PROVE At(m)
    OBVIOUS
  <2>2. m \in Nodes /\ m - 1 = n /\ At(n) /\ \A x \in Nodes : x <= m <=> (x <= n \/ x = m)
    BY <2>1, <1>3, NodeFacts DEF Nodes
  <2>3. f[m] = IF up[m] = Null THEN f[n] ELSE AppendChild(f[n], up[m], m)
    BY <2>2, <1>1 DEF Builds
  <2>4. ~ (m <= n)
    BY NodeFacts
  <2> HIDE DEF m
  <2>5. CASE up[m] = Null
    BY <2>2, <2>3, <2>4, <2>5
  <2>6. CASE up[m] # Null
    <3> DEFINE h == f[n]
               g == f[m]
    <3>1. /\ up[m] \in Nodes /\ g = AppendChild(h, up[m], m) /\ h.parent[m] = Null
          /\ h \in Links /\ Linked(h) /\ Listed(h) /\ Counted(h)
          /\ \A x \in Nodes : h.parent[x] = IF x <= n THEN up[x] ELSE Null
      BY <2>2, <2>3, <2>4, <2>6 DEF Whole, Parents
    <3> HIDE DEF h, g
    <3>2. g \in Links /\ Linked(g) /\ Listed(g)
      BY <3>1, <2>2, AppendLinked, AppendTree
    <3>3. /\ g.parent = [h.parent EXCEPT ![m] = up[m]]
          /\ g.count = [h.count EXCEPT ![up[m]] = @ + 1]
      BY <3>1 DEF AppendChild, Set
    <3>4. Counted(g)
      BY <3>1, <3>2, <3>3, <2>2, JoinCounted
    <3>5. ASSUME NEW x \in Nodes PROVE g.parent[x] = IF x <= m THEN up[x] ELSE Null
      BY <3>1, <3>3, <2>2, LinksFields DEF Pointers
    <3> QED BY <3>2, <3>4, <3>5 DEF Whole, g
  <2> QED BY <2>5, <2>6 DEF m
<1>4. \A n \in Nat : n \in S
  <2> HIDE DEF S
  <2> QED BY <1>2, <1>3, Induction
<1>5. At(MaxNode)
  BY <1>4, NodeFacts
<1>6. \A x \in Nodes : x <= MaxNode
  BY NodeFacts
<1>7. Built(up).parent \in Parents
  BY <1>1, <1>5, LinksFields DEF Whole, Pointers, Parents
<1>8. \A x \in Nodes : Built(up).parent[x] = up[x]
  BY <1>1, <1>5, <1>6
<1>9. Built(up).parent = up
  BY <1>7, <1>8 DEF Parents
<1> QED BY <1>1, <1>5, <1>9

StartOk ==
  /\ Whole(start.links) /\ Ascending(start.links.parent)
  /\ start.attrs \in [Nodes -> Lists] /\ start.text \in [Nodes -> Texts]

LEMMA StartOkInit == DiffInit => StartOk
<1> SUFFICES ASSUME DiffInit PROVE StartOk
  OBVIOUS
<1>1. PICK a \in Shapes(OldRoot, Half), b \in Shapes(NewRoot, MaxNode) : Planted(Beside(a, b))
  BY DEF DiffInit
<1> DEFINE up == Beside(a, b)
<1>2. Ascending(up) /\ up \in Parents /\ links = Built(up)
  BY <1>1, BesideAscends DEF Planted, Ascending
<1> HIDE DEF up
<1>3. Whole(links) /\ Ascending(links.parent)
  BY <1>2, BuiltIs
<1>4. start = [links |-> links, attrs |-> attrs, text |-> text]
  BY DEF DiffInit
<1>5. attrs \in [Nodes -> Lists] /\ text \in [Nodes -> Texts]
  BY DiffInvInit, StateParts DEF DiffInv, StateOk, State
<1> QED BY <1>3, <1>4, <1>5 DEF StartOk

\* The children a node had.
Was(p) == Kids(start.links, p)

LEMMA Family ==
  ASSUME StartOk, NEW p \in Nodes
  PROVE  /\ Held(start.links, p, Was(p), Null)
         /\ Was(p) \in Seq(Nodes) /\ Len(Was(p)) \in Nat /\ DOMAIN Was(p) = 1 .. Len(Was(p))
         /\ \A i \in 1 .. Len(Was(p)) :
              /\ Was(p)[i] \in Nodes /\ Was(p)[i] > p /\ (Was(p)[i] <= Half <=> p <= Half)
              /\ start.links.parent[Was(p)[i]] = p
              /\ Was(p)[i] \notin {OldRoot, NewRoot}
         /\ \A i, j \in 1 .. Len(Was(p)) : Was(p)[i] = Was(p)[j] => i = j
<1>1. Held(start.links, p, Was(p), Null)
  BY ListIsHeld DEF StartOk, Whole, Listed, Was
<1>2. /\ Was(p) \in Seq(Nodes) /\ Len(Was(p)) \in Nat /\ DOMAIN Was(p) = 1 .. Len(Was(p))
      /\ \A i \in 1 .. Len(Was(p)) : Was(p)[i] \in Nodes
  BY <1>1, HeldFacts
<1>3. \A i \in 1 .. Len(Was(p)) : start.links.parent[Was(p)[i]] = p
  BY <1>1 DEF Held
<1>4. \A i, j \in 1 .. Len(Was(p)) : Was(p)[i] = Was(p)[j] => i = j
  BY <1>1 DEF Held
<1>5. Ascending(start.links.parent) /\ p # Null
  BY NullIsNoNode DEF StartOk
<1>6. ASSUME NEW i \in 1 .. Len(Was(p))
      PROVE  /\ Was(p)[i] > p /\ (Was(p)[i] <= Half <=> p <= Half)
             /\ Was(p)[i] \notin {OldRoot, NewRoot}
  <2>1. Was(p)[i] \in Nodes /\ start.links.parent[Was(p)[i]] = p
    BY <1>2, <1>3
  <2>2. p < Was(p)[i] /\ (p <= Half <=> Was(p)[i] <= Half)
    BY ONLY <2>1, <1>5 DEF Ascending
  <2>3. Was(p)[i] \notin {OldRoot, NewRoot}
    BY ONLY <2>1, <1>5 DEF Ascending
  <2>4. p \in Int /\ Was(p)[i] \in Int
    BY <2>1, NodeFacts
  <2> QED BY <2>2, <2>3, <2>4
<1> QED BY <1>1, <1>2, <1>3, <1>4, <1>6

----------------------------------------------------------------------------
(* Which pairs the walk may meet.                                          *)

\* R pairs off the trees: roots with roots, children with the children at
\* the same places, and only nodes of one kind.
Matching(R) ==
  /\ <<OldRoot, NewRoot>> \in R
  /\ \A o, n \in Nodes : <<o, n>> \in R =>
       /\ o <= Half /\ n > Half /\ kind[o] = kind[n]
       /\ \A i \in 1 .. Len(Was(o)) : i <= Len(Was(n)) => <<Was(o)[i], Was(n)[i]>> \in R

\* And nothing tells the nodes of a pair apart.
Same(R) ==
  \A o, n \in Nodes : <<o, n>> \in R =>
    /\ Len(Was(o)) = Len(Was(n))
    /\ IsText(kind[o]) => start.text[o] = start.text[n]
    /\ \A name \in Names : ValueOf(start.attrs[o], name) = ValueOf(start.attrs[n], name)

LEMMA AlikeInSteps ==
  \E f : /\ \A d \in 0 .. MaxNode : f[d] = Agreeing(d, f[d - 1])
         /\ Alike <=> <<OldRoot, NewRoot>> \in f[MaxNode]
<1> DEFINE V == SUBSET (Nodes \X Nodes)
           step == [a \in Nat \X V |-> Agreeing(a[1], a[2])]
<1>1. \A d, below : Agreeing(d, below) \in V
  BY DEF Agreeing
<1>2. step \in [Nat \X V -> V]
  <2> HIDE DEF V
  <2> QED BY <1>1
<1>3. PICK f \in [0 .. MaxNode -> V] : Unrolls(f, MaxNode, Agreeing(0, {}), step)
  <2> HIDE DEF V, step
  <2> QED BY <1>1, <1>2, NodeFacts, Unrolled
<1>4. f = [d \in 0 .. MaxNode |-> IF d = 0 THEN Agreeing(0, {}) ELSE step[<<d, f[d - 1]>>]]
  BY <1>3 DEF Unrolls
<1>5. ASSUME NEW d \in 0 .. MaxNode
      PROVE  (IF d = 0 THEN Agreeing(0, {}) ELSE step[<<d, f[d - 1]>>]) = Agreeing(d, f[d - 1])
  <2>1. CASE d = 0
    <3>1. Agreeing(0, {}) = Agreeing(0, f[d - 1])
      BY DEF Agreeing
    <3> QED BY <3>1, <2>1
  <2>2. CASE d # 0
    <3>1. d - 1 \in 0 .. MaxNode /\ d \in Nat
      BY <2>2, NodeFacts
    <3>2. <<d, f[d - 1]>> \in Nat \X V
      BY <3>1, <1>3
    <3> HIDE DEF V
    <3>3. step[<<d, f[d - 1]>>] = Agreeing(d, f[d - 1])
      BY <3>2
    <3> QED BY <3>3, <2>2
  <2> QED BY <2>1, <2>2
<1>6. f = [d \in 0 .. MaxNode |-> Agreeing(d, f[d - 1])]
  BY ONLY <1>4, <1>5
<1> DEFINE e == CHOOSE g : g = [d \in 0 .. MaxNode |-> Agreeing(d, g[d - 1])]
<1>7. e = [d \in 0 .. MaxNode |-> Agreeing(d, e[d - 1])]
  BY ONLY <1>6
<1>8. Alike <=> <<OldRoot, NewRoot>> \in e[MaxNode]
  BY DEF Alike
<1> HIDE DEF e
<1>9. \A d \in 0 .. MaxNode : e[d] = Agreeing(d, e[d - 1])
  BY ONLY <1>7
<1> QED BY <1>8, <1>9

LEMMA AlikeMatches ==
  ASSUME StartOk, Alike
  PROVE  \E R \in SUBSET (Nodes \X Nodes) : Matching(R)
<1>1. PICK f : /\ \A d \in 0 .. MaxNode : f[d] = Agreeing(d, f[d - 1])
               /\ <<OldRoot, NewRoot>> \in f[MaxNode]
  BY AlikeInSteps
<1> DEFINE In(o, n, d) == d + o > MaxNode /\ <<o, n>> \in f[d]
           R == {pair \in Nodes \X Nodes : /\ pair[1] <= Half /\ pair[2] > Half
                                           /\ \E d \in 0 .. MaxNode : In(pair[1], pair[2], d)}
<1>2. \A o, n \in Nodes : <<o, n>> \in R <=> o <= Half /\ n > Half /\ \E d \in 0 .. MaxNode : In(o, n, d)
  OBVIOUS
<1>3. R \in SUBSET (Nodes \X Nodes)
  OBVIOUS
<1> HIDE DEF R
<1>4. <<OldRoot, NewRoot>> \in R
  <2>1. MaxNode \in 0 .. MaxNode /\ In(OldRoot, NewRoot, MaxNode) /\ OldRoot <= Half /\ NewRoot > Half
    BY <1>1, RootsAreNodes, NodeFacts DEF OldRoot, NewRoot
  <2> QED BY <2>1, <1>2, RootsAreNodes
<1>5. ASSUME NEW o \in Nodes, NEW n \in Nodes, <<o, n>> \in R
      PROVE  /\ o <= Half /\ n > Half /\ kind[o] = kind[n]
             /\ \A i \in 1 .. Len(Was(o)) : i <= Len(Was(n)) => <<Was(o)[i], Was(n)[i]>> \in R
  <2>1. PICK d \in 0 .. MaxNode : d + o > MaxNode /\ <<o, n>> \in f[d]
    BY <1>2, <1>5
  <2>2. o <= Half /\ n > Half
    BY <1>2, <1>5
  <2>3. <<o, n>> \in Agreeing(d, f[d - 1])
    BY <1>1, <2>1
  <2>4. d # 0 /\ d - 1 \in 0 .. MaxNode /\ d \in Int
    BY <2>1, <2>2, RootsAreNodes, NodeFacts
  <2>5. /\ kind[o] = kind[n]
        /\ \A i \in DOMAIN Was(o) \intersect DOMAIN Was(n) : <<Was(o)[i], Was(n)[i]>> \in f[d - 1]
    BY <2>3, <2>4 DEF Agreeing, Was
  <2>6. ASSUME NEW i \in 1 .. Len(Was(o)), i <= Len(Was(n)) PROVE <<Was(o)[i], Was(n)[i]>> \in R
    <3> DEFINE a == Was(o)[i]
               b == Was(n)[i]
    <3>1. i \in DOMAIN Was(o) /\ i \in DOMAIN Was(n) /\ i \in 1 .. Len(Was(n))
      BY <2>6, Family
    <3>2. a \in Nodes /\ a > o /\ (a <= Half <=> o <= Half)
      BY Family
    <3>3. b \in Nodes /\ (b <= Half <=> n <= Half)
      BY <3>1, Family
    <3>4. <<a, b>> \in f[d - 1]
      BY <2>5, <3>1
    <3> HIDE DEF a, b
    <3>5. a <= Half /\ b > Half /\ (d - 1) + a > MaxNode
      BY <3>2, <3>3, <2>1, <2>2, <2>4, NodeFacts, RootsAreNodes
    <3>6. <<a, b>> \in R
      BY <3>2, <3>3, <3>4, <3>5, <2>4, <1>2
    <3> QED BY <3>6 DEF a, b
  <2> QED BY <2>2, <2>5, <2>6
<1> QED BY <1>3, <1>4, <1>5 DEF Matching

----------------------------------------------------------------------------
(* Trees as values.                                                        *)
Layered(f, h, lists, texts) ==
  \A d \in 0 .. MaxNode : f[d] = Layer(h, lists, texts, d, f[d - 1])

LEMMA TreeInSteps ==
  ASSUME NEW h, NEW lists, NEW texts
  PROVE  \E f : /\ Layered(f, h, lists, texts)
                /\ \A root : TreeAt(h, lists, texts, root) = f[MaxNode][root]
<1> DEFINE L(d, below) == Layer(h, lists, texts, d, below)
           Fits(f, n) == f = [d \in 0 .. n |-> L(d, f[d - 1])]
           S == {n \in Nat : \E f : Fits(f, n)}
<1>1. \A x, y : L(0, x) = L(0, y)
  BY DEF Layer
<1> HIDE DEF L
<1>2. 0 \in S
  <2> DEFINE f == [d \in 0 .. 0 |-> L(0, 0)]
  <2>1. \A d \in 0 .. 0 : d = 0 /\ L(0, 0) = L(0, f[d - 1])
    BY <1>1
  <2>2. Fits(f, 0)
    BY ONLY <2>1
  <2> HIDE DEF f
  <2> QED BY <2>2
<1>3. ASSUME NEW n \in Nat, n \in S PROVE n + 1 \in S
  <2>1. PICK f : Fits(f, n)
    BY <1>3
  <2> DEFINE g == [d \in 0 .. n + 1 |-> IF d <= n THEN f[d] ELSE L(n + 1, f[n])]
  <2>2. ASSUME NEW d \in 0 .. n + 1
        PROVE  (IF d <= n THEN f[d] ELSE L(n + 1, f[n])) = L(d, g[d - 1])
    <3>1. CASE d = 0
      <4>1. d \in 0 .. n /\ d <= n
        BY <3>1
      <4>2. f[d] = L(d, f[d - 1])
        BY <4>1, <2>1
      <4> QED BY <3>1, <4>1, <4>2, <1>1
    <3>2. CASE d # 0 /\ d <= n
      <4>1. d \in 0 .. n /\ d - 1 \in 0 .. n + 1 /\ d - 1 <= n
        BY <3>2
      <4>2. f[d] = L(d, f[d - 1]) /\ g[d - 1] = f[d - 1]
        BY <4>1, <2>1
      <4> QED BY <3>2, <4>2
    <3>3. CASE ~ (d <= n)
      <4>1. d = n + 1 /\ d - 1 = n /\ n \in 0 .. n + 1 /\ n <= n
        BY <3>3
      <4>2. g[d - 1] = f[n]
        BY <4>1
      <4> HIDE DEF g
      <4> QED BY <3>3, <4>1, <4>2
    <3> QED BY <3>1, <3>2, <3>3
  <2>3. Fits(g, n + 1)
    BY ONLY <2>2
  <2> HIDE DEF g, Fits
  <2>4. \E k : Fits(k, n + 1)
    BY <2>3
  <2> QED BY <2>4
<1>4. PICK f : Fits(f, MaxNode)
  <2>1. \A n \in Nat : n \in S
    <3> HIDE DEF S
    <3> QED BY <1>2, <1>3, Induction
  <2> HIDE DEF Fits
  <2> QED BY <2>1, NodeFacts
<1> DEFINE e == CHOOSE k : k = [d \in 0 .. MaxNode |-> L(d, k[d - 1])]
<1>5. e = [d \in 0 .. MaxNode |-> L(d, e[d - 1])]
  BY ONLY <1>4
<1>6. \A root : TreeAt(h, lists, texts, root) = e[MaxNode][root]
  BY DEF TreeAt, L
<1> HIDE DEF e
<1>7. \A d \in 0 .. MaxNode : e[d] = L(d, e[d - 1])
  BY ONLY <1>5
<1>8. Layered(e, h, lists, texts)
  BY <1>7 DEF Layered, L
<1> QED BY <1>6, <1>8

\* What a tree shows of its root.
LEMMA LayerShows ==
  ASSUME NEW f, NEW h, NEW lists, NEW texts, Layered(f, h, lists, texts),
         NEW d \in 0 .. MaxNode, NEW n \in Nodes
  PROVE  f[d][n] = [kind  |-> kind[n],
                    text  |-> IF IsText(kind[n]) THEN texts[n] ELSE None,
                    attrs |-> [name \in Names |-> ValueOf(lists[n], name)],
                    kids  |-> IF d = 0 THEN << >>
                              ELSE [i \in DOMAIN Kids(h, n) |-> f[d - 1][Kids(h, n)[i]]]]
<1>1. f[d] = Layer(h, lists, texts, d, f[d - 1])
  BY DEF Layered
<1> QED BY <1>1 DEF Layer

LEMMA SameLength ==
  ASSUME NEW m \in Nat, NEW n \in Nat, 1 .. m = 1 .. n
  PROVE  m = n
<1>1. (m # 0 => m \in 1 .. m) /\ (n # 0 => n \in 1 .. n)
  OBVIOUS
<1>2. (m # 0 => m \in 1 .. n) /\ (n # 0 => n \in 1 .. m)
  BY <1>1
<1> QED BY ONLY <1>2, m \in Nat, n \in Nat

LEMMA EqualMatches ==
  ASSUME StartOk, OldTreeBefore = Goal
  PROVE  \E R \in SUBSET (Nodes \X Nodes) : Matching(R) /\ Same(R)
<1>1. PICK f : /\ Layered(f, start.links, start.attrs, start.text)
               /\ f[MaxNode][OldRoot] = f[MaxNode][NewRoot]
  <2>1. PICK f : /\ Layered(f, start.links, start.attrs, start.text)
                 /\ \A root : TreeAt(start.links, start.attrs, start.text, root) = f[MaxNode][root]
    BY TreeInSteps
  <2>2. f[MaxNode][OldRoot] = f[MaxNode][NewRoot]
    BY <2>1 DEF OldTreeBefore, Goal
  <2> QED BY <2>1, <2>2
<1> DEFINE In(o, n, d) == d + o > MaxNode /\ f[d][o] = f[d][n]
           R == {pair \in Nodes \X Nodes : /\ pair[1] <= Half /\ pair[2] > Half
                                           /\ \E d \in 0 .. MaxNode : In(pair[1], pair[2], d)}
<1>2. \A o, n \in Nodes : <<o, n>> \in R <=> o <= Half /\ n > Half /\ \E d \in 0 .. MaxNode : In(o, n, d)
  OBVIOUS
<1>3. R \in SUBSET (Nodes \X Nodes)
  OBVIOUS
<1> HIDE DEF R
<1>4. <<OldRoot, NewRoot>> \in R
  <2>1. MaxNode \in 0 .. MaxNode /\ In(OldRoot, NewRoot, MaxNode) /\ OldRoot <= Half /\ NewRoot > Half
    BY <1>1, RootsAreNodes, NodeFacts DEF OldRoot, NewRoot
  <2> QED BY <2>1, <1>2, RootsAreNodes
<1>5. ASSUME NEW o \in Nodes, NEW n \in Nodes, <<o, n>> \in R
      PROVE  /\ o <= Half /\ n > Half /\ kind[o] = kind[n]
             /\ \A i \in 1 .. Len(Was(o)) : i <= Len(Was(n)) => <<Was(o)[i], Was(n)[i]>> \in R
             /\ Len(Was(o)) = Len(Was(n))
             /\ IsText(kind[o]) => start.text[o] = start.text[n]
             /\ \A name \in Names : ValueOf(start.attrs[o], name) = ValueOf(start.attrs[n], name)
  <2>1. PICK d \in 0 .. MaxNode : d + o > MaxNode /\ f[d][o] = f[d][n]
    BY <1>2, <1>5
  <2>2. o <= Half /\ n > Half
    BY <1>2, <1>5
  <2>3. d # 0 /\ d - 1 \in 0 .. MaxNode /\ d \in Int
    BY <2>1, <2>2, RootsAreNodes, NodeFacts
  <2> DEFINE T(x) == IF IsText(kind[x]) THEN start.text[x] ELSE None
             A(x) == [name \in Names |-> ValueOf(start.attrs[x], name)]
             K(x) == [i \in DOMAIN Was(x) |-> f[d - 1][Was(x)[i]]]
  <2>4. ASSUME NEW x \in Nodes
        PROVE  f[d][x] = [kind |-> kind[x], text |-> T(x), attrs |-> A(x), kids |-> K(x)]
    BY <1>1, <2>3, LayerShows DEF Was
  <2>5. kind[o] = kind[n] /\ T(o) = T(n) /\ A(o) = A(n) /\ K(o) = K(n)
    <3> HIDE DEF T, A, K
    <3>1. f[d][o] = [kind |-> kind[o], text |-> T(o), attrs |-> A(o), kids |-> K(o)]
      BY <2>4
    <3>2. f[d][n] = [kind |-> kind[n], text |-> T(n), attrs |-> A(n), kids |-> K(n)]
      BY <2>4
    <3>3. [kind |-> kind[o], text |-> T(o), attrs |-> A(o), kids |-> K(o)]
          = [kind |-> kind[n], text |-> T(n), attrs |-> A(n), kids |-> K(n)]
      BY ONLY <3>1, <3>2, <2>1
    <3> QED BY ONLY <3>3
  <2>6. DOMAIN Was(o) = DOMAIN Was(n)
    <3>1. DOMAIN K(o) = DOMAIN K(n)
      <4> HIDE DEF K
      <4> QED BY <2>5
    <3> QED BY <3>1
  <2>7. Len(Was(o)) = Len(Was(n))
    BY <2>6, Family, SameLength
  <2>8. \A name \in Names : ValueOf(start.attrs[o], name) = ValueOf(start.attrs[n], name)
    BY <2>5
  <2>9. ASSUME NEW i \in 1 .. Len(Was(o)), i <= Len(Was(n)) PROVE <<Was(o)[i], Was(n)[i]>> \in R
    <3> DEFINE a == Was(o)[i]
               b == Was(n)[i]
    <3>1. i \in DOMAIN Was(o) /\ i \in DOMAIN Was(n) /\ i \in 1 .. Len(Was(n))
      BY <2>9, Family
    <3>2. a \in Nodes /\ a > o /\ (a <= Half <=> o <= Half)
      BY Family
    <3>3. b \in Nodes /\ (b <= Half <=> n <= Half)
      BY <3>1, Family
    <3>4. f[d - 1][a] = f[d - 1][b]
      <4>1. K(o)[i] = K(n)[i]
        <5> HIDE DEF K
        <5> QED BY <2>5
      <4> QED BY <4>1, <3>1
    <3> HIDE DEF a, b
    <3>5. a <= Half /\ b > Half /\ (d - 1) + a > MaxNode
      BY <3>2, <3>3, <2>1, <2>2, <2>3, NodeFacts, RootsAreNodes
    <3>6. <<a, b>> \in R
      BY <3>2, <3>3, <3>4, <3>5, <2>3, <1>2
    <3> QED BY <3>6 DEF a, b
  <2>10. IsText(kind[o]) => start.text[o] = start.text[n]
    BY <2>5
  <2> QED BY <2>2, <2>5, <2>7, <2>8, <2>9, <2>10
<1>6. Matching(R)
  BY <1>4, <1>5 DEF Matching
<1>7. Same(R)
  BY <1>5 DEF Same
<1> QED BY <1>3, <1>6, <1>7

----------------------------------------------------------------------------
(* The walk: mate gives the new node an old one was paired with, at the    *)
(* place it has come to in the lists of the two.                           *)

\* Pairs come of R, from the roots downwards, and one by one.
Paired(R, mate, at) ==
  /\ mate \in [Nodes -> Nodes \union {Null}] /\ at \in [Nodes -> Nat]
  /\ mate[OldRoot] = NewRoot
  /\ \A o \in Nodes : mate[o] # Null =>
       /\ <<o, mate[o]>> \in R
       /\ at[o] >= 1
       /\ at[o] <= Len(Was(o)) + 1 \/ at[o] <= Len(Was(mate[o])) + 1
  /\ \A o, p \in Nodes : mate[o] # Null /\ mate[o] = mate[p] => o = p

\* o is the old child at place j of p, and its mate the new one there.
Beneath(mate, at, o, p, j) ==
  /\ mate[p] # Null /\ j < at[p]
  /\ j \in 1 .. Len(Was(p)) /\ j \in 1 .. Len(Was(mate[p]))
  /\ Was(p)[j] = o /\ Was(mate[p])[j] = mate[o]
Reached(mate, at) ==
  /\ \A o \in Nodes : mate[o] # Null /\ o # OldRoot =>
       \E p \in Nodes, j \in Nat : Beneath(mate, at, o, p, j)
  /\ \A p \in Nodes, j \in Nat :
       /\ mate[p] # Null /\ j < at[p]
       /\ j \in 1 .. Len(Was(p)) /\ j \in 1 .. Len(Was(mate[p]))
       => mate[Was(p)[j]] = Was(mate[p])[j]

\* The calls under way stand where at says; the others have returned.
Reads(frame, mate, at) ==
  /\ mate[frame.old] # Null /\ frame.new = mate[frame.old]
  /\ frame.oldChild = Item(Was(frame.old), at[frame.old])
  /\ frame.newChild = Item(Was(frame.new), at[frame.old])
Stacked(st, mate, at) ==
  /\ \A i \in 1 .. Len(st) : Reads(st[i], mate, at)
  /\ \A i, j \in 1 .. Len(st) : st[i].old = st[j].old => i = j
  /\ \A o \in Nodes : mate[o] # Null =>
       (\E i \in 1 .. Len(st) : st[i].old = o) \/ Ended(Was(o), Was(mate[o]), at[o])

\* The lists of the old nodes are part of the way, those of the others as
\* they were, and new children yet to be moved hang where they hung.
Untouched(mate, x) == mate[x] = Null /\ \A o \in Nodes : mate[o] # x
Waiting(h, o, n, at) ==
  \A j \in 1 .. Len(Was(n)) : j >= at =>
    /\ h.parent[Was(n)[j]] = n
    /\ h.next[Was(n)[j]] = Item(Was(n), j + 1)
    /\ j = 1 => h.prev[Was(n)[j]] = Null
PartWay(h, o, n, at) ==
  /\ Held(h, o, Now(Was(o), Was(n), at), After(Was(o), Was(n), at))
  /\ Waiting(h, o, n, at)
Linkage(h, mate, at) ==
  /\ \A o \in Nodes : mate[o] # Null => PartWay(h, o, mate[o], at[o])
  /\ \A x \in Nodes : Untouched(mate, x) => Held(h, x, Was(x), Null)

\* Texts of the pairs agree, and attributes unless a record was refused, took
\* being how many were asked for; the others' are as they were.
SameValues(list, other) == \A name : ValueOf(list, name) = ValueOf(other, name)
Agrees(lists, texts, took, o, n) ==
  /\ IsText(kind[o]) => texts[o] = start.text[n]
  /\ took <= Room => SameValues(lists[o], start.attrs[n])
Owned(lists, texts, took, mate) ==
  \A o \in Nodes : IF mate[o] # Null THEN Agrees(lists, texts, took, o, mate[o])
                   ELSE lists[o] = start.attrs[o] /\ texts[o] = start.text[o]

Walk(R, h, lists, texts, took, st, mate, at) ==
  /\ Paired(R, mate, at) /\ Reached(mate, at) /\ Stacked(st, mate, at)
  /\ Linkage(h, mate, at) /\ Owned(lists, texts, took, mate)

\* Half of what a pair is known to be.
LEMMA PairFacts ==
  ASSUME StartOk, NEW R, Matching(R), NEW mate, NEW at, Paired(R, mate, at),
         NEW o \in Nodes, mate[o] # Null
  PROVE  /\ mate[o] \in Nodes /\ <<o, mate[o]>> \in R /\ kind[o] = kind[mate[o]]
         /\ o <= Half /\ ~ (mate[o] <= Half) /\ o # mate[o]
         /\ Was(o) \in Seq(Nodes) /\ Len(Was(o)) \in Nat
         /\ Was(mate[o]) \in Seq(Nodes) /\ Len(Was(mate[o])) \in Nat
         /\ at[o] \in Nat /\ at[o] >= 1
<1>1. mate[o] \in Nodes /\ <<o, mate[o]>> \in R /\ at[o] \in Nat /\ at[o] >= 1
  BY DEF Paired
<1>2. kind[o] = kind[mate[o]] /\ o <= Half /\ mate[o] > Half
  BY <1>1 DEF Matching
<1>3. ~ (mate[o] <= Half)
  BY <1>1, <1>2, NodeFacts, RootsAreNodes
<1> QED BY <1>1, <1>2, <1>3, Family

\* A pair below a pair was made there.
LEMMA MateBeneath ==
  ASSUME StartOk, NEW R, Matching(R), NEW mate, NEW at, Paired(R, mate, at), Reached(mate, at),
         NEW x \in Nodes, NEW p \in Nodes, mate[x] # Null, mate[p] # Null,
         start.links.parent[mate[x]] = mate[p] \/ start.links.parent[x] = p
  PROVE  \E j \in Nat : Beneath(mate, at, x, p, j)
<1>1. /\ mate[x] \in Nodes /\ mate[p] \in Nodes /\ mate[OldRoot] = NewRoot
      /\ start.links.parent[OldRoot] = Null /\ start.links.parent[NewRoot] = Null
      /\ Null \notin Nodes
  BY PairFacts, NodeFacts DEF Paired, StartOk, Ascending
<1>2. x # OldRoot
  BY <1>1
<1>3. PICK q \in Nodes, j \in Nat : Beneath(mate, at, x, q, j)
  BY <1>2 DEF Reached
<1>4. mate[q] # Null /\ j \in 1 .. Len(Was(q)) /\ j \in 1 .. Len(Was(mate[q]))
      /\ Was(q)[j] = x /\ Was(mate[q])[j] = mate[x]
  BY <1>3 DEF Beneath
<1>5. mate[q] \in Nodes
  BY <1>4, PairFacts
<1>6. start.links.parent[x] = q /\ start.links.parent[mate[x]] = mate[q]
  BY <1>4, <1>5, Family
<1>7. q = p
  BY <1>4, <1>6 DEF Paired
<1> QED BY <1>3, <1>7

\* The next two to be compared have not been met.
Upcoming(mate, at, p, c, d) ==
  /\ mate[p] # Null /\ at[p] <= Len(Was(p)) /\ at[p] <= Len(Was(mate[p]))
  /\ c = Was(p)[at[p]] /\ d = Was(mate[p])[at[p]]

LEMMA NextPair ==
  ASSUME StartOk, NEW R, Matching(R), NEW mate, NEW at, Paired(R, mate, at), Reached(mate, at),
         NEW p \in Nodes, NEW c, NEW d, Upcoming(mate, at, p, c, d)
  PROVE  /\ at[p] \in 1 .. Len(Was(p)) /\ at[p] \in 1 .. Len(Was(mate[p]))
         /\ c \in Nodes /\ d \in Nodes /\ <<c, d>> \in R /\ c <= Half /\ ~ (d <= Half)
         /\ kind[c] = kind[d] /\ c # p /\ c # d /\ c # OldRoot /\ d # NewRoot
         /\ Untouched(mate, c) /\ Untouched(mate, d)
<1> DEFINE n == mate[p]
           k == at[p]
<1>0. mate[p] # Null /\ k <= Len(Was(p)) /\ k <= Len(Was(n)) /\ c = Was(p)[k] /\ d = Was(n)[k]
  BY DEF Upcoming
<1>1. /\ n \in Nodes /\ <<p, n>> \in R /\ p <= Half /\ ~ (n <= Half)
      /\ Len(Was(p)) \in Nat /\ Len(Was(n)) \in Nat /\ k \in Nat /\ k >= 1
  BY <1>0, PairFacts
<1>2. k \in 1 .. Len(Was(p)) /\ k \in 1 .. Len(Was(n)) /\ k <= Len(Was(n)) /\ k <= Len(Was(p))
  BY <1>0, <1>1
<1> HIDE DEF k, n
<1>3. /\ c = Was(p)[k] /\ d = Was(n)[k] /\ n = mate[p] /\ n # Null
  BY <1>0 DEF k, n
<1>4. /\ c \in Nodes /\ c > p /\ (c <= Half <=> p <= Half) /\ start.links.parent[c] = p
      /\ c # OldRoot
  BY <1>1, <1>2, <1>3, Family
<1>5. /\ d \in Nodes /\ (d <= Half <=> n <= Half) /\ start.links.parent[d] = n /\ d # NewRoot
  BY <1>1, <1>2, <1>3, Family
<1>6. <<c, d>> \in R
  BY <1>1, <1>2, <1>3 DEF Matching
<1>7. kind[c] = kind[d]
  BY <1>4, <1>5, <1>6 DEF Matching
<1>8. ASSUME NEW x \in Nodes, mate[x] # Null, x = c \/ mate[x] = d PROVE FALSE
  <2>1. PICK j \in Nat : Beneath(mate, at, x, p, j)
    BY <1>3, <1>4, <1>5, <1>8, MateBeneath
  <2>2. /\ j < k /\ j \in 1 .. Len(Was(p)) /\ j \in 1 .. Len(Was(n))
        /\ Was(p)[j] = x /\ Was(n)[j] = mate[x]
    BY <2>1 DEF Beneath, k, n
  <2>3. j = k
    BY <1>1, <1>2, <1>3, <1>8, <2>2, Family
  <2> QED BY <2>2, <2>3, <1>1
<1>9. mate[c] = Null /\ \A x \in Nodes : mate[x] # c
  <2>1. ASSUME NEW x \in Nodes, mate[x] = c PROVE FALSE
    <3>1. mate[x] # Null
      BY <2>1, <1>4, NodeFacts
    <3>2. ~ (mate[x] <= Half)
      BY ONLY PairFacts, <3>1, x \in Nodes, StartOk, Matching(R), Paired(R, mate, at)
    <3> QED BY <3>2, <2>1, <1>1, <1>4
  <2> QED BY <2>1, <1>4, <1>8
<1>10. mate[d] = Null /\ \A x \in Nodes : mate[x] # d
  <2>1. ASSUME mate[d] # Null PROVE FALSE
    <3>1. d <= Half
      BY ONLY PairFacts, <2>1, <1>5, StartOk, Matching(R), Paired(R, mate, at)
    <3> QED BY ONLY <3>1, <1>1, <1>5
  <2>2. ASSUME NEW x \in Nodes, mate[x] = d PROVE FALSE
    BY <2>2, <1>5, <1>8, NodeFacts
  <2> QED BY <2>1, <2>2
<1>11. c # p /\ c # d
  <2>1. p \in Int /\ c \in Int
    BY <1>4, NodeFacts
  <2> QED BY <2>1, <1>1, <1>4, <1>5
<1> QED BY <1>1, <1>2, <1>4, <1>5, <1>6, <1>7, <1>9, <1>10, <1>11 DEF Untouched, k, n

----------------------------------------------------------------------------
(* One place further at p.                                                 *)
LEMMA PairsStay ==
  ASSUME StartOk, NEW R, Matching(R), NEW mate, NEW at, Paired(R, mate, at), Reached(mate, at),
         NEW p \in Nodes, mate[p] # Null, ~ Ended(Was(p), Was(mate[p]), at[p]),
         at[p] > Len(Was(p)) \/ at[p] > Len(Was(mate[p])),
         NEW then, then = [at EXCEPT ![p] = at[p] + 1]
  PROVE  Paired(R, mate, then) /\ Reached(mate, then)
<1>1. /\ at \in [Nodes -> Nat] /\ at[p] \in Nat
      /\ Len(Was(p)) \in Nat /\ Len(Was(mate[p])) \in Nat
  BY PairFacts DEF Paired
<1>2. /\ then \in [Nodes -> Nat] /\ then[p] = at[p] + 1
      /\ \A x \in Nodes : x # p => then[x] = at[x]
  BY <1>1
<1>3. /\ at[p] <= Len(Was(p)) \/ at[p] <= Len(Was(mate[p]))
      /\ at[p] >= 1
  BY <1>1, PairFacts DEF Ended
<1>4. /\ then[p] >= 1
      /\ then[p] <= Len(Was(p)) + 1 \/ then[p] <= Len(Was(mate[p])) + 1
  BY <1>1, <1>2, <1>3
<1>5. Paired(R, mate, then)
  BY <1>2, <1>4 DEF Paired
<1>6. ASSUME NEW o \in Nodes, NEW q \in Nodes, NEW j \in Nat, Beneath(mate, at, o, q, j)
      PROVE  Beneath(mate, then, o, q, j)
  <2>1. j < at[q] => j < then[q]
    BY <1>1, <1>2
  <2> QED BY <2>1, <1>6 DEF Beneath
<1>7. ASSUME NEW q \in Nodes, NEW j \in Nat, mate[q] # Null, j < then[q],
             j \in 1 .. Len(Was(q)), j \in 1 .. Len(Was(mate[q]))
      PROVE  mate[Was(q)[j]] = Was(mate[q])[j]
  <2>1. j < at[q]
    <3>1. CASE q = p
      BY <3>1, <1>1, <1>2, <1>7
    <3>2. CASE q # p
      BY <3>2, <1>2, <1>7
    <3> QED BY <3>1, <3>2
  <2> QED BY <2>1, <1>7 DEF Reached
<1>8. Reached(mate, then)
  BY <1>6, <1>7 DEF Reached
<1> QED BY <1>5, <1>8

\* A pair more.
LEMMA PairsGrow ==
  ASSUME StartOk, NEW R, Matching(R), NEW mate, NEW at, Paired(R, mate, at), Reached(mate, at),
         NEW p \in Nodes, NEW c, NEW d, Upcoming(mate, at, p, c, d),
         NEW pairs, pairs = [mate EXCEPT ![c] = d],
         NEW then, then = [[at EXCEPT ![p] = at[p] + 1] EXCEPT ![c] = 1]
  PROVE  Paired(R, pairs, then) /\ Reached(pairs, then)
<1>1. /\ at[p] \in 1 .. Len(Was(p)) /\ at[p] \in 1 .. Len(Was(mate[p]))
      /\ c \in Nodes /\ d \in Nodes /\ <<c, d>> \in R /\ c # p /\ c # OldRoot
      /\ mate[c] = Null /\ \A o \in Nodes : mate[o] # d
      /\ mate[p] # Null /\ c = Was(p)[at[p]] /\ d = Was(mate[p])[at[p]]
  BY NextPair DEF Untouched, Upcoming
<1>2. /\ mate \in [Nodes -> Nodes \union {Null}] /\ at \in [Nodes -> Nat] /\ at[p] \in Nat
      /\ Len(Was(p)) \in Nat /\ Len(Was(mate[p])) \in Nat
      /\ Len(Was(c)) \in Nat /\ Len(Was(d)) \in Nat /\ d # Null
  <2>1. mate \in [Nodes -> Nodes \union {Null}] /\ at \in [Nodes -> Nat] /\ at[p] \in Nat
    BY DEF Paired
  <2>2. Len(Was(p)) \in Nat /\ Len(Was(mate[p])) \in Nat
    BY <1>1, PairFacts
  <2>3. Len(Was(c)) \in Nat /\ Len(Was(d)) \in Nat /\ d # Null
    BY <1>1, Family, NodeFacts
  <2> QED BY <2>1, <2>2, <2>3
<1>3. /\ pairs \in [Nodes -> Nodes \union {Null}] /\ pairs[c] = d
      /\ \A x \in Nodes : x # c => pairs[x] = mate[x]
      /\ \A x \in Nodes : mate[x] # Null => x # c /\ pairs[x] = mate[x]
  BY <1>1, <1>2
<1>4. /\ then \in [Nodes -> Nat] /\ then[p] = at[p] + 1 /\ then[c] = 1
      /\ \A x \in Nodes : x # p /\ x # c => then[x] = at[x]
  BY <1>1, <1>2
<1>5. ASSUME NEW o \in Nodes, pairs[o] # Null
      PROVE  /\ <<o, pairs[o]>> \in R
             /\ then[o] >= 1
             /\ then[o] <= Len(Was(o)) + 1 \/ then[o] <= Len(Was(pairs[o])) + 1
  <2>1. CASE o = c
    <3>1. 1 <= Len(Was(c)) + 1
      BY <1>2
    <3>2. <<c, pairs[c]>> \in R
      BY <1>1, <1>3
    <3>3. then[c] >= 1 /\ then[c] <= Len(Was(c)) + 1
      BY <3>1, <1>4
    <3> QED BY ONLY <3>2, <3>3, <2>1
  <2>2. CASE o # c
    <3>1. /\ pairs[o] = mate[o] /\ <<o, mate[o]>> \in R /\ at[o] >= 1
          /\ at[o] <= Len(Was(o)) + 1 \/ at[o] <= Len(Was(mate[o])) + 1
      BY <2>2, <1>3, <1>5 DEF Paired
    <3>2. CASE o = p
      <4>1. then[p] >= 1 /\ then[p] <= Len(Was(p)) + 1
        BY <1>1, <1>2, <1>4
      <4> QED BY <4>1, <3>1, <3>2
    <3>3. CASE o # p
      BY <2>2, <3>1, <3>3, <1>4
    <3> QED BY <3>2, <3>3
  <2> QED BY <2>1, <2>2
<1>6. ASSUME NEW o \in Nodes, NEW q \in Nodes, pairs[o] # Null, pairs[o] = pairs[q] PROVE o = q
  <2>1. o # c /\ q # c => o = q
    BY <1>3, <1>6 DEF Paired
  <2>2. o = c => q = c
    BY <1>1, <1>3, <1>6
  <2>3. q = c => o = c
    BY <1>1, <1>3, <1>6
  <2> QED BY <2>1, <2>2, <2>3
<1>7. pairs[OldRoot] = NewRoot
  BY <1>1, <1>3, RootsAreNodes DEF Paired
<1>8. Paired(R, pairs, then)
  BY <1>3, <1>4, <1>5, <1>6, <1>7 DEF Paired
<1>9. ASSUME NEW o \in Nodes, pairs[o] # Null, o # OldRoot
      PROVE  \E q \in Nodes, j \in Nat : Beneath(pairs, then, o, q, j)
  <2>1. CASE o = c
    <3>1. at[p] < then[p] /\ at[p] \in Nat
      BY <1>2, <1>4
    <3>2. pairs[p] = mate[p]
      BY <1>1, <1>3
    <3>3. Beneath(pairs, then, c, p, at[p])
      BY <3>1, <3>2, <1>1, <1>3 DEF Beneath
    <3> QED BY <3>1, <3>3, <2>1
  <2>2. CASE o # c
    <3>1. pairs[o] = mate[o]
      BY <2>2, <1>3
    <3>2. PICK q \in Nodes, j \in Nat : Beneath(mate, at, o, q, j)
      BY <3>1, <1>9 DEF Reached
    <3>3. mate[q] # Null
      BY <3>2 DEF Beneath
    <3>4. q # c /\ pairs[q] = mate[q]
      BY <3>3, <1>3
    <3>5. j < at[q] => j < then[q]
      BY <3>4, <1>2, <1>4
    <3>6. Beneath(pairs, then, o, q, j)
      BY <3>1, <3>2, <3>4, <3>5 DEF Beneath
    <3> QED BY <3>6
  <2> QED BY <2>1, <2>2
<1>10. ASSUME NEW q \in Nodes, NEW j \in Nat, pairs[q] # Null, j < then[q],
              j \in 1 .. Len(Was(q)), j \in 1 .. Len(Was(pairs[q]))
       PROVE  pairs[Was(q)[j]] = Was(pairs[q])[j]
  <2>1. q # c
    <3>1. j >= 1
      BY <1>10
    <3> QED BY <3>1, <1>4, <1>10
  <2>2. pairs[q] = mate[q]
    BY <2>1, <1>3
  <2>3. CASE j < at[q]
    <3>1. mate[Was(q)[j]] = Was(mate[q])[j]
      BY <2>2, <2>3, <1>10 DEF Reached
    <3>2. mate[q] \in Nodes
      BY <2>2, <1>10, PairFacts
    <3>3. Was(q)[j] \in Nodes /\ Was(mate[q])[j] \in Nodes
      BY <3>2, <2>2, <1>10, Family
    <3>4. mate[Was(q)[j]] # Null
      BY <3>1, <3>3, NodeFacts
    <3> QED BY <3>1, <3>3, <3>4, <2>2, <1>3
  <2>4. CASE ~ (j < at[q])
    <3>1. q = p
      BY <2>1, <2>4, <1>4, <1>10
    <3>2. j = at[p]
      BY <3>1, <2>4, <1>2, <1>4, <1>10
    <3>3. pairs[c] = d /\ c = Was(p)[at[p]] /\ d = Was(mate[p])[at[p]] /\ pairs[p] = mate[p]
      BY <3>1, <2>2, <1>1, <1>3
    <3> QED BY ONLY <3>1, <3>2, <3>3
  <2> QED BY <2>3, <2>4
<1>11. Reached(pairs, then)
  BY <1>9, <1>10 DEF Reached
<1> QED BY <1>8, <1>11

----------------------------------------------------------------------------
(* The stack of calls.                                                     *)
LEMMA StackMoves ==
  ASSUME NEW st \in Seq(Frames), st # << >>, NEW mate, NEW at \in [Nodes -> Nat],
         Stacked(st, mate, at),
         NEW p, p = Last(st).old,
         NEW then, then = [at EXCEPT ![p] = at[p] + 1],
         NEW e \in Frames, e.old = p, e.new = mate[p],
         e.oldChild = Item(Was(p), at[p] + 1), e.newChild = Item(Was(mate[p]), at[p] + 1),
         NEW now, now = Append(Front(st), e)
  PROVE  now \in Seq(Frames) /\ Stacked(now, mate, then)
<1>a. /\ now \in Seq(Frames) /\ Len(now) = Len(st) /\ now[Len(st)] = e
      /\ \A i \in 1 .. Len(st) - 1 : now[i] = st[i]
  <2>1. now \in Seq(Frames)
    BY ONLY LastReplaced, st \in Seq(Frames), st # << >>, e \in Frames, now = Append(Front(st), e)
  <2>2. Len(now) = Len(st)
    BY ONLY LastReplaced, st \in Seq(Frames), st # << >>, e \in Frames, now = Append(Front(st), e)
  <2>3. now[Len(st)] = e
    BY ONLY LastReplaced, st \in Seq(Frames), st # << >>, e \in Frames, now = Append(Front(st), e)
  <2>4. \A i \in 1 .. Len(st) - 1 : now[i] = st[i]
    BY ONLY LastReplaced, st \in Seq(Frames), st # << >>, e \in Frames, now = Append(Front(st), e)
  <2> QED BY <2>1, <2>2, <2>3, <2>4
<1> DEFINE n == Len(st)
<1>1. /\ n \in Nat /\ n >= 1 /\ n \in 1 .. n /\ Last(st) = st[n] /\ Last(st) \in Frames
  BY LastOff
<1>2. /\ now \in Seq(Frames) /\ Len(now) = n /\ now[n] = e
      /\ \A i \in 1 .. n - 1 : now[i] = st[i]
  BY <1>a
<1> HIDE DEF n
<1>3. p \in Nodes /\ then[p] = at[p] + 1 /\ \A x \in Nodes : x # p => then[x] = at[x]
  BY <1>1 DEF Frames
<1>4. /\ \A i \in 1 .. n : Reads(st[i], mate, at)
      /\ \A i, j \in 1 .. n : st[i].old = st[j].old => i = j
  BY DEF Stacked, n
<1>5. ASSUME NEW i \in 1 .. n PROVE now[i].old = st[i].old /\ (i # n => now[i] = st[i])
  <2>1. i = n \/ i \in 1 .. n - 1
    BY <1>1
  <2> QED BY <2>1, <1>1, <1>2
<1>6. ASSUME NEW i \in 1 .. n PROVE Reads(now[i], mate, then)
  <2>1. CASE i = n
    <3>1. mate[p] # Null
      BY <1>1, <1>4 DEF Reads
    <3> QED BY <3>1, <2>1, <1>2, <1>3 DEF Reads
  <2>2. CASE i # n
    <3>1. now[i] = st[i] /\ st[i].old # p /\ st[i] \in Frames
      BY <2>2, <1>1, <1>4, <1>5, ElementOfSeq DEF n
    <3>2. then[st[i].old] = at[st[i].old]
      BY <3>1, <1>3 DEF Frames
    <3> QED BY <3>1, <3>2, <1>4 DEF Reads
  <2> QED BY <2>1, <2>2
<1>7. \A i, j \in 1 .. n : now[i].old = now[j].old => i = j
  BY <1>4, <1>5
<1>8. ASSUME NEW o \in Nodes, mate[o] # Null
      PROVE  (\E i \in 1 .. n : now[i].old = o) \/ Ended(Was(o), Was(mate[o]), then[o])
  <2>1. CASE \E i \in 1 .. n : st[i].old = o
    BY <2>1, <1>5
  <2>2. CASE ~ \E i \in 1 .. n : st[i].old = o
    <3>1. Ended(Was(o), Was(mate[o]), at[o])
      BY <2>2, <1>8 DEF Stacked, n
    <3>2. o # p
      BY <2>2, <1>1
    <3> QED BY <3>1, <3>2, <1>3
  <2> QED BY <2>1, <2>2
<1> QED BY <1>2, <1>6, <1>7, <1>8 DEF Stacked

LEMMA StackGrows ==
  ASSUME NEW st \in Seq(Frames), NEW mate \in [Nodes -> Nodes \union {Null}],
         NEW at \in [Nodes -> Nat], Stacked(st, mate, at),
         NEW c \in Nodes, NEW d \in Nodes, mate[c] = Null,
         NEW pairs, pairs = [mate EXCEPT ![c] = d], NEW then, then = [at EXCEPT ![c] = 1],
         NEW e \in Frames, e = Frame(c, d, Item(Was(c), 1), Item(Was(d), 1)),
         NEW now, now = Append(st, e)
  PROVE  now \in Seq(Frames) /\ Stacked(now, pairs, then)
<1> DEFINE n == Len(st)
<1>1. /\ now \in Seq(Frames) /\ n \in Nat /\ Len(now) = n + 1 /\ now[n + 1] = e
      /\ \A i \in 1 .. n : now[i] = st[i]
  BY PutOn
<1>2. /\ pairs[c] = d /\ d # Null /\ then[c] = 1
      /\ \A x \in Nodes : x # c => pairs[x] = mate[x] /\ then[x] = at[x]
  BY NodeFacts
<1>3. e.old = c /\ e.new = d /\ e.oldChild = Item(Was(c), 1) /\ e.newChild = Item(Was(d), 1)
  BY DEF Frame
<1>4. /\ \A i \in 1 .. n : st[i].old \in Nodes /\ Reads(st[i], mate, at)
      /\ \A i, j \in 1 .. n : st[i].old = st[j].old => i = j
  <2>1. \A i \in 1 .. n : st[i] \in Frames
    BY ElementOfSeq
  <2>2. \A i \in 1 .. n : st[i].old \in Nodes
    BY <2>1 DEF Frames
  <2> QED BY <2>2 DEF Stacked
<1> HIDE DEF n
<1>5. \A i \in 1 .. n : st[i].old # c
  BY <1>4 DEF Reads
<1>6. ASSUME NEW i \in 1 .. n + 1 PROVE Reads(now[i], pairs, then)
  <2>1. CASE i = n + 1
    BY <2>1, <1>1, <1>2, <1>3 DEF Reads
  <2>2. CASE i \in 1 .. n
    <3>1. pairs[st[i].old] = mate[st[i].old] /\ then[st[i].old] = at[st[i].old]
      BY <2>2, <1>2, <1>4, <1>5
    <3> QED BY <3>1, <2>2, <1>1, <1>4 DEF Reads
  <2> QED BY <2>1, <2>2, <1>1
<1>7. ASSUME NEW i \in 1 .. n + 1, NEW j \in 1 .. n + 1, now[i].old = now[j].old PROVE i = j
  <2>1. (i = n + 1 \/ i \in 1 .. n) /\ (j = n + 1 \/ j \in 1 .. n)
    BY <1>1
  <2> QED BY <2>1, <1>1, <1>3, <1>4, <1>5, <1>7
<1>8. ASSUME NEW o \in Nodes, pairs[o] # Null
      PROVE  (\E i \in 1 .. n + 1 : now[i].old = o) \/ Ended(Was(o), Was(pairs[o]), then[o])
  <2>1. CASE o = c
    <3>1. n + 1 \in 1 .. n + 1
      BY <1>1
    <3> QED BY <3>1, <2>1, <1>1, <1>3
  <2>2. CASE o # c
    <3>1. pairs[o] = mate[o] /\ then[o] = at[o]
      BY <2>2, <1>2
    <3>2. (\E i \in 1 .. n : st[i].old = o) \/ Ended(Was(o), Was(mate[o]), at[o])
      BY <3>1, <1>8 DEF Stacked, n
    <3>3. \A i \in 1 .. n : i \in 1 .. n + 1
      BY <1>1
    <3> QED BY <3>1, <3>2, <3>3, <1>1
  <2> QED BY <2>1, <2>2
<1> QED BY <1>1, <1>6, <1>7, <1>8 DEF Stacked

LEMMA StackShrinks ==
  ASSUME NEW st \in Seq(Frames), st # << >>, NEW mate, NEW at, Stacked(st, mate, at),
         Ended(Was(Last(st).old), Was(mate[Last(st).old]), at[Last(st).old]),
         NEW now, now = Front(st)
  PROVE  now \in Seq(Frames) /\ Stacked(now, mate, at)
<1> DEFINE n == Len(st)
<1>1. /\ n \in Nat /\ n >= 1 /\ n \in 1 .. n /\ Last(st) = st[n]
      /\ now \in Seq(Frames) /\ Len(now) = n - 1 /\ \A i \in 1 .. n - 1 : now[i] = st[i]
  BY LastOff
<1>2. /\ \A i \in 1 .. n : Reads(st[i], mate, at)
      /\ \A i, j \in 1 .. n : st[i].old = st[j].old => i = j
  BY DEF Stacked
<1>3. ASSUME NEW o \in Nodes, mate[o] # Null
      PROVE  (\E i \in 1 .. n : st[i].old = o) \/ Ended(Was(o), Was(mate[o]), at[o])
  BY <1>3 DEF Stacked
<1> HIDE DEF n
<1>4. \A i \in 1 .. n : i = n \/ i \in 1 .. n - 1
  BY <1>1
<1>5. \A i \in 1 .. n - 1 : i \in 1 .. n
  BY <1>1
<1>6. ASSUME NEW o \in Nodes, mate[o] # Null
      PROVE  (\E i \in 1 .. n - 1 : now[i].old = o) \/ Ended(Was(o), Was(mate[o]), at[o])
  BY <1>1, <1>3, <1>4, <1>6
<1>7. /\ \A i \in 1 .. n - 1 : Reads(now[i], mate, at)
      /\ \A i, j \in 1 .. n - 1 : now[i].old = now[j].old => i = j
  BY <1>1, <1>2, <1>5
<1> QED BY <1>1, <1>6, <1>7 DEF Stacked

----------------------------------------------------------------------------
(* The lists.                                                              *)

\* What the neighbours of the current children are, before the step.
LEMMA NewSibling ==
  ASSUME StartOk, NEW h, NEW o, NEW n \in Nodes, NEW k \in Nat, PartWay(h, o, n, k),
         k >= 1, k <= Len(Was(n))
  PROVE  /\ Item(Was(n), k) = Was(n)[k] /\ Was(n)[k] \in Nodes
         /\ h.parent[Was(n)[k]] = n
         /\ h.next[Was(n)[k]] = Item(Was(n), k + 1)
         /\ k = 1 => h.prev[Was(n)[k]] = Null
<1>1. k \in 1 .. Len(Was(n)) /\ k >= k
  BY Family
<1> QED BY <1>1, Family DEF PartWay, Waiting, Item

LEMMA OldSibling ==
  ASSUME StartOk, NEW R, Matching(R), NEW mate, NEW at, Paired(R, mate, at), Reached(mate, at),
         NEW h, NEW p \in Nodes, NEW c, NEW d, Upcoming(mate, at, p, c, d),
         PartWay(h, p, mate[p], at[p])
  PROVE  h.next[c] = Item(Was(p), at[p] + 1)
<1> DEFINE k == at[p]
           n == mate[p]
<1>0. mate[p] # Null
  BY DEF Upcoming
<1>1. /\ n \in Nodes /\ Was(p) \in Seq(Nodes) /\ Was(n) \in Seq(Nodes) /\ Len(Was(p)) \in Nat
      /\ k \in Nat /\ k >= 1
  <2>1. n \in Nodes /\ k \in Nat /\ k >= 1
    BY <1>0 DEF Paired
  <2>2. Was(p) \in Seq(Nodes) /\ Was(n) \in Seq(Nodes) /\ Len(Was(p)) \in Nat
    BY <2>1, Family
  <2> QED BY <2>1, <2>2
<1>2. k \in 1 .. Len(Was(p)) /\ k <= Len(Was(p)) /\ k <= Len(Was(n)) /\ c = Was(p)[k]
  BY <1>1 DEF Upcoming
<1>3. PartWay(h, p, n, k)
  OBVIOUS
<1> HIDE DEF k, n
<1>4. Held(h, p, Was(p), Null)
  BY <1>1, <1>2, <1>3, NowCompared DEF PartWay
<1>5. h.next[Was(p)[k]] = IF k = Len(Was(p)) THEN Null ELSE Was(p)[k + 1]
  BY <1>2, <1>4 DEF Held
<1>6. Item(Was(p), k + 1) = IF k = Len(Was(p)) THEN Null ELSE Was(p)[k + 1]
  <2>1. k + 1 <= Len(Was(p)) <=> k # Len(Was(p))
    BY <1>1, <1>2
  <2> QED BY <2>1 DEF Item
<1> QED BY <1>2, <1>5, <1>6 DEF k

\* What an untouched node has is what the walk finds there.
LEMMA FirstIs ==
  ASSUME StartOk, NEW h, NEW x \in Nodes, Held(h, x, Was(x), Null)
  PROVE  h.first[x] = Item(Was(x), 1)
<1>1. Len(Was(x)) \in Nat /\ (1 <= Len(Was(x)) <=> Len(Was(x)) # 0)
  BY Family
<1> QED BY <1>1 DEF Held, Item

LEMMA StartsPartWay ==
  ASSUME StartOk, NEW h, NEW c \in Nodes, NEW d \in Nodes,
         Held(h, c, Was(c), Null), Held(h, d, Was(d), Null)
  PROVE  PartWay(h, c, d, 1)
<1>1. /\ Was(c) \in Seq(Nodes) /\ Len(Was(c)) \in Nat /\ Len(Was(d)) \in Nat
      /\ 1 <= Len(Was(c)) + 1 /\ 1 <= Len(Was(d)) + 1 /\ ~ (1 > Len(Was(c)) + 1)
  BY Family
<1>2. Now(Was(c), Was(d), 1) = Was(c) /\ After(Was(c), Was(d), 1) = Null
  BY ONLY <1>1 DEF Now, After
<1>3. ASSUME NEW j \in 1 .. Len(Was(d))
      PROVE  /\ h.parent[Was(d)[j]] = d
             /\ h.next[Was(d)[j]] = Item(Was(d), j + 1)
             /\ j = 1 => h.prev[Was(d)[j]] = Null
  <2>1. /\ h.parent[Was(d)[j]] = d
        /\ h.next[Was(d)[j]] = IF j = Len(Was(d)) THEN Null ELSE Was(d)[j + 1]
        /\ h.prev[Was(d)[j]] = IF j = 1 THEN Null ELSE Was(d)[j - 1]
    BY DEF Held
  <2>2. j + 1 <= Len(Was(d)) <=> j # Len(Was(d))
    BY <1>1
  <2> QED BY <2>1, <2>2 DEF Item
<1>4. Waiting(h, c, d, 1)
  BY <1>3 DEF Waiting
<1> QED BY <1>2, <1>4 DEF PartWay

\* A pair is compared: no list changes.
LEMMA LinksCompared ==
  ASSUME StartOk, NEW R, Matching(R), NEW mate, NEW at, Paired(R, mate, at), Reached(mate, at),
         NEW h, Linkage(h, mate, at),
         NEW p \in Nodes, NEW c, NEW d, Upcoming(mate, at, p, c, d),
         NEW pairs, pairs = [mate EXCEPT ![c] = d],
         NEW then, then = [[at EXCEPT ![p] = at[p] + 1] EXCEPT ![c] = 1]
  PROVE  /\ Linkage(h, pairs, then)
         /\ h.first[c] = Item(Was(c), 1) /\ h.first[d] = Item(Was(d), 1)
<1>0. /\ mate[p] # Null /\ at[p] <= Len(Was(p)) /\ at[p] <= Len(Was(mate[p]))
      /\ c = Was(p)[at[p]] /\ d = Was(mate[p])[at[p]]
  BY DEF Upcoming
<1>1. /\ c \in Nodes /\ d \in Nodes /\ c # p /\ Untouched(mate, c) /\ Untouched(mate, d)
  BY NextPair
<1>2. /\ mate \in [Nodes -> Nodes \union {Null}] /\ at \in [Nodes -> Nat] /\ at[p] \in Nat
      /\ mate[p] \in Nodes
  BY <1>0, PairFacts DEF Paired
<1>3. Held(h, c, Was(c), Null) /\ Held(h, d, Was(d), Null)
  BY <1>1 DEF Linkage
<1>4. /\ pairs[c] = d /\ mate[c] = Null
      /\ \A x \in Nodes : x # c => pairs[x] = mate[x]
      /\ then[p] = at[p] + 1 /\ then[c] = 1
      /\ \A x \in Nodes : x # p /\ x # c => then[x] = at[x]
  BY <1>1, <1>2 DEF Untouched
<1>5. ASSUME NEW o \in Nodes, pairs[o] # Null PROVE PartWay(h, o, pairs[o], then[o])
  <2>1. CASE o = c
    <3>1. PartWay(h, c, d, 1)
      BY <1>1, <1>3, StartsPartWay
    <3> QED BY <3>1, <2>1, <1>4
  <2>2. CASE o = p
    <3>1. PartWay(h, p, mate[p], at[p])
      BY <1>0 DEF Linkage
    <3>2. /\ Now(Was(p), Was(mate[p]), at[p]) = Was(p)
          /\ After(Was(p), Was(mate[p]), at[p]) = Null
          /\ Now(Was(p), Was(mate[p]), at[p] + 1) = Was(p)
          /\ After(Was(p), Was(mate[p]), at[p] + 1) = Null
      BY <1>0, <1>2, Family, NowCompared
    <3>3. Held(h, p, Now(Was(p), Was(mate[p]), at[p] + 1), After(Was(p), Was(mate[p]), at[p] + 1))
      BY <3>1, <3>2 DEF PartWay
    <3>4. \A j \in 1 .. Len(Was(mate[p])) : j >= at[p] + 1 => j >= at[p]
      BY <1>2
    <3>5. Waiting(h, p, mate[p], at[p] + 1)
      BY <3>1, <3>4 DEF PartWay, Waiting
    <3>6. PartWay(h, p, mate[p], at[p] + 1)
      BY <3>3, <3>5 DEF PartWay
    <3> QED BY <3>6, <2>2, <1>1, <1>4
  <2>3. CASE o # c /\ o # p
    <3>1. pairs[o] = mate[o] /\ then[o] = at[o]
      BY <2>3, <1>4
    <3> QED BY <3>1, <1>5 DEF Linkage
  <2> QED BY <2>1, <2>2, <2>3
<1>6. ASSUME NEW x \in Nodes, Untouched(pairs, x) PROVE Held(h, x, Was(x), Null)
  <2>1. x # c
    BY <1>1, <1>4, <1>6, NodeFacts DEF Untouched
  <2>2. mate[x] = Null
    BY <2>1, <1>4, <1>6 DEF Untouched
  <2>3. ASSUME NEW o \in Nodes PROVE mate[o] # x
    BY <1>4, <1>6, NodeFacts DEF Untouched
  <2>4. Untouched(mate, x)
    BY <2>2, <2>3 DEF Untouched
  <2> QED BY <2>4 DEF Linkage
<1>7. Linkage(h, pairs, then)
  BY <1>5, <1>6 DEF Linkage
<1>8. h.first[c] = Item(Was(c), 1) /\ h.first[d] = Item(Was(d), 1)
  BY <1>1, <1>3, FirstIs
<1> QED BY <1>7, <1>8

\* What is left of an old list is taken out.
LEMMA LinksRemoved ==
  ASSUME StartOk, NEW R, Matching(R), NEW mate, NEW at, Paired(R, mate, at), Reached(mate, at),
         NEW h \in Links, Linkage(h, mate, at),
         NEW p \in Nodes, mate[p] # Null, at[p] <= Len(Was(p)), Len(Was(mate[p])) < at[p],
         NEW c, c = Was(p)[at[p]], NEW g, g = UnlinkChild(h, p, c),
         NEW then, then = [at EXCEPT ![p] = at[p] + 1]
  PROVE  /\ Linkage(g, mate, then)
         /\ c \in Nodes /\ h.parent[c] = p /\ h.next[c] = Item(Was(p), at[p] + 1)
<1> DEFINE a == Was(p)
           n == mate[p]
           b == Was(n)
           k == at[p]
           s == Now(a, b, k)
           i == Len(b) + 1
<1>1. /\ n \in Nodes /\ a \in Seq(Nodes) /\ b \in Seq(Nodes) /\ Len(a) \in Nat /\ Len(b) \in Nat
      /\ k \in Nat /\ k >= 1 /\ p <= Half
      /\ at \in [Nodes -> Nat]
  <2>1. n \in Nodes /\ k \in Nat /\ k >= 1 /\ at \in [Nodes -> Nat]
    BY DEF Paired
  <2>2. p <= Half
    BY PairFacts
  <2>3. \A x \in Nodes : Was(x) \in Seq(Nodes) /\ Len(Was(x)) \in Nat
    BY Family
  <2> QED BY <2>1, <2>2, <2>3
<1>2. k \in 1 .. Len(a) /\ k <= Len(a) /\ Len(b) < k /\ c = a[k]
  BY <1>1
<1>3. PartWay(h, p, n, k)
  BY DEF Linkage
<1>4. then[p] = k + 1 /\ \A x \in Nodes : x # p => then[x] = at[x]
  BY <1>1
<1> HIDE DEF k
<1>5. /\ After(a, b, k) = Null /\ After(a, b, k + 1) = Null
      /\ s \in Seq(Nodes) /\ i \in 1 .. Len(s) /\ s[i] = a[k]
      /\ Item(a, k + 1) = IF i = Len(s) THEN Null ELSE s[i + 1]
      /\ RemoveAt(s, i) = Now(a, b, k + 1)
  <2> HIDE DEF a, b
  <2> QED BY <1>1, <1>2, NowRemoved
<1> HIDE DEF a, s, i, n
<1>6. Held(h, p, s, Null)
  BY <1>3, <1>5 DEF PartWay, a, s, n
<1>7. c = s[i] /\ g = UnlinkChild(h, p, s[i])
  BY <1>2, <1>5
<1>8. Held(g, p, RemoveAt(s, i), Null)
  BY <1>5, <1>6, <1>7, UnlinkHeld
<1>9. /\ \A q \in Nodes : q # p => /\ g.first[q] = h.first[q] /\ g.last[q] = h.last[q]
                                   /\ g.count[q] = h.count[q]
      /\ \A x \in Nodes : h.parent[x] # p =>
           /\ g.parent[x] = h.parent[x] /\ g.next[x] = h.next[x] /\ g.prev[x] = h.prev[x]
      /\ \A x \in Nodes : g.parent[x] = IF x = s[i] THEN Null ELSE h.parent[x]
  BY <1>5, <1>6, <1>7, UnlinkLeaves
<1>10. ASSUME NEW q \in Nodes, q # p, NEW t, NEW e, Held(h, q, t, e) PROVE Held(g, q, t, e)
  <2>1. \A x \in Nodes : h.parent[x] = q =>
           /\ g.parent[x] = h.parent[x] /\ g.next[x] = h.next[x] /\ g.prev[x] = h.prev[x]
    BY <1>9, <1>10
  <2>2. \A x \in Nodes : g.parent[x] = q => h.parent[x] = q
    BY <1>9, NodeFacts
  <2> QED BY <2>1, <2>2, <1>9, <1>10, HeldElsewhere
<1>11. ASSUME NEW o \in Nodes, mate[o] # Null PROVE PartWay(g, o, mate[o], then[o])
  <2>1. CASE o = p
    <3>1. Held(g, p, Now(a, b, k + 1), After(a, b, k + 1))
      BY <1>5, <1>8
    <3>2. \A j \in 1 .. Len(b) : ~ (j >= k + 1)
      BY <1>1, <1>2
    <3>3. Waiting(g, p, n, k + 1)
      BY <3>2 DEF Waiting
    <3>4. PartWay(g, p, n, k + 1)
      BY <3>1, <3>3 DEF PartWay, a
    <3> QED BY <3>4, <2>1, <1>4 DEF n
  <2>2. CASE o # p
    <3>1. PartWay(h, o, mate[o], at[o]) /\ then[o] = at[o]
      BY <2>2, <1>4, <1>11 DEF Linkage
    <3>2. Held(g, o, Now(Was(o), Was(mate[o]), at[o]), After(Was(o), Was(mate[o]), at[o]))
      BY <3>1, <2>2, <1>10 DEF PartWay
    <3>3. mate[o] \in Nodes /\ mate[o] # p
      <4>1. mate[o] \in Nodes /\ ~ (mate[o] <= Half)
        BY ONLY <1>11, o \in Nodes, PairFacts, StartOk, Matching(R), Paired(R, mate, at)
      <4> QED BY ONLY <4>1, <1>1
    <3>4. ASSUME NEW j \in 1 .. Len(Was(mate[o])), j >= at[o]
          PROVE  LET x == Was(mate[o])[j] IN
                 g.parent[x] = h.parent[x] /\ g.next[x] = h.next[x] /\ g.prev[x] = h.prev[x]
      <4>1. Was(mate[o])[j] \in Nodes
        BY <3>3, Family
      <4>2. h.parent[Was(mate[o])[j]] = mate[o]
        BY <3>1, <3>4 DEF PartWay, Waiting
      <4> QED BY <4>1, <4>2, <3>3, <1>9
    <3>5. Waiting(g, o, mate[o], at[o])
      BY <3>1, <3>4 DEF PartWay, Waiting
    <3> QED BY <3>1, <3>2, <3>5 DEF PartWay
  <2> QED BY <2>1, <2>2
<1>12. ASSUME NEW x \in Nodes, Untouched(mate, x) PROVE Held(g, x, Was(x), Null)
  <2>1. x # p
    BY <1>12 DEF Untouched
  <2> QED BY <2>1, <1>10, <1>12 DEF Linkage
<1>13. Linkage(g, mate, then)
  BY <1>11, <1>12 DEF Linkage
<1>14. c \in Nodes /\ h.parent[c] = p /\ h.next[c] = Item(a, k + 1)
  <2>1. s[i] \in Nodes
    BY <1>5, ElementOfSeq
  <2>2. h.parent[s[i]] = p /\ h.next[s[i]] = IF i = Len(s) THEN Null ELSE s[i + 1]
    BY <1>5, <1>6 DEF Held
  <2> QED BY <2>1, <2>2, <1>5, <1>7
<1> QED BY <1>13, <1>14 DEF a, k

\* What is left of a new list is moved over.
LEMMA LinksInserted ==
  ASSUME StartOk, NEW R, Matching(R), NEW mate, NEW at, Paired(R, mate, at), Reached(mate, at),
         NEW h \in Links, Linkage(h, mate, at),
         NEW p \in Nodes, mate[p] # Null, Len(Was(p)) < at[p], at[p] <= Len(Was(mate[p])),
         NEW c, c = Was(mate[p])[at[p]], NEW g, g = AppendChild(h, p, c),
         NEW then, then = [at EXCEPT ![p] = at[p] + 1]
  PROVE  /\ Linkage(g, mate, then)
         /\ c \in Nodes /\ h.next[c] = Item(Was(mate[p]), at[p] + 1)
<1> DEFINE a == Was(p)
           n == mate[p]
           b == Was(n)
           k == at[p]
           s == Now(a, b, k)
           e == After(a, b, k)
<1>1. /\ n \in Nodes /\ a \in Seq(Nodes) /\ b \in Seq(Nodes) /\ Len(a) \in Nat /\ Len(b) \in Nat
      /\ k \in Nat /\ k >= 1 /\ p <= Half /\ ~ (n <= Half)
      /\ at \in [Nodes -> Nat]
  <2>1. n \in Nodes /\ k \in Nat /\ k >= 1 /\ at \in [Nodes -> Nat]
    BY DEF Paired
  <2>2. p <= Half /\ ~ (n <= Half)
    BY PairFacts
  <2>3. \A x \in Nodes : Was(x) \in Seq(Nodes) /\ Len(Was(x)) \in Nat
    BY Family
  <2> QED BY <2>1, <2>2, <2>3
<1>2. k \in 1 .. Len(b) /\ k <= Len(b) /\ Len(a) < k /\ c = b[k]
  BY <1>1
<1>3. PartWay(h, p, n, k)
  BY DEF Linkage
<1>4. then[p] = k + 1 /\ \A x \in Nodes : x # p => then[x] = at[x]
  BY <1>1
<1> HIDE DEF k
<1>5. /\ s \in Seq(Nodes) /\ Len(s) = k - 1
      /\ Append(s, b[k]) = Now(a, b, k + 1)
      /\ After(a, b, k + 1) = Item(b, k + 1)
  <2> HIDE DEF a, b
  <2>1. s \in Seq(Nodes) /\ Len(s) = k - 1
    BY <1>1, <1>2, NowInserted
  <2>2. Append(s, b[k]) = Now(a, b, k + 1)
    BY <1>1, <1>2, NowInserted
  <2>3. After(a, b, k + 1) = Item(b, k + 1)
    BY <1>1, <1>2, NowInserted
  <2> QED BY <2>1, <2>2, <2>3
<1>6. /\ c \in Nodes /\ h.parent[c] = n /\ h.next[c] = Item(b, k + 1)
      /\ k = 1 => h.prev[c] = Null
  BY <1>1, <1>2, <1>3, NewSibling
<1>7. Held(h, p, s, e)
  BY <1>3 DEF PartWay
<1> HIDE DEF a, b, s, e, n
<1>8. Held(g, p, Append(s, c), h.next[c])
  <2>1. \A i \in 1 .. Len(s) : s[i] # c
    <3>1. p # n
      BY ONLY <1>1
    <3>2. \A i \in 1 .. Len(s) : h.parent[s[i]] = p
      BY ONLY <1>7 DEF Held
    <3> QED BY ONLY <1>6, <3>1, <3>2
  <2>2. Len(s) = 0 => h.prev[c] = Null
    <3>1. Len(s) = 0 => k = 1
      BY ONLY <1>1, <1>5
    <3> QED BY <3>1, <1>6
  <2> QED BY <2>1, <2>2, <1>6, <1>7, AppendHeld
<1>9. /\ \A q \in Nodes : q # p => /\ g.first[q] = h.first[q] /\ g.last[q] = h.last[q]
                                   /\ g.count[q] = h.count[q]
      /\ \A x \in Nodes : x # c /\ h.parent[x] # p =>
           /\ g.parent[x] = h.parent[x] /\ g.next[x] = h.next[x] /\ g.prev[x] = h.prev[x]
      /\ \A x \in Nodes : g.parent[x] = IF x = c THEN p ELSE h.parent[x]
  BY <1>6, <1>7, AppendLeaves
<1>10. ASSUME NEW q \in Nodes, q # p, q # n, NEW t, NEW f, Held(h, q, t, f) PROVE Held(g, q, t, f)
  <2>1. \A x \in Nodes : h.parent[x] = q =>
           /\ g.parent[x] = h.parent[x] /\ g.next[x] = h.next[x] /\ g.prev[x] = h.prev[x]
    BY <1>6, <1>9, <1>10
  <2>2. \A x \in Nodes : g.parent[x] = q => h.parent[x] = q
    BY <1>9, <1>10
  <2> QED BY <2>1, <2>2, <1>9, <1>10, HeldElsewhere
<1>11. ASSUME NEW o \in Nodes, mate[o] # Null PROVE PartWay(g, o, mate[o], then[o])
  <2>1. CASE o = p
    <3>1. Held(g, p, Now(a, b, k + 1), After(a, b, k + 1))
      BY <1>2, <1>5, <1>6, <1>8
    <3>2. ASSUME NEW j \in 1 .. Len(b), j >= k + 1
          PROVE  LET x == b[j] IN
                 /\ g.parent[x] = n /\ g.next[x] = Item(b, j + 1)
                 /\ j = 1 => g.prev[x] = Null
      <4>1. j >= k /\ j # k /\ j # 1
        BY <3>2, <1>1
      <4>2. b[j] \in Nodes /\ b[j] # b[k]
        <5>1. /\ \A i \in 1 .. Len(b) : b[i] \in Nodes
              /\ \A i, l \in 1 .. Len(b) : b[i] = b[l] => i = l
          BY <1>1, Family DEF b
        <5> QED BY <5>1, <4>1, <1>2
      <4>3. h.parent[b[j]] = n /\ h.next[b[j]] = Item(b, j + 1)
        BY <4>1, <1>3 DEF PartWay, Waiting, b
      <4>4. b[j] # c /\ n # p
        BY <4>2, <1>1, <1>2
      <4>5. g.parent[b[j]] = h.parent[b[j]] /\ g.next[b[j]] = h.next[b[j]]
        BY ONLY <4>2, <4>3, <4>4, <1>9
      <4> QED BY <4>1, <4>3, <4>5
    <3>3. Waiting(g, p, n, k + 1)
      BY <3>2 DEF Waiting, b
    <3>4. PartWay(g, p, n, k + 1)
      BY <3>1, <3>3 DEF PartWay, a, b
    <3> QED BY <3>4, <2>1, <1>4 DEF n
  <2>2. CASE o # p
    <3>1. PartWay(h, o, mate[o], at[o]) /\ then[o] = at[o]
      BY <2>2, <1>4, <1>11 DEF Linkage
    <3>2. mate[o] \in Nodes /\ ~ (mate[o] <= Half) /\ o <= Half
      BY ONLY <1>11, o \in Nodes, PairFacts, StartOk, Matching(R), Paired(R, mate, at)
    <3>3. mate[o] # p /\ mate[o] # n /\ o # n
      <4>1. mate[o] # n
        BY <2>2, <1>11 DEF n, Paired
      <4> QED BY ONLY <4>1, <3>2, <1>1
    <3>4. Held(g, o, Now(Was(o), Was(mate[o]), at[o]), After(Was(o), Was(mate[o]), at[o]))
      BY <3>1, <3>3, <2>2, <1>10 DEF PartWay
    <3>5. ASSUME NEW j \in 1 .. Len(Was(mate[o])), j >= at[o]
          PROVE  LET x == Was(mate[o])[j] IN
                 g.parent[x] = h.parent[x] /\ g.next[x] = h.next[x] /\ g.prev[x] = h.prev[x]
      <4>1. Was(mate[o])[j] \in Nodes
        BY <3>2, Family
      <4>2. h.parent[Was(mate[o])[j]] = mate[o]
        BY <3>1, <3>5 DEF PartWay, Waiting
      <4>3. Was(mate[o])[j] # c
        BY <4>2, <3>3, <1>6
      <4> QED BY <4>1, <4>2, <4>3, <3>3, <1>9
    <3>6. Waiting(g, o, mate[o], at[o])
      BY <3>1, <3>5 DEF PartWay, Waiting
    <3> QED BY <3>1, <3>4, <3>6 DEF PartWay
  <2> QED BY <2>1, <2>2
<1>12. ASSUME NEW x \in Nodes, Untouched(mate, x) PROVE Held(g, x, Was(x), Null)
  <2>1. x # p /\ x # n
    BY <1>12 DEF Untouched, n
  <2> QED BY <2>1, <1>10, <1>12 DEF Linkage
<1>13. Linkage(g, mate, then)
  BY <1>11, <1>12 DEF Linkage
<1> QED BY <1>6, <1>13 DEF b, n, k

----------------------------------------------------------------------------
(* Texts and attributes.                                                   *)

\* What a pair's own comparison does: only the old node changes, and it
\* comes to say what the new one says.
LEMMA OwnIs ==
  ASSUME NEW s, StateOk(s), NEW o \in Nodes, NEW n \in Nodes, o # n, Before \in Described,
         NEW t, t = DiffOwn(s, o, n)
  PROVE  /\ StateOk(t) /\ t.links = s.links
         /\ \A m \in Nodes : m # o => t.attrs[m] = s.attrs[m] /\ t.text[m] = s.text[m]
         /\ t.text[o] = IF IsText(kind[o]) THEN s.text[n] ELSE s.text[o]
         /\ s.asked <= t.asked /\ (Given(t) => SameValues(t.attrs[o], s.attrs[n]))
         /\ (IsText(kind[o]) => s.text[o] = s.text[n]) /\ SameValues(s.attrs[o], s.attrs[n])
            => t = s
<1> DEFINE x == DiffText(s, o, n)
           d == Dropped(x, o, n)
<1>1. /\ s \in States /\ s.text \in [Nodes -> Texts] /\ s.attrs \in [Nodes -> Lists]
      /\ s.text[n] \in Texts
  BY StateParts DEF StateOk
<1>2. /\ StateOk(x) /\ x.links = s.links /\ x.attrs = s.attrs /\ x.asked = s.asked
      /\ \A m \in Nodes : m # o => x.text[m] = s.text[m]
      /\ x.text[o] = IF IsText(kind[o]) THEN s.text[n] ELSE s.text[o]
      /\ (IsText(kind[o]) => s.text[o] = s.text[n]) => x = s
  <2>1. CASE IsText(kind[o]) /\ s.text[o] # s.text[n]
    <3> DEFINE w == [s EXCEPT !.text[o] = s.text[n]]
               v == ValueSet(s, o, s.text[n])
    <3>1. x = v
      BY <2>1 DEF DiffText
    <3>2. StateOk(v)
      BY <1>1, ValueSetOk
    <3>3. s = [links |-> s.links, attrs |-> s.attrs, text |-> s.text, queue |-> s.queue,
            asked |-> s.asked]
      BY <1>1, StateParts
    <3>4. /\ v.links = s.links /\ v.attrs = s.attrs /\ v.text = [s.text EXCEPT ![o] = s.text[n]]
          /\ v.asked = s.asked
      <4> DEFINE q == Sent(s, "UpdateText", o, Null, None, s.text[n])
                 u == [s EXCEPT !.text = [s.text EXCEPT ![o] = s.text[n]]]
      <4>1. u = [links |-> s.links, attrs |-> s.attrs, text |-> [s.text EXCEPT ![o] = s.text[n]],
                 queue |-> s.queue, asked |-> s.asked]
        BY ONLY <3>3
      <4>2. v = [u EXCEPT !.queue = q]
        BY DEF ValueSet
      <4> HIDE DEF q, u, v
      <4> QED BY ONLY <4>1, <4>2
    <3> HIDE DEF v, x
    <3> QED BY <3>1, <3>2, <3>4, <2>1, <1>1
  <2>2. CASE ~ (IsText(kind[o]) /\ s.text[o] # s.text[n])
    BY <2>2 DEF DiffText
  <2> QED BY <2>1, <2>2
<1> HIDE DEF x
<1>3. /\ StateOk(d) /\ OnlyAttrs(d, x, o) /\ d.asked = x.asked
      /\ Reduced(d.attrs[o], x.attrs[n], x.attrs[o])
      /\ (\A name \in Names : ValueOf(x.attrs[o], name) = ValueOf(x.attrs[n], name)) => d = x
  BY <1>2, DroppedIs
<1> HIDE DEF d
<1>4. t = Assigned(d, o, n)
  BY DEF DiffOwn, d, x
<1>5. /\ StateOk(t) /\ OnlyAttrs(t, d, o) /\ d.asked <= t.asked
      /\ Given(t) => Overlaid(t.attrs[o], d.attrs[n], d.attrs[o])
      /\ (\A name \in Names : ValueOf(d.attrs[o], name) = ValueOf(d.attrs[n], name)) => t = d
  BY <1>3, <1>4, AssignedIs
<1>6. /\ t.links = s.links /\ t.text = x.text /\ s.asked <= t.asked
      /\ \A m \in Nodes : m # o => t.attrs[m] = s.attrs[m]
      /\ d.attrs[n] = s.attrs[n] /\ x.attrs[n] = s.attrs[n]
  BY <1>2, <1>3, <1>5 DEF OnlyAttrs
<1>7. Given(t) => SameValues(t.attrs[o], s.attrs[n])
  BY <1>3, <1>5, <1>6 DEF Reduced, Overlaid, SameValues
<1>8. ASSUME IsText(kind[o]) => s.text[o] = s.text[n],
             SameValues(s.attrs[o], s.attrs[n])
      PROVE  t = s
  <2>1. x = s
    BY <1>2, <1>8
  <2>2. d = s
    BY <2>1, <1>3, <1>8 DEF SameValues
  <2> QED BY <2>2, <1>5, <1>8 DEF SameValues
<1> QED BY <1>2, <1>5, <1>6, <1>7, <1>8

\* Only c changes, and comes to say what d says.
Echoes(ls, ts, more, lists, texts, took, c, d) ==
  /\ took \in Nat /\ more \in Nat /\ took <= more
  /\ \A m \in Nodes : m # c => ls[m] = lists[m] /\ ts[m] = texts[m]
  /\ IsText(kind[c]) => ts[c] = texts[d]
  /\ more <= Room => SameValues(ls[c], lists[d])

LEMMA OwnersGrow ==
  ASSUME NEW lists, NEW texts, NEW took, NEW mate \in [Nodes -> Nodes \union {Null}],
         Owned(lists, texts, took, mate),
         NEW c \in Nodes, NEW d \in Nodes, mate[c] = Null, mate[d] = Null, c # d,
         NEW pairs, pairs = [mate EXCEPT ![c] = d],
         NEW ls, NEW ts, NEW more, Echoes(ls, ts, more, lists, texts, took, c, d)
  PROVE  Owned(ls, ts, more, pairs)
<1>1. pairs[c] = d /\ d # Null /\ \A x \in Nodes : x # c => pairs[x] = mate[x]
  BY NodeFacts
<1>2. lists[d] = start.attrs[d] /\ texts[d] = start.text[d]
  BY DEF Owned
<1>3. Agrees(ls, ts, more, c, d)
  BY <1>2 DEF Agrees, Echoes, SameValues
<1>4. ASSUME NEW o \in Nodes
      PROVE  IF pairs[o] # Null THEN Agrees(ls, ts, more, o, pairs[o])
             ELSE ls[o] = start.attrs[o] /\ ts[o] = start.text[o]
  <2>1. CASE o = c
    BY <2>1, <1>1, <1>3
  <2>2. CASE o # c
    <3>1. took <= Room \/ ~ (more <= Room)
      BY DiffAssumption DEF Echoes
    <3> QED BY <3>1, <2>2, <1>1 DEF Owned, Agrees, Echoes
  <2> QED BY <2>1, <2>2
<1> QED BY <1>4 DEF Owned

----------------------------------------------------------------------------
(* The steps of the walk.                                                  *)

\* Where the last of the calls stands.
LEMMA Here ==
  ASSUME StartOk, NEW R, Matching(R), calls \in Seq(Frames), calls # << >>, links \in Links,
         NEW mate, NEW at, Paired(R, mate, at), Stacked(calls, mate, at), Linkage(links, mate, at),
         NEW p, p = Current.old
  PROVE  /\ p \in Nodes /\ mate[p] # Null /\ mate[p] \in Nodes /\ Current.new = mate[p]
         /\ at[p] \in Nat /\ at[p] >= 1
         /\ Current.oldChild = Item(Was(p), at[p]) /\ Current.newChild = Item(Was(mate[p]), at[p])
         /\ Current.oldChild # Null <=> at[p] <= Len(Was(p))
         /\ Current.newChild # Null <=> at[p] <= Len(Was(mate[p]))
         /\ PartWay(links, p, mate[p], at[p])
<1>1. p \in Nodes
  BY CurrentTyped
<1>2. Reads(Current, mate, at)
  <2>1. Len(calls) \in 1 .. Len(calls) /\ Current = calls[Len(calls)]
    <3>1. Len(calls) \in Nat /\ Len(calls) >= 1 /\ Last(calls) = calls[Len(calls)]
      BY LastOff
    <3> QED BY <3>1 DEF Current
  <2> QED BY <2>1 DEF Stacked
<1>3. /\ mate[p] # Null /\ Current.new = mate[p]
      /\ Current.oldChild = Item(Was(p), at[p]) /\ Current.newChild = Item(Was(mate[p]), at[p])
  BY <1>2 DEF Reads
<1>4. mate[p] \in Nodes /\ at[p] \in Nat /\ at[p] >= 1
  BY <1>1, <1>3 DEF Paired
<1>5. ASSUME NEW q \in Nodes PROVE Item(Was(q), at[p]) # Null <=> at[p] <= Len(Was(q))
  <2>1. at[p] <= Len(Was(q)) => at[p] \in 1 .. Len(Was(q))
    BY <1>4, Family
  <2>2. at[p] <= Len(Was(q)) => Was(q)[at[p]] \in Nodes
    BY <2>1, Family
  <2> QED BY <2>2, NodeFacts DEF Item
<1>6. PartWay(links, p, mate[p], at[p])
  BY <1>1, <1>3 DEF Linkage
<1> QED BY <1>1, <1>3, <1>4, <1>5, <1>6

LEMMA SteppedOn ==
  ASSUME StartOk, NEW R, Matching(R), calls \in Seq(Frames), calls # << >>, links \in Links,
         NEW mate, NEW at, Paired(R, mate, at), Stacked(calls, mate, at), Linkage(links, mate, at),
         NEW p, p = Current.old,
         Sibling(Current.oldChild) = Item(Was(p), at[p] + 1),
         Sibling(Current.newChild) = Item(Was(mate[p]), at[p] + 1),
         NEW then, then = [at EXCEPT ![p] = at[p] + 1]
  PROVE  Stepped \in Seq(Frames) /\ Stacked(Stepped, mate, then)
<1> DEFINE e == Frame(Current.old, Current.new, Sibling(Current.oldChild), Sibling(Current.newChild))
<1>1. p = Last(calls).old /\ Current.new = mate[p] /\ at \in [Nodes -> Nat]
  BY Here DEF Current, Paired
<1>2. e \in Frames
  <2>1. \A n \in Nodes \union {Null} : Sibling(n) \in Nodes \union {Null}
    BY LinksFields DEF Sibling, Pointers
  <2>2. /\ Current.old \in Nodes /\ Current.new \in Nodes
        /\ Current.oldChild \in Nodes \union {Null} /\ Current.newChild \in Nodes \union {Null}
    BY CurrentTyped
  <2> QED BY <2>1, <2>2 DEF Frame, Frames
<1>3. /\ e.old = p /\ e.new = mate[p]
      /\ e.oldChild = Item(Was(p), at[p] + 1) /\ e.newChild = Item(Was(mate[p]), at[p] + 1)
  BY <1>1 DEF Frame
<1>4. Stepped = Append(Front(calls), e)
  BY DEF Stepped
<1> HIDE DEF e
<1> QED BY <1>1, <1>2, <1>3, <1>4, StackMoves

\* What the walk rests on.
Walking(R, mate, at) ==
  /\ StartOk /\ Matching(R) /\ Before \in Described /\ StateOk(State) /\ calls \in Seq(Frames)
  /\ Walk(R, links, attrs, text, asked, calls, mate, at)
Walked(R) == \E mate, at : Walk(R, links', attrs', text', asked', calls', mate, at)

LEMMA WalkingIs ==
  ASSUME NEW R, NEW mate, NEW at, Walking(R, mate, at)
  PROVE  /\ StartOk /\ Matching(R) /\ Before \in Described /\ StateOk(State) /\ calls \in Seq(Frames)
         /\ links \in Links
         /\ Paired(R, mate, at) /\ Reached(mate, at) /\ Stacked(calls, mate, at)
         /\ Linkage(links, mate, at) /\ Owned(attrs, text, asked, mate)
  BY StateParts DEF Walking, Walk, StateOk, State

\* A pair of equals changes nothing.
LEMMA EqualsStay ==
  ASSUME NEW R, Same(R), NEW c \in Nodes, NEW d \in Nodes, <<c, d>> \in R, c # d,
         Before \in Described, StateOk(State), attrs = start.attrs, text = start.text
  PROVE  DiffOwn(State, c, d) = State
<1>1. /\ IsText(kind[c]) => text[c] = text[d]
      /\ \A name \in Names : ValueOf(attrs[c], name) = ValueOf(attrs[d], name)
  BY DEF Same
<1>2. SameValues(attrs[c], attrs[d])
  <2>1. attrs[c] \in Lists /\ attrs[d] \in Lists
    BY StateParts DEF StateOk, State
  <2>2. ASSUME NEW name, name \notin Names, NEW x \in Nodes, attrs[x] \in Lists
        PROVE  ValueOf(attrs[x], name) = None
    <3>1. AttrsOk(attrs[x]) /\ attrs[x] \in Seq(Attribute)
      BY <2>2, ListIs DEF AttrsOk
    <3>2. \A i \in 1 .. Len(attrs[x]) : attrs[x][i].name # name
      <4>1. ASSUME NEW i \in 1 .. Len(attrs[x]) PROVE attrs[x][i] \in Attribute
        BY <3>1, ElementOfSeq
      <4> QED BY <4>1, <2>2 DEF Attribute
    <3> QED BY <3>1, <3>2, Absent
  <2> QED BY <1>1, <2>1, <2>2 DEF SameValues
<1>3. State.text = text /\ State.attrs = attrs
  BY DEF State
<1> QED BY <1>1, <1>2, <1>3, OwnIs

LEMMA WalkCompares ==
  ASSUME NEW R, NEW mate, NEW at, Walking(R, mate, at), DiffChildren
  PROVE  /\ Walked(R)
         /\ Same(R) /\ attrs = start.attrs /\ text = start.text => State' = State
<1> DEFINE p == Current.old
           c == Current.oldChild
           d == Current.newChild
           pairs == [mate EXCEPT ![c] = d]
           then == [at EXCEPT ![p] = at[p] + 1]
           later == [then EXCEPT ![c] = 1]
<1>1. /\ StartOk /\ Matching(R) /\ Before \in Described /\ StateOk(State) /\ calls \in Seq(Frames)
      /\ links \in Links
      /\ Paired(R, mate, at) /\ Reached(mate, at) /\ Stacked(calls, mate, at)
      /\ Linkage(links, mate, at) /\ Owned(attrs, text, asked, mate)
  BY WalkingIs
<1>2. calls # << >> /\ c # Null /\ d # Null /\ Compare(c, d, Stepped)
  BY DEF DiffChildren
<1>3. /\ p \in Nodes /\ mate[p] # Null /\ mate[p] \in Nodes /\ Current.new = mate[p]
      /\ at[p] \in Nat /\ at[p] >= 1
      /\ c = Item(Was(p), at[p]) /\ d = Item(Was(mate[p]), at[p])
      /\ at[p] <= Len(Was(p)) /\ at[p] <= Len(Was(mate[p]))
      /\ PartWay(links, p, mate[p], at[p])
  BY <1>1, <1>2, Here
<1>4. Upcoming(mate, at, p, c, d)
  BY <1>3 DEF Upcoming, Item
<1> HIDE DEF p, c, d
<1>5. /\ c \in Nodes /\ d \in Nodes /\ <<c, d>> \in R /\ c # d
      /\ kind[c] = kind[d] /\ mate[c] = Null /\ mate[d] = Null
  BY <1>1, <1>3, <1>4, NextPair DEF Untouched
<1>6. /\ Become(DiffOwn(State, c, d))
      /\ calls' = Append(Stepped, Frame(c, d, links.first[c], links.first[d]))
  BY <1>2, <1>5 DEF Compare
<1>7. Sibling(c) = Item(Was(p), at[p] + 1) /\ Sibling(d) = Item(Was(mate[p]), at[p] + 1)
  <2>1. links.next[c] = Item(Was(p), at[p] + 1)
    <3>1. StartOk /\ Matching(R) /\ Paired(R, mate, at) /\ Reached(mate, at)
      BY <1>1
    <3>2. p \in Nodes /\ PartWay(links, p, mate[p], at[p])
      BY <1>3
    <3> QED BY ONLY <3>1, <3>2, <1>4, OldSibling
  <2>2. /\ Item(Was(mate[p]), at[p]) = Was(mate[p])[at[p]]
        /\ links.next[Was(mate[p])[at[p]]] = Item(Was(mate[p]), at[p] + 1)
    BY <1>1, <1>3, NewSibling
  <2> QED BY <2>1, <2>2, <1>2, <1>3 DEF Sibling
<1>8. mate \in [Nodes -> Nodes \union {Null}] /\ at \in [Nodes -> Nat] /\ then \in [Nodes -> Nat]
  BY <1>1, <1>3 DEF Paired
<1>9. Stepped \in Seq(Frames) /\ Stacked(Stepped, mate, then)
  BY <1>1, <1>2, <1>7, SteppedOn DEF p, c, d
<1>10. Paired(R, pairs, later) /\ Reached(pairs, later)
  BY <1>1, <1>3, <1>4, PairsGrow
<1>11. /\ Linkage(links, pairs, later)
       /\ links.first[c] = Item(Was(c), 1) /\ links.first[d] = Item(Was(d), 1)
  BY <1>1, <1>3, <1>4, LinksCompared
<1> DEFINE e == Frame(c, d, Item(Was(c), 1), Item(Was(d), 1))
<1>12. e \in Frames
  <2>1. links.first[c] \in Nodes \union {Null} /\ links.first[d] \in Nodes \union {Null}
    BY <1>1, <1>5, LinksFields DEF Pointers
  <2> QED BY <2>1, <1>5, <1>11 DEF Frame, Frames
<1>13. e = Frame(c, d, Item(Was(c), 1), Item(Was(d), 1)) /\ calls' = Append(Stepped, e)
  BY <1>6, <1>11
<1> HIDE DEF e, then, later, pairs
<1>14. pairs = [mate EXCEPT ![c] = d] /\ later = [then EXCEPT ![c] = 1]
  BY DEF pairs, later
<1>15. Stacked(calls', pairs, later)
  BY <1>5, <1>8, <1>9, <1>12, <1>13, <1>14, StackGrows
<1> DEFINE t == DiffOwn(State, c, d)
<1>16. /\ StateOk(t) /\ t.links = links
       /\ \A m \in Nodes : m # c => t.attrs[m] = attrs[m] /\ t.text[m] = text[m]
       /\ t.text[c] = IF IsText(kind[c]) THEN text[d] ELSE text[c]
       /\ asked \in Nat /\ t.asked \in Nat /\ asked <= t.asked
       /\ t.asked <= Room => SameValues(t.attrs[c], attrs[d])
  <2>1. /\ State.links = links /\ State.attrs = attrs /\ State.text = text
        /\ State.asked = asked
    BY DEF State
  <2> HIDE DEF t
  <2>2. t = DiffOwn(State, c, d)
    BY DEF t
  <2>3. StateOk(t) /\ t.links = State.links
    BY <2>2, <1>1, <1>5, OwnIs
  <2>4. \A m \in Nodes : m # c => t.attrs[m] = State.attrs[m] /\ t.text[m] = State.text[m]
    BY <2>2, <1>1, <1>5, OwnIs
  <2>5. t.text[c] = IF IsText(kind[c]) THEN State.text[d] ELSE State.text[c]
    BY <2>2, <1>1, <1>5, OwnIs
  <2>6. State.asked <= t.asked /\ (Given(t) => SameValues(t.attrs[c], State.attrs[d]))
    BY <2>2, <1>1, <1>5, OwnIs
  <2>7. State.asked \in Nat /\ t.asked \in Nat
    BY <2>3, <1>1, StateParts DEF StateOk
  <2> QED BY <2>1, <2>3, <2>4, <2>5, <2>6, <2>7 DEF Given
<1> HIDE DEF t
<1>17. links' = links /\ attrs' = t.attrs /\ text' = t.text /\ asked' = t.asked
  BY <1>6, <1>16 DEF Become, t
<1>18. Owned(attrs', text', asked', pairs)
  <2>1. Owned(t.attrs, t.text, t.asked, pairs)
    <3>1. Echoes(t.attrs, t.text, t.asked, attrs, text, asked, c, d)
      BY <1>16 DEF Echoes
    <3> QED BY <3>1, <1>1, <1>5, <1>8, <1>14, OwnersGrow
  <2> QED BY <2>1, <1>17
<1>19. Walk(R, links', attrs', text', asked', calls', pairs, later)
  BY <1>10, <1>11, <1>15, <1>17, <1>18 DEF Walk
<1>20. ASSUME Same(R), attrs = start.attrs, text = start.text PROVE State' = State
  <2>1. DiffOwn(State, c, d) = State
    BY <1>1, <1>5, <1>20, EqualsStay
  <2>2. State \in States
    BY <1>1 DEF StateOk
  <2> QED BY <2>1, <2>2, <1>6, StateIs
<1> QED BY <1>19, <1>20 DEF Walked

\* Equals have lists of one length.
LEMMA EqualLengths ==
  ASSUME NEW R, Same(R), NEW mate, NEW at, Paired(R, mate, at), NEW p \in Nodes, mate[p] # Null
  PROVE  Len(Was(p)) = Len(Was(mate[p]))
<1>1. mate[p] \in Nodes /\ <<p, mate[p]>> \in R
  BY DEF Paired
<1> QED BY <1>1 DEF Same

LEMMA WalkRemoves ==
  ASSUME NEW R, NEW mate, NEW at, Walking(R, mate, at), RemoveRest
  PROVE  Walked(R) /\ ~ Same(R)
<1> DEFINE p == Current.old
           c == Current.oldChild
           then == [at EXCEPT ![p] = at[p] + 1]
           g == UnlinkChild(links, p, c)
<1>1. /\ StartOk /\ Matching(R) /\ Before \in Described /\ StateOk(State) /\ calls \in Seq(Frames)
      /\ links \in Links
      /\ Paired(R, mate, at) /\ Reached(mate, at) /\ Stacked(calls, mate, at)
      /\ Linkage(links, mate, at) /\ Owned(attrs, text, asked, mate)
  BY WalkingIs
<1>2. /\ calls # << >> /\ c # Null /\ Current.newChild = Null
      /\ Become(Removed(State, p, c)) /\ calls' = Stepped
  BY DEF RemoveRest
<1>3. /\ p \in Nodes /\ mate[p] # Null /\ mate[p] \in Nodes
      /\ at[p] \in Nat /\ at[p] >= 1
      /\ c = Item(Was(p), at[p])
      /\ at[p] <= Len(Was(p)) /\ ~ (at[p] <= Len(Was(mate[p])))
  BY <1>1, <1>2, Here
<1> HIDE DEF p, c
<1>4. Len(Was(p)) \in Nat /\ Len(Was(mate[p])) \in Nat /\ Len(Was(mate[p])) < at[p]
  BY <1>3, Family
<1>5. c = Was(p)[at[p]]
  BY <1>3 DEF Item
<1>6. Linkage(g, mate, then) /\ c \in Nodes /\ links.parent[c] = p /\ links.next[c] = Item(Was(p), at[p] + 1)
  <2>1. /\ StartOk /\ Matching(R) /\ Paired(R, mate, at) /\ Reached(mate, at)
        /\ links \in Links /\ Linkage(links, mate, at)
    BY <1>1
  <2> HIDE DEF g, then
  <2>2. g = UnlinkChild(links, p, c) /\ then = [at EXCEPT ![p] = at[p] + 1]
    BY DEF g, then
  <2>3. Linkage(g, mate, then)
    BY ONLY <2>1, <2>2, <1>3, <1>4, <1>5, LinksRemoved
  <2>4. c \in Nodes /\ links.parent[c] = p
    BY ONLY <2>1, <2>2, <1>3, <1>4, <1>5, LinksRemoved
  <2>5. links.next[c] = Item(Was(p), at[p] + 1)
    BY ONLY <2>1, <2>2, <1>3, <1>4, <1>5, LinksRemoved
  <2> QED BY <2>3, <2>4, <2>5
<1>7. Sibling(c) = Item(Was(p), at[p] + 1)
  BY <1>2, <1>6 DEF Sibling
<1>8. Sibling(Null) = Item(Was(mate[p]), at[p] + 1)
  <2>1. ~ (at[p] + 1 <= Len(Was(mate[p])))
    BY <1>3, <1>4
  <2> QED BY <2>1 DEF Sibling, Item
<1>9. Stacked(Stepped, mate, then)
  BY <1>1, <1>2, <1>7, <1>8, SteppedOn DEF p, c
<1>10. Paired(R, mate, then) /\ Reached(mate, then)
  <2>1. ~ Ended(Was(p), Was(mate[p]), at[p])
    BY <1>3, <1>4 DEF Ended
  <2> QED BY <2>1, <1>1, <1>3, <1>4, PairsStay
<1>11. links' = g /\ attrs' = attrs /\ text' = text /\ asked' = asked
  <2> DEFINE q == Sent(State, "Remove", p, c, None, None)
             w == [State EXCEPT !.links = g]
  <2>1. State = [links |-> links, attrs |-> attrs, text |-> text, queue |-> queue, asked |-> asked]
    BY DEF State
  <2>2. p # Null /\ State.links.parent[c] = p
    BY <2>1, <1>3, <1>6, NodeFacts
  <2>3. Removed(State, p, c) = [w EXCEPT !.queue = q]
    BY <2>1, <2>2 DEF Removed
  <2> HIDE DEF q, g
  <2>4. w = [links |-> g, attrs |-> attrs, text |-> text, queue |-> queue, asked |-> asked]
    BY <2>1
  <2> HIDE DEF w
  <2>5. [w EXCEPT !.queue = q]
        = [links |-> g, attrs |-> attrs, text |-> text, queue |-> q, asked |-> asked]
    BY <2>4
  <2> QED BY <2>3, <2>5, <1>2 DEF Become
<1> HIDE DEF then, g
<1>12. Walk(R, links', attrs', text', asked', calls', mate, then)
  BY <1>1, <1>2, <1>6, <1>9, <1>10, <1>11 DEF Walk
<1>13. ASSUME Same(R) PROVE FALSE
  <2>1. Len(Was(p)) = Len(Was(mate[p]))
    BY <1>1, <1>3, <1>13, EqualLengths
  <2> QED BY <2>1, <1>3
<1> QED BY <1>12, <1>13 DEF Walked

LEMMA WalkInserts ==
  ASSUME NEW R, NEW mate, NEW at, Walking(R, mate, at), InsertRest
  PROVE  Walked(R) /\ ~ Same(R)
<1> DEFINE p == Current.old
           c == Current.newChild
           then == [at EXCEPT ![p] = at[p] + 1]
           g == AppendChild(links, p, c)
<1>1. /\ StartOk /\ Matching(R) /\ Before \in Described /\ StateOk(State) /\ calls \in Seq(Frames)
      /\ links \in Links
      /\ Paired(R, mate, at) /\ Reached(mate, at) /\ Stacked(calls, mate, at)
      /\ Linkage(links, mate, at) /\ Owned(attrs, text, asked, mate)
  BY WalkingIs
<1>2. /\ calls # << >> /\ c # Null /\ Current.oldChild = Null
      /\ Become(Inserted(State, p, c)) /\ calls' = Stepped
  BY DEF InsertRest
<1>3. /\ p \in Nodes /\ mate[p] # Null /\ mate[p] \in Nodes
      /\ at[p] \in Nat /\ at[p] >= 1
      /\ c = Item(Was(mate[p]), at[p])
      /\ at[p] <= Len(Was(mate[p])) /\ ~ (at[p] <= Len(Was(p)))
  BY <1>1, <1>2, Here
<1> HIDE DEF p, c
<1>4. Len(Was(p)) \in Nat /\ Len(Was(mate[p])) \in Nat /\ Len(Was(p)) < at[p]
  BY <1>3, Family
<1>5. c = Was(mate[p])[at[p]]
  BY <1>3 DEF Item
<1>6. Linkage(g, mate, then) /\ c \in Nodes /\ links.next[c] = Item(Was(mate[p]), at[p] + 1)
  <2>1. /\ StartOk /\ Matching(R) /\ Paired(R, mate, at) /\ Reached(mate, at)
        /\ links \in Links /\ Linkage(links, mate, at)
    BY <1>1
  <2> HIDE DEF g, then
  <2>2. g = AppendChild(links, p, c) /\ then = [at EXCEPT ![p] = at[p] + 1]
    BY DEF g, then
  <2>3. Linkage(g, mate, then)
    BY ONLY <2>1, <2>2, <1>3, <1>4, <1>5, LinksInserted
  <2>4. c \in Nodes
    BY ONLY <2>1, <2>2, <1>3, <1>4, <1>5, LinksInserted
  <2>5. links.next[c] = Item(Was(mate[p]), at[p] + 1)
    BY ONLY <2>1, <2>2, <1>3, <1>4, <1>5, LinksInserted
  <2> QED BY <2>3, <2>4, <2>5
<1>7. Sibling(c) = Item(Was(mate[p]), at[p] + 1)
  BY <1>2, <1>6 DEF Sibling
<1>8. Sibling(Null) = Item(Was(p), at[p] + 1)
  <2>1. ~ (at[p] + 1 <= Len(Was(p)))
    BY <1>3, <1>4
  <2> QED BY <2>1 DEF Sibling, Item
<1>9. Stacked(Stepped, mate, then)
  BY <1>1, <1>2, <1>7, <1>8, SteppedOn DEF p, c
<1>10. Paired(R, mate, then) /\ Reached(mate, then)
  <2>1. ~ Ended(Was(p), Was(mate[p]), at[p])
    BY <1>3, <1>4 DEF Ended
  <2> QED BY <2>1, <1>1, <1>3, <1>4, PairsStay
<1>11. links' = g /\ attrs' = attrs /\ text' = text /\ asked' = asked
  <2> DEFINE q == Sent(State, "Insert", p, c, None, None)
             w == [State EXCEPT !.links = g]
  <2>1. State = [links |-> links, attrs |-> attrs, text |-> text, queue |-> queue, asked |-> asked]
    BY DEF State
  <2>2. p # Null
    BY <1>3, NodeFacts
  <2>3. Inserted(State, p, c) = [w EXCEPT !.queue = q]
    BY <2>1, <2>2 DEF Inserted
  <2> HIDE DEF q, g
  <2>4. w = [links |-> g, attrs |-> attrs, text |-> text, queue |-> queue, asked |-> asked]
    BY <2>1
  <2> HIDE DEF w
  <2>5. [w EXCEPT !.queue = q]
        = [links |-> g, attrs |-> attrs, text |-> text, queue |-> q, asked |-> asked]
    BY <2>4
  <2> QED BY <2>3, <2>5, <1>2 DEF Become
<1> HIDE DEF then, g
<1>12. Walk(R, links', attrs', text', asked', calls', mate, then)
  BY <1>1, <1>2, <1>6, <1>9, <1>10, <1>11 DEF Walk
<1>13. ASSUME Same(R) PROVE FALSE
  <2>1. Len(Was(p)) = Len(Was(mate[p]))
    BY <1>1, <1>3, <1>13, EqualLengths
  <2> QED BY <2>1, <1>3
<1> QED BY <1>12, <1>13 DEF Walked

LEMMA WalkReturns ==
  ASSUME NEW R, NEW mate, NEW at, Walking(R, mate, at), Return
  PROVE  Walked(R) /\ State' = State
<1> DEFINE p == Current.old
<1>1. /\ StartOk /\ Matching(R) /\ calls \in Seq(Frames) /\ links \in Links
      /\ Paired(R, mate, at) /\ Reached(mate, at) /\ Stacked(calls, mate, at)
      /\ Linkage(links, mate, at) /\ Owned(attrs, text, asked, mate)
  BY WalkingIs
<1>2. calls # << >> /\ Current.oldChild = Null /\ Current.newChild = Null /\ calls' = Front(calls)
  BY DEF Return
<1>3. /\ p \in Nodes /\ mate[p] \in Nodes /\ at[p] \in Nat
      /\ ~ (at[p] <= Len(Was(p))) /\ ~ (at[p] <= Len(Was(mate[p])))
  BY <1>1, <1>2, Here
<1>4. Ended(Was(p), Was(mate[p]), at[p])
  BY <1>3, Family DEF Ended
<1>5. Stacked(calls', mate, at)
  BY <1>1, <1>2, <1>4, StackShrinks DEF Current
<1>6. links' = links /\ attrs' = attrs /\ text' = text /\ queue' = queue /\ asked' = asked
  BY DEF Return, vars
<1> QED BY <1>1, <1>5, <1>6 DEF Walk, Walked, State

----------------------------------------------------------------------------
\* Nothing has been done to the trees, and nothing sent.
Still == links = start.links /\ attrs = start.attrs /\ text = start.text /\ queue = << >>

LEMMA WalkBegins ==
  ASSUME StartOk, NEW R, Matching(R), Before \in Described, StateOk(State),
         calls = << >>, Still, DiffTrees
  PROVE  /\ Walked(R)
         /\ Same(R) => State' = State
<1> DEFINE none == [x \in Nodes |-> Null]
           ones == [x \in Nodes |-> 1]
           pairs == [none EXCEPT ![OldRoot] = NewRoot]
           later == [ones EXCEPT ![OldRoot] = 1]
           o == OldRoot
           n == NewRoot
<1>1. /\ o \in Nodes /\ n \in Nodes /\ o # n /\ Null \notin Nodes
      /\ <<o, n>> \in R /\ kind[o] = kind[n]
  BY RootsAreNodes, NodeFacts DEF Matching
<1>2. /\ none \in [Nodes -> Nodes \union {Null}] /\ ones \in [Nodes -> Nat]
      /\ \A x \in Nodes : none[x] = Null
  OBVIOUS
<1>3. /\ pairs \in [Nodes -> Nodes \union {Null}] /\ later \in [Nodes -> Nat]
      /\ \A x \in Nodes : pairs[x] = IF x = o THEN n ELSE Null
      /\ \A x \in Nodes : later[x] = 1
  BY <1>1
<1> DEFINE e == Frame(o, n, Item(Was(o), 1), Item(Was(n), 1))
<1>4. /\ pairs = [none EXCEPT ![o] = n] /\ later = [ones EXCEPT ![o] = 1]
      /\ e = Frame(o, n, Item(Was(o), 1), Item(Was(n), 1))
  OBVIOUS
<1> HIDE DEF none, ones, pairs, later, o, n, e
<1>5. ASSUME NEW x \in Nodes
      PROVE  /\ Held(links, x, Was(x), Null) /\ links.first[x] = Item(Was(x), 1)
             /\ Item(Was(x), 1) \in Nodes \union {Null} /\ Len(Was(x)) \in Nat
  <2>1. Held(links, x, Was(x), Null) /\ Len(Was(x)) \in Nat
    BY Family DEF Still
  <2>2. links.first[x] = Item(Was(x), 1)
    BY <2>1, FirstIs
  <2>3. links.first[x] \in Nodes \union {Null}
    BY StateParts, LinksFields DEF StateOk, State, Pointers
  <2> QED BY <2>1, <2>2, <2>3
<1>6. /\ Become(DiffOwn(State, o, n))
      /\ calls' = Append(<< >>, e)
  <2>1. Compare(o, n, << >>)
    BY DEF DiffTrees, o, n
  <2>2. Become(DiffOwn(State, o, n)) /\ calls' = Append(<< >>, Frame(o, n, links.first[o], links.first[n]))
    BY <2>1, <1>1 DEF Compare
  <2>3. links.first[o] = Item(Was(o), 1) /\ links.first[n] = Item(Was(n), 1)
    BY <1>1, <1>5
  <2> QED BY <2>2, <2>3, <1>4
<1>7. Paired(R, pairs, later)
  <2>1. ASSUME NEW x \in Nodes, pairs[x] # Null
        PROVE  /\ <<x, pairs[x]>> \in R /\ later[x] >= 1
               /\ later[x] <= Len(Was(x)) + 1 \/ later[x] <= Len(Was(pairs[x])) + 1
    BY <2>1, <1>1, <1>3, <1>5
  <2> QED BY <2>1, <1>1, <1>3 DEF Paired, o, n
<1>8. Reached(pairs, later)
  <2>1. \A x \in Nodes : pairs[x] # Null => x = OldRoot
    BY <1>3 DEF o
  <2>2. \A p \in Nodes, j \in Nat : j < later[p] => j \notin 1 .. Len(Was(p))
    BY <1>3, <1>5
  <2> QED BY ONLY <2>1, <2>2 DEF Reached
<1>9. Stacked(calls', pairs, later)
  <2>1. Stacked(<< >>, none, ones)
    <3>1. Len(<< >>) = 0
      OBVIOUS
    <3> QED BY <3>1, <1>2 DEF Stacked
  <2>2. e \in Frames
    BY <1>1, <1>4, <1>5 DEF Frame, Frames
  <2>3. << >> \in Seq(Frames)
    OBVIOUS
  <2> QED BY <1>1, <1>2, <1>4, <1>6, <2>1, <2>2, <2>3, StackGrows
<1>10. Linkage(links, pairs, later)
  <2>1. ASSUME NEW x \in Nodes, pairs[x] # Null PROVE PartWay(links, x, pairs[x], later[x])
    <3>1. x = o /\ pairs[x] = n /\ later[x] = 1
      BY <2>1, <1>3
    <3>2. Held(links, o, Was(o), Null) /\ Held(links, n, Was(n), Null)
      BY <1>1, <1>5
    <3>3. PartWay(links, o, n, 1)
      BY <3>2, <1>1, StartsPartWay
    <3> QED BY <3>1, <3>3
  <2> QED BY <2>1, <1>5 DEF Linkage
<1> DEFINE t == DiffOwn(State, o, n)
<1>11. t = DiffOwn(State, o, n)
  OBVIOUS
<1> HIDE DEF t
<1>12. State.links = links /\ State.attrs = attrs /\ State.text = text /\ State.asked = asked
  BY DEF State
<1>13. StateOk(t) /\ t.links = links
  BY <1>1, <1>11, <1>12, OwnIs
<1>14. Echoes(t.attrs, t.text, t.asked, attrs, text, asked, o, n)
  <2>1. \A m \in Nodes : m # o => t.attrs[m] = State.attrs[m] /\ t.text[m] = State.text[m]
    BY <1>1, <1>11, OwnIs
  <2>2. t.text[o] = IF IsText(kind[o]) THEN State.text[n] ELSE State.text[o]
    BY <1>1, <1>11, OwnIs
  <2>3. State.asked <= t.asked /\ (Given(t) => SameValues(t.attrs[o], State.attrs[n]))
    BY <1>1, <1>11, OwnIs
  <2>4. State.asked \in Nat /\ t.asked \in Nat
    BY <1>13, StateParts DEF StateOk
  <2> QED BY <2>1, <2>2, <2>3, <2>4, <1>12 DEF Echoes, Given
<1>15. Owned(t.attrs, t.text, t.asked, pairs)
  <2>1. Owned(attrs, text, asked, none)
    BY <1>2 DEF Owned, Still
  <2> QED BY <2>1, <1>1, <1>2, <1>4, <1>14, OwnersGrow
<1>16. links' = links /\ attrs' = t.attrs /\ text' = t.text /\ asked' = t.asked
  BY <1>6, <1>11, <1>13 DEF Become
<1>17. Walk(R, links', attrs', text', asked', calls', pairs, later)
  BY <1>7, <1>8, <1>9, <1>10, <1>15, <1>16 DEF Walk
<1>18. ASSUME Same(R) PROVE State' = State
  <2>1. DiffOwn(State, o, n) = State
    BY <1>1, <1>18, EqualsStay DEF Still
  <2>2. State \in States
    BY DEF StateOk
  <2> QED BY <2>1, <2>2, <1>6, StateIs
<1> QED BY <1>17, <1>18 DEF Walked

----------------------------------------------------------------------------
\* Once begun, the walk stands as it does for every way the trees pair off;
\* and where the two are equal nothing happens.
WalkInv ==
  /\ DiffInv /\ StartOk
  /\ ~ begun => calls = << >> /\ Still
  /\ begun => \A R \in SUBSET (Nodes \X Nodes) : Matching(R) =>
                /\ \E mate, at : Walk(R, links, attrs, text, asked, calls, mate, at)
                /\ Same(R) => Still

LEMMA WalkInvInit == DiffInit => WalkInv
  BY DiffInvInit, StartOkInit DEF WalkInv, DiffInit, Still

\* What was there before the call stays as it was.
LEMMA StartStays ==
  ASSUME start' = start, kind' = kind
  PROVE  /\ StartOk' <=> StartOk
         /\ \A R : (Matching(R)' <=> Matching(R)) /\ (Same(R)' <=> Same(R))
         /\ \A R : Walked(R) => (\E mate, at : Walk(R, links, attrs, text, asked, calls, mate, at))'
<1>1. StartOk' <=> StartOk
  BY DEF StartOk
<1>2. \A R : (Matching(R)' <=> Matching(R)) /\ (Same(R)' <=> Same(R))
  BY DEF Matching, Same, Was
<1>3. ASSUME NEW R, NEW mate, NEW at
      PROVE (Paired(R, mate, at)' <=> Paired(R, mate, at)) /\ (Reached(mate, at)' <=> Reached(mate, at))
  BY DEF Paired, Reached, Beneath, Was
<1>4. ASSUME NEW mate, NEW at
      PROVE /\ Stacked(calls', mate, at) <=> Stacked(calls, mate, at)'
            /\ Linkage(links', mate, at) <=> Linkage(links, mate, at)'
            /\ Owned(attrs', text', asked', mate) <=> Owned(attrs, text, asked, mate)'
  <2>1. Stacked(calls', mate, at) <=> Stacked(calls, mate, at)'
    BY DEF Stacked, Reads, Ended, Was
  <2>2. Linkage(links', mate, at) <=> Linkage(links, mate, at)'
    BY DEF Linkage, PartWay, Waiting, Was, Held
  <2>3. Owned(attrs', text', asked', mate) <=> Owned(attrs, text, asked, mate)'
    BY DEF Owned, Agrees
  <2> QED BY <2>1, <2>2, <2>3
<1>5. ASSUME NEW R, NEW mate, NEW at, Walk(R, links', attrs', text', asked', calls', mate, at)
      PROVE  Walk(R, links, attrs, text, asked, calls, mate, at)'
  BY <1>3, <1>4, <1>5 DEF Walk
<1>6. \A R : Walked(R) => (\E mate, at : Walk(R, links, attrs, text, asked, calls, mate, at))'
  BY <1>5 DEF Walked
<1> QED BY <1>1, <1>2, <1>6

LEMMA StillStays ==
  ASSUME start' = start, Still, State' = State
  PROVE  Still'
<1>1. links' = links /\ attrs' = attrs /\ text' = text /\ queue' = queue
  BY DEF State
<1> QED BY <1>1 DEF Still

LEMMA WalkInvStep == WalkInv /\ [DiffNext]_diffVars => WalkInv'
<1> SUFFICES ASSUME WalkInv, [DiffNext]_diffVars PROVE WalkInv'
  OBVIOUS
<1>1. /\ DiffInv /\ StartOk /\ Before \in Described /\ StateOk(State) /\ calls \in Seq(Frames)
      /\ ~ begun => calls = << >> /\ Still
  BY DEF WalkInv, DiffInv
<1>2. DiffInv'
  BY <1>1, DiffInvStep
<1>3. CASE UNCHANGED diffVars
  <2>1. /\ start' = start /\ kind' = kind /\ begun' = begun /\ calls' = calls
        /\ links' = links /\ attrs' = attrs /\ text' = text /\ queue' = queue /\ asked' = asked
    BY <1>3 DEF diffVars, vars
  <2>2. StartOk' /\ (Still' <=> Still)
    BY <1>1, <2>1, StartStays DEF Still
  <2>3. ASSUME begun', NEW R \in SUBSET (Nodes \X Nodes), Matching(R)'
        PROVE  /\ (\E mate, at : Walk(R, links, attrs, text, asked, calls, mate, at))'
               /\ (Same(R) => Still)'
    <3>1. /\ \E mate, at : Walk(R, links, attrs, text, asked, calls, mate, at)
          /\ Same(R) => Still
      BY <2>1, <2>3, StartStays DEF WalkInv
    <3>2. Same(R)' <=> Same(R)
      BY <2>1, StartStays
    <3>3. Walked(R)
      BY <3>1, <2>1 DEF Walked
    <3>4. (\E mate, at : Walk(R, links, attrs, text, asked, calls, mate, at))'
      BY <3>3, <2>1, StartStays
    <3> QED BY <3>1, <3>2, <3>4, <2>2
  <2> QED BY <1>1, <1>2, <2>1, <2>2, <2>3 DEF WalkInv
<1>4. CASE DiffNext
  <2>1. start' = start /\ kind' = kind /\ begun'
    BY <1>1, <1>4 DEF DiffNext, DiffTrees, DiffChildren, RemoveRest, InsertRest, Return
  <2>2. StartOk'
    BY <1>1, <2>1, StartStays
  <2>3. ASSUME NEW R \in SUBSET (Nodes \X Nodes), Matching(R)
        PROVE  Walked(R) /\ (Same(R) => Still')
    <3>1. CASE DiffTrees
      <4>1. calls = << >> /\ Still
        BY <1>1, <3>1 DEF DiffTrees
      <4>2. Walked(R) /\ (Same(R) => State' = State)
        BY <1>1, <2>3, <3>1, <4>1, WalkBegins
      <4> QED BY <2>1, <4>1, <4>2, StillStays
    <3>2. CASE DiffChildren \/ RemoveRest \/ InsertRest \/ Return
      <4>1. begun
        BY <1>1, <3>2 DEF DiffChildren, RemoveRest, InsertRest, Return
      <4>2. PICK mate, at : Walk(R, links, attrs, text, asked, calls, mate, at)
        BY <2>3, <4>1 DEF WalkInv
      <4>3. Same(R) => Still
        BY <2>3, <4>1 DEF WalkInv
      <4>4. Walking(R, mate, at)
        BY <1>1, <2>3, <4>2 DEF Walking
      <4>5. CASE DiffChildren
        <5>1. Walked(R) /\ (Same(R) /\ attrs = start.attrs /\ text = start.text => State' = State)
          BY <4>4, <4>5, WalkCompares
        <5>2. Same(R) => State' = State
          BY <5>1, <4>3 DEF Still
        <5> QED BY <5>1, <5>2, <4>3, <2>1, StillStays
      <4>6. CASE RemoveRest
        BY <4>4, <4>6, WalkRemoves
      <4>7. CASE InsertRest
        BY <4>4, <4>7, WalkInserts
      <4>8. CASE Return
        <5>1. Walked(R) /\ State' = State
          BY <4>4, <4>8, WalkReturns
        <5> QED BY <5>1, <4>3, <2>1, StillStays
      <4> QED BY <3>2, <4>5, <4>6, <4>7, <4>8
    <3> QED BY <1>4, <3>1, <3>2 DEF DiffNext
  <2>4. ASSUME NEW R \in SUBSET (Nodes \X Nodes), Matching(R)'
        PROVE  /\ (\E mate, at : Walk(R, links, attrs, text, asked, calls, mate, at))'
               /\ (Same(R) => Still)'
    <3>1. Walked(R) /\ (Same(R) => Still')
      BY <2>1, <2>3, <2>4, StartStays
    <3>2. Same(R)' <=> Same(R)
      BY <2>1, StartStays
    <3>3. (\E mate, at : Walk(R, links, attrs, text, asked, calls, mate, at))'
      BY <3>1, <2>1, StartStays
    <3> QED BY <3>1, <3>2, <3>3
  <2> QED BY <1>2, <2>1, <2>2, <2>4 DEF WalkInv
<1> QED BY <1>3, <1>4

LEMMA WalkAlways == DiffSpec => []WalkInv
<1>1. DiffInit => WalkInv
  BY WalkInvInit
<1>2. WalkInv /\ [DiffNext]_diffVars => WalkInv'
  BY WalkInvStep
<1> QED BY <1>1, <1>2, PTL DEF DiffSpec

\* A tree compared with its equal is left alone, and no patch is sent
\* (diff_nodes calls an operation only where something differs).
THEOREM QuietAlways == DiffSpec => []QuietWhenEqual
<1>1. WalkInv => QuietWhenEqual
  <2> SUFFICES ASSUME WalkInv, begun, OldTreeBefore = Goal PROVE queue = << >>
    BY DEF QuietWhenEqual
  <2>1. PICK R \in SUBSET (Nodes \X Nodes) : Matching(R) /\ Same(R)
    BY EqualMatches DEF WalkInv
  <2>2. Still
    BY <2>1 DEF WalkInv
  <2> QED BY <2>2 DEF Still
<1> QED BY <1>1, WalkAlways, PTL

----------------------------------------------------------------------------
(* When the call has returned.                                             *)
Ending(R, h, lists, texts, took, mate, at) ==
  /\ StartOk /\ Matching(R) /\ h \in Links
  /\ Paired(R, mate, at) /\ Reached(mate, at) /\ Linkage(h, mate, at)
  /\ Owned(lists, texts, took, mate)
  /\ \A o \in Nodes : mate[o] # Null => Ended(Was(o), Was(mate[o]), at[o])

\* x stands where y was to go: it was made like it, or is y moved over.
Becomes(mate, x, y) ==
  \/ mate[x] = y
  \/ x = y /\ ~ (x <= Half) /\ Untouched(mate, x)

LEMMA AtTheEnd ==
  ASSUME WalkInv, Done, NEW R \in SUBSET (Nodes \X Nodes), Matching(R)
  PROVE  \E mate, at : Ending(R, links, attrs, text, asked, mate, at)
<1>1. calls = << >> /\ begun
  BY DEF Done
<1>2. PICK mate, at : Walk(R, links, attrs, text, asked, calls, mate, at)
  BY <1>1 DEF WalkInv
<1>3. Paired(R, mate, at) /\ Reached(mate, at) /\ Stacked(calls, mate, at)
      /\ Linkage(links, mate, at) /\ Owned(attrs, text, asked, mate)
  BY <1>2 DEF Walk
<1>4. \A o \in Nodes : mate[o] # Null => Ended(Was(o), Was(mate[o]), at[o])
  <2>1. \A i : i \notin 1 .. Len(calls)
    BY <1>1
  <2> QED BY <2>1, <1>3 DEF Stacked
<1>5. StartOk /\ links \in Links
  BY StateParts DEF WalkInv, DiffInv, StateOk, State
<1> QED BY <1>3, <1>4, <1>5 DEF Ending

\* The children of a node paired off are the ones it was to have.
LEMMA PairedKids ==
  ASSUME NEW R, NEW h, NEW lists, NEW texts, NEW took, NEW mate, NEW at,
         Ending(R, h, lists, texts, took, mate, at),
         NEW x \in Nodes, NEW y, y = mate[x], y # Null
  PROVE  /\ Held(h, x, Kids(h, x), Null) /\ Len(Kids(h, x)) = Len(Was(y))
         /\ \A k \in 1 .. Len(Was(y)) : Becomes(mate, Kids(h, x)[k], Was(y)[k])
<1>1. /\ StartOk /\ Matching(R) /\ h \in Links /\ Paired(R, mate, at) /\ Reached(mate, at)
      /\ Linkage(h, mate, at) /\ Ended(Was(x), Was(y), at[x])
  BY DEF Ending
<1>2. /\ y \in Nodes /\ ~ (y <= Half) /\ at[x] \in Nat
      /\ Was(x) \in Seq(Nodes) /\ Len(Was(x)) \in Nat
      /\ Was(y) \in Seq(Nodes) /\ Len(Was(y)) \in Nat
  <2>1. mate[x] # Null
    OBVIOUS
  <2>2. /\ mate[x] \in Nodes /\ ~ (mate[x] <= Half) /\ at[x] \in Nat
        /\ Was(x) \in Seq(Nodes) /\ Len(Was(x)) \in Nat
        /\ Was(mate[x]) \in Seq(Nodes) /\ Len(Was(mate[x])) \in Nat
    <3>1. StartOk /\ Matching(R) /\ Paired(R, mate, at)
      BY <1>1
    <3>2. mate[x] \in Nodes /\ at[x] \in Nat
      BY <3>1, <2>1 DEF Paired
    <3>3. ~ (mate[x] <= Half)
      BY ONLY <3>1, <2>1, x \in Nodes, PairFacts
    <3>4. \A z \in Nodes : Was(z) \in Seq(Nodes) /\ Len(Was(z)) \in Nat
      BY <3>1, Family
    <3> QED BY ONLY <3>2, <3>3, <3>4, x \in Nodes
  <2> QED BY ONLY <2>2, y = mate[x]
<1>3. at[x] <= Len(Was(x)) + 1 \/ at[x] <= Len(Was(y)) + 1
  BY <1>1 DEF Paired
<1> DEFINE s == Now(Was(x), Was(y), at[x])
<1>4. /\ After(Was(x), Was(y), at[x]) = Null /\ Len(s) = Len(Was(y))
      /\ \A k \in 1 .. Len(Was(y)) : s[k] = IF k <= Len(Was(x)) THEN Was(x)[k] ELSE Was(y)[k]
  BY <1>1, <1>2, <1>3, NowEnded
<1>5. Held(h, x, s, Null)
  BY <1>1, <1>4 DEF Linkage, PartWay
<1> HIDE DEF s
<1>6. Kids(h, x) = s
  BY <1>1, <1>5, HeldIsList
<1>7. at[x] > Len(Was(y))
  BY <1>1 DEF Ended
<1>8. ASSUME NEW k \in 1 .. Len(Was(y)), k <= Len(Was(x)) PROVE mate[Was(x)[k]] = Was(y)[k]
  <2>1. k \in 1 .. Len(Was(x)) /\ k < at[x] /\ k \in Nat
    BY <1>2, <1>7, <1>8
  <2> QED BY <2>1, <1>1, <1>8 DEF Reached
<1>9. ASSUME NEW k \in 1 .. Len(Was(y)), ~ (k <= Len(Was(x)))
      PROVE  ~ (Was(y)[k] <= Half) /\ Untouched(mate, Was(y)[k])
  <2> DEFINE z == Was(y)[k]
  <2>1. z \in Nodes /\ (z <= Half <=> y <= Half) /\ start.links.parent[z] = y
    BY <1>1, <1>2, Family
  <2> HIDE DEF z
  <2>2. mate[z] = Null
    <3>1. ASSUME mate[z] # Null PROVE z <= Half
      BY <1>1, <2>1, <3>1, PairFacts
    <3> QED BY <3>1, <2>1, <1>2
  <2>3. ASSUME NEW o \in Nodes, mate[o] = z PROVE FALSE
    <3>1. mate[o] # Null /\ start.links.parent[mate[o]] = mate[x]
      BY <2>1, <2>3, NodeFacts
    <3>2. PICK j \in Nat : Beneath(mate, at, o, x, j)
      BY <3>1, <1>1, MateBeneath
    <3>3. j \in 1 .. Len(Was(x)) /\ j \in 1 .. Len(Was(y)) /\ Was(y)[j] = z
      BY <3>2, <2>3 DEF Beneath
    <3>4. j = k
      BY <3>3, <1>1, <1>2, Family DEF z
    <3> QED BY <3>3, <3>4, <1>9
  <2> QED BY <2>1, <2>2, <2>3, <1>2 DEF Untouched, z
<1>10. \A k \in 1 .. Len(Was(y)) : Becomes(mate, s[k], Was(y)[k])
  <2> TAKE k \in 1 .. Len(Was(y))
  <2>1. CASE k <= Len(Was(x))
    BY <2>1, <1>4, <1>8 DEF Becomes
  <2>2. CASE ~ (k <= Len(Was(x)))
    BY <2>2, <1>4, <1>9 DEF Becomes
  <2> QED BY <2>1, <2>2
<1> QED BY <1>4, <1>5, <1>6, <1>10

\* Those of a node moved over are its own.
LEMMA MovedKids ==
  ASSUME NEW R, NEW h, NEW lists, NEW texts, NEW took, NEW mate, NEW at,
         Ending(R, h, lists, texts, took, mate, at),
         NEW x \in Nodes, ~ (x <= Half), Untouched(mate, x)
  PROVE  /\ Held(h, x, Kids(h, x), Null) /\ Kids(h, x) = Was(x)
         /\ \A k \in 1 .. Len(Was(x)) : Becomes(mate, Was(x)[k], Was(x)[k])
<1>1. /\ StartOk /\ Matching(R) /\ h \in Links /\ Paired(R, mate, at) /\ Reached(mate, at)
      /\ Linkage(h, mate, at)
  BY DEF Ending
<1>2. Held(h, x, Was(x), Null)
  BY <1>1 DEF Linkage
<1>3. Kids(h, x) = Was(x)
  BY <1>1, <1>2, HeldIsList
<1>4. ASSUME NEW k \in 1 .. Len(Was(x))
      PROVE  ~ (Was(x)[k] <= Half) /\ Untouched(mate, Was(x)[k])
  <2> DEFINE z == Was(x)[k]
  <2>1. /\ z \in Nodes /\ (z <= Half <=> x <= Half) /\ start.links.parent[z] = x
        /\ z \notin {OldRoot, NewRoot}
    BY <1>1, Family
  <2> HIDE DEF z
  <2>2. mate[z] = Null
    <3>1. ASSUME mate[z] # Null PROVE z <= Half
      BY <1>1, <2>1, <3>1, PairFacts
    <3> QED BY <3>1, <2>1
  <2>3. ASSUME NEW o \in Nodes, mate[o] = z PROVE FALSE
    <3>1. mate[o] # Null /\ o # OldRoot
      BY <1>1, <2>1, <2>3, NodeFacts DEF Paired
    <3>2. PICK p \in Nodes, j \in Nat : Beneath(mate, at, o, p, j)
      BY <3>1, <1>1 DEF Reached
    <3>3. mate[p] # Null /\ j \in 1 .. Len(Was(mate[p])) /\ Was(mate[p])[j] = z
      BY <3>2, <2>3 DEF Beneath
    <3>4. mate[p] \in Nodes
      BY <3>3, <1>1, PairFacts
    <3>5. start.links.parent[z] = mate[p]
      BY <3>3, <3>4, <1>1, Family
    <3> QED BY <3>5, <2>1 DEF Untouched
  <2> QED BY <2>1, <2>2, <2>3 DEF Untouched, z
<1> QED BY <1>2, <1>3, <1>4 DEF Becomes

LEMMA KidsBecome ==
  ASSUME NEW R, NEW h, NEW lists, NEW texts, NEW took, NEW mate, NEW at,
         Ending(R, h, lists, texts, took, mate, at),
         NEW x \in Nodes, NEW y \in Nodes, Becomes(mate, x, y)
  PROVE  /\ Held(h, x, Kids(h, x), Null) /\ Len(Kids(h, x)) = Len(Was(y))
         /\ \A k \in 1 .. Len(Was(y)) : Becomes(mate, Kids(h, x)[k], Was(y)[k])
<1>1. CASE mate[x] = y
  BY <1>1, NodeFacts, PairedKids
<1>2. CASE x = y /\ ~ (x <= Half) /\ Untouched(mate, x)
  BY <1>2, MovedKids
<1> QED BY <1>1, <1>2 DEF Becomes

\* What the two say of themselves.
LEMMA SaysTheSame ==
  ASSUME NEW R, NEW h, NEW lists, NEW texts, NEW took, NEW mate, NEW at,
         Ending(R, h, lists, texts, took, mate, at),
         NEW x \in Nodes, NEW y \in Nodes, Becomes(mate, x, y)
  PROVE  /\ kind[x] = kind[y] /\ (IsText(kind[x]) => texts[x] = start.text[y])
         /\ took <= Room => \A name : ValueOf(lists[x], name) = ValueOf(start.attrs[y], name)
<1>1. StartOk /\ Matching(R) /\ Paired(R, mate, at) /\ Owned(lists, texts, took, mate)
  BY DEF Ending
<1>2. CASE mate[x] = y
  <2>1. mate[x] # Null
    BY <1>2, NodeFacts
  <2>2. kind[x] = kind[y]
    BY <1>1, <1>2, <2>1, PairFacts
  <2> QED BY <1>1, <1>2, <2>1, <2>2 DEF Owned, Agrees, SameValues
<1>3. CASE x = y /\ Untouched(mate, x)
  BY <1>1, <1>3 DEF Owned, Untouched
<1> QED BY <1>2, <1>3 DEF Becomes

SayWhat(says, aims, mate) ==
  \A x, y \in Nodes : Becomes(mate, x, y) =>
    \A name : ValueOf(says[x], name) = ValueOf(aims[y], name)

\* The trees at the end show, depth by depth, what was to be shown, whichever
\* of the attributes are looked at that agree.
LEMMA TreesBecome ==
  ASSUME NEW R, NEW h, NEW lists, NEW texts, NEW took, NEW mate, NEW at,
         Ending(R, h, lists, texts, took, mate, at),
         NEW says, NEW aims, SayWhat(says, aims, mate),
         NEW f, Layered(f, h, says, texts), NEW g, Layered(g, start.links, aims, start.text)
  PROVE  f[MaxNode][OldRoot] = g[MaxNode][NewRoot]
<1>1. StartOk /\ Paired(R, mate, at) /\ MaxNode \in Nat /\ Null \notin Nodes
  BY NodeFacts DEF Ending
<1> DEFINE S == {d \in Nat : d <= MaxNode =>
                   \A x, y \in Nodes : Becomes(mate, x, y) => f[d][x] = g[d][y]}
<1>2. ASSUME NEW d \in 0 .. MaxNode, NEW x \in Nodes, NEW y \in Nodes, Becomes(mate, x, y),
             \A i \in 1 .. Len(Was(y)) : d # 0 => f[d - 1][Kids(h, x)[i]] = g[d - 1][Was(y)[i]]
      PROVE  f[d][x] = g[d][y]
  <2>1. /\ kind[x] = kind[y] /\ (IsText(kind[x]) => texts[x] = start.text[y])
        /\ \A name : ValueOf(says[x], name) = ValueOf(aims[y], name)
    BY <1>2, SaysTheSame DEF SayWhat
  <2>2. DOMAIN Kids(h, x) = 1 .. Len(Was(y)) /\ DOMAIN Was(y) = 1 .. Len(Was(y))
    <3>1. Held(h, x, Kids(h, x), Null) /\ Len(Kids(h, x)) = Len(Was(y))
      BY <1>2, KidsBecome
    <3>2. DOMAIN Kids(h, x) = 1 .. Len(Kids(h, x))
      BY <3>1, HeldFacts
    <3> QED BY <3>1, <3>2, <1>1, Family
  <2> DEFINE T == IF IsText(kind[x]) THEN texts[x] ELSE None
             U == IF IsText(kind[y]) THEN start.text[y] ELSE None
             A == [name \in Names |-> ValueOf(says[x], name)]
             B == [name \in Names |-> ValueOf(aims[y], name)]
             K == IF d = 0 THEN << >> ELSE [i \in DOMAIN Kids(h, x) |-> f[d - 1][Kids(h, x)[i]]]
             L == IF d = 0 THEN << >>
                  ELSE [i \in DOMAIN Kids(start.links, y) |-> g[d - 1][Kids(start.links, y)[i]]]
  <2>3. T = U /\ A = B
    BY <2>1
  <2>4. K = L
    <3>1. CASE d = 0
      BY <3>1
    <3>2. CASE d # 0
      <4>1. \A i \in 1 .. Len(Was(y)) : f[d - 1][Kids(h, x)[i]] = g[d - 1][Was(y)[i]]
        BY <1>2, <3>2
      <4>2. [i \in 1 .. Len(Was(y)) |-> f[d - 1][Kids(h, x)[i]]]
            = [i \in 1 .. Len(Was(y)) |-> g[d - 1][Was(y)[i]]]
        BY ONLY <4>1
      <4> QED BY <3>2, <4>2, <2>2 DEF Was
    <3> QED BY <3>1, <3>2
  <2>5. f[d][x] = [kind |-> kind[x], text |-> T, attrs |-> A, kids |-> K]
    BY LayerShows
  <2>6. g[d][y] = [kind |-> kind[y], text |-> U, attrs |-> B, kids |-> L]
    BY LayerShows
  <2> HIDE DEF T, U, A, B, K, L
  <2> QED BY ONLY <2>1, <2>3, <2>4, <2>5, <2>6
<1>3. 0 \in S
  BY <1>1, <1>2
<1>4. ASSUME NEW d \in Nat, d \in S PROVE d + 1 \in S
  <2>1. SUFFICES ASSUME d + 1 <= MaxNode, NEW x \in Nodes, NEW y \in Nodes, Becomes(mate, x, y)
                 PROVE  f[d + 1][x] = g[d + 1][y]
    OBVIOUS
  <2>2. d + 1 \in 0 .. MaxNode /\ (d + 1) - 1 = d /\ d <= MaxNode
    BY <1>1, <2>1
  <2>3. ASSUME NEW i \in 1 .. Len(Was(y)) PROVE f[d][Kids(h, x)[i]] = g[d][Was(y)[i]]
    <3>1. /\ Held(h, x, Kids(h, x), Null) /\ Len(Kids(h, x)) = Len(Was(y))
          /\ Becomes(mate, Kids(h, x)[i], Was(y)[i])
      BY <2>1, KidsBecome
    <3>2. Kids(h, x)[i] \in Nodes
      BY <3>1, HeldFacts
    <3>3. Was(y)[i] \in Nodes
      BY <1>1, Family
    <3> QED BY <3>1, <3>2, <3>3, <2>2, <1>4
  <2> QED BY <2>1, <2>2, <2>3, <1>2
<1>5. MaxNode \in S
  <2> HIDE DEF S
  <2> QED BY <1>1, <1>3, <1>4, Induction
<1>6. Becomes(mate, OldRoot, NewRoot) /\ OldRoot \in Nodes /\ NewRoot \in Nodes
  BY <1>1, RootsAreNodes DEF Becomes, Paired
<1> QED BY <1>1, <1>5, <1>6

\* Where no pair met needs a replacement, diff_trees makes the old tree the
\* new one, texts and children at every depth, however little room the arena
\* has; the attributes too where it gave every record set_attribute asked for.
THEOREM DiffConvergesAlways == DiffSpec => []DiffConverges
<1>1. WalkInv => DiffConverges
  <2> SUFFICES ASSUME WalkInv, Done, Alike
               PROVE  /\ TreeAt(links, Bare, text, OldRoot)
                         = TreeAt(start.links, Bare, start.text, NewRoot)
                      /\ asked <= Room => OldTree = Goal
    BY DEF DiffConverges
  <2>1. PICK R \in SUBSET (Nodes \X Nodes) : Matching(R)
    BY AlikeMatches DEF WalkInv
  <2>2. PICK mate, at : Ending(R, links, attrs, text, asked, mate, at)
    BY <2>1, AtTheEnd
  <2>3. ASSUME NEW says, NEW aims, SayWhat(says, aims, mate)
        PROVE  TreeAt(links, says, text, OldRoot) = TreeAt(start.links, aims, start.text, NewRoot)
    <3>1. PICK f : /\ Layered(f, links, says, text)
                   /\ \A root : TreeAt(links, says, text, root) = f[MaxNode][root]
      BY TreeInSteps
    <3>2. PICK g : /\ Layered(g, start.links, aims, start.text)
                   /\ \A root : TreeAt(start.links, aims, start.text, root) = g[MaxNode][root]
      BY TreeInSteps
    <3>3. f[MaxNode][OldRoot] = g[MaxNode][NewRoot]
      BY <2>2, <2>3, <3>1, <3>2, TreesBecome
    <3> QED BY <3>1, <3>2, <3>3
  <2>4. SayWhat(Bare, Bare, mate)
    BY DEF Bare, SayWhat
  <2>5. TreeAt(links, Bare, text, OldRoot) = TreeAt(start.links, Bare, start.text, NewRoot)
    BY <2>3, <2>4
  <2>6. ASSUME asked <= Room PROVE OldTree = Goal
    <3>1. SayWhat(attrs, start.attrs, mate)
      BY <2>2, <2>6, SaysTheSame DEF SayWhat
    <3> QED BY <3>1, <2>3 DEF OldTree, Goal
  <2> QED BY <2>5, <2>6
<1> QED BY <1>1, WalkAlways, PTL

----------------------------------------------------------------------------
\* What hangs below the old root stands where a node was to go.
LEMMA BelowBecomes ==
  ASSUME NEW R, NEW h, NEW lists, NEW texts, NEW took, NEW mate, NEW at,
         Ending(R, h, lists, texts, took, mate, at),
         NEW p \in Nodes, NEW k \in 0 .. MaxNode, Up(h, p)[k] = OldRoot
  PROVE  \E y \in Nodes : Becomes(mate, p, y)
<1>1. /\ h \in Links /\ mate[OldRoot] = NewRoot /\ OldRoot \in Nodes /\ NewRoot \in Nodes
      /\ StartOk /\ k \in Nat /\ MaxNode \in Nat /\ Null \notin Nodes
  BY RootsAreNodes, NodeFacts DEF Ending, Paired
<1> DEFINE up == Up(h, p)
           Good(x) == \E y \in Nodes : Becomes(mate, x, y)
           S == {j \in 0 .. k : up[j] \in Nodes /\ Good(up[j])}
<1>2. /\ up[0] = p
      /\ \A j \in 0 .. MaxNode : up[j] \in Nodes \union {Null}
      /\ \A j \in 1 .. MaxNode : up[j] = IF up[j - 1] = Null THEN Null ELSE h.parent[up[j - 1]]
  BY <1>1, UpIs
<1> HIDE DEF up
<1>3. up[k] = OldRoot
  BY DEF up
<1>4. Good(OldRoot)
  BY <1>1 DEF Becomes
<1>5. ASSUME NEW x \in Nodes, NEW q \in Nodes, h.parent[x] = q, Good(q) PROVE Good(x)
  <2>1. PICK y \in Nodes : Becomes(mate, q, y)
    BY <1>5
  <2>2. /\ Held(h, q, Kids(h, q), Null) /\ Len(Kids(h, q)) = Len(Was(y))
        /\ \A i \in 1 .. Len(Was(y)) : Becomes(mate, Kids(h, q)[i], Was(y)[i])
    BY <2>1, KidsBecome
  <2>3. PICK i \in 1 .. Len(Kids(h, q)) : Kids(h, q)[i] = x
    BY <2>2, <1>5 DEF Held
  <2>4. Becomes(mate, x, Was(y)[i])
    BY <2>2, <2>3
  <2>5. Was(y)[i] \in Nodes
    BY <1>1, <2>2, <2>3, Family
  <2> QED BY <2>4, <2>5
<1> HIDE DEF Good
<1>6. ASSUME NEW j \in 0 .. k, \A m \in j + 1 .. k : m \in S PROVE j \in S
  <2>1. CASE j = k
    BY <2>1, <1>1, <1>3, <1>4
  <2>2. CASE j # k
    <3>1. j + 1 \in j + 1 .. k /\ j + 1 \in 1 .. MaxNode /\ (j + 1) - 1 = j /\ j \in 0 .. MaxNode
      BY <2>2, <1>1
    <3>2. up[j + 1] \in Nodes /\ Good(up[j + 1])
      BY <3>1, <1>6
    <3>3. up[j + 1] = IF up[j] = Null THEN Null ELSE h.parent[up[j]]
      BY ONLY <3>1, <1>2
    <3>4. up[j] \in Nodes /\ h.parent[up[j]] = up[j + 1]
      BY <3>1, <3>2, <3>3, <1>1, <1>2
    <3>5. Good(up[j])
      BY <3>2, <3>4, <1>5
    <3> QED BY <3>4, <3>5
  <2> QED BY <2>1, <2>2
<1>7. 0 \in S
  <2> HIDE DEF S
  <2>1. \A j \in 0 .. k : j \in S
    BY <1>1, <1>6, Downward
  <2> QED BY <2>1, <1>1
<1>8. Good(p)
  BY <1>2, <1>7
<1> QED BY <1>8 DEF Good

\* And its lists are whole: from every node the neighbours lead back.
THEOREM OldTreeLinkedAlways == DiffSpec => []OldTreeLinked
<1>1. WalkInv => OldTreeLinked
  <2> SUFFICES ASSUME WalkInv, Done, Alike, NEW p \in OldNodes
               PROVE  LET kids == Kids(links, p) IN
                      /\ links.count[p] = Len(kids)
                      /\ \A i \in DOMAIN kids :
                           /\ links.parent[kids[i]] = p
                           /\ links.prev[kids[i]] = IF i = 1 THEN Null ELSE kids[i - 1]
                      /\ links.last[p] = IF kids = << >> THEN Null ELSE Last(kids)
    BY DEF OldTreeLinked
  <2>1. PICK R \in SUBSET (Nodes \X Nodes) : Matching(R)
    BY AlikeMatches DEF WalkInv
  <2>2. PICK mate, at : Ending(R, links, attrs, text, asked, mate, at)
    BY <2>1, AtTheEnd
  <2>3. p \in Nodes /\ \E k \in 0 .. MaxNode : Up(links, p)[k] = OldRoot
    BY DEF OldNodes
  <2>4. PICK y \in Nodes : Becomes(mate, p, y)
    BY <2>2, <2>3, BelowBecomes
  <2> DEFINE kids == Kids(links, p)
  <2>5. Held(links, p, kids, Null)
    BY <2>2, <2>3, <2>4, KidsBecome
  <2> HIDE DEF kids
  <2>6. kids \in Seq(Nodes) /\ Len(kids) \in Nat /\ DOMAIN kids = 1 .. Len(kids)
    BY <2>5, HeldFacts
  <2>7. links.last[p] = IF kids = << >> THEN Null ELSE Last(kids)
    <3>1. Len(kids) = 0 <=> kids = << >>
      BY <2>6
    <3>2. Last(kids) = kids[Len(kids)]
      BY DEF Last
    <3> QED BY <2>5, <3>1, <3>2 DEF Held
  <2>8. /\ links.count[p] = Len(kids)
        /\ \A i \in DOMAIN kids :
             /\ links.parent[kids[i]] = p
             /\ links.prev[kids[i]] = IF i = 1 THEN Null ELSE kids[i - 1]
    BY <2>5, <2>6 DEF Held
  <2> QED BY <2>7, <2>8 DEF kids
<1> QED BY <1>1, WalkAlways, PTL

----------------------------------------------------------------------------
(* The searches.                                                           *)

\* d tells how far below the top of its tree each node hangs: there is such a
\* d only where no node hangs below itself.
Depths(h, d) ==
  /\ d \in [Nodes -> Nat]
  /\ \A n \in Nodes : d[n] = IF h.parent[n] = Null THEN 0 ELSE d[h.parent[n]] + 1
Rooted(h) == \E d : Depths(h, d)

\* The chain of parents goes through the depths down to 0, and ends.
LEMMA UpThroughDepths ==
  ASSUME NEW h \in Links, NEW d, Depths(h, d), NEW n \in Nodes
  PROVE  \A k \in 0 .. MaxNode :
           IF k <= d[n] THEN Up(h, n)[k] \in Nodes /\ d[Up(h, n)[k]] = d[n] - k
           ELSE Up(h, n)[k] = Null
<1> DEFINE up == Up(h, n)
           S == {k \in Nat : k <= MaxNode =>
                   IF k <= d[n] THEN up[k] \in Nodes /\ d[up[k]] = d[n] - k ELSE up[k] = Null}
<1>1. MaxNode \in Nat /\ d[n] \in Nat /\ d \in [Nodes -> Nat]
  BY DomAssumption DEF Depths
<1>2. /\ up[0] = n
      /\ \A k \in 0 .. MaxNode : up[k] \in Nodes \union {Null}
      /\ \A k \in 1 .. MaxNode : up[k] = IF up[k - 1] = Null THEN Null ELSE h.parent[up[k - 1]]
  BY UpIs
<1> HIDE DEF up
<1>3. 0 \in S
  BY <1>1, <1>2
<1>4. ASSUME NEW k \in Nat, k \in S PROVE k + 1 \in S
  <2>1. SUFFICES ASSUME k + 1 <= MaxNode
                 PROVE  IF k + 1 <= d[n] THEN up[k + 1] \in Nodes /\ d[up[k + 1]] = d[n] - (k + 1)
                        ELSE up[k + 1] = Null
    OBVIOUS
  <2>2. k + 1 \in 1 .. MaxNode /\ (k + 1) - 1 = k /\ k <= MaxNode /\ k + 1 \in 0 .. MaxNode
    BY <1>1, <2>1
  <2>3. up[k + 1] = (IF up[k] = Null THEN Null ELSE h.parent[up[k]]) /\ up[k + 1] \in Nodes \union {Null}
    BY ONLY <2>2, <1>2
  <2>4. IF k <= d[n] THEN up[k] \in Nodes /\ d[up[k]] = d[n] - k ELSE up[k] = Null
    BY ONLY <2>2, <1>4
  <2>5. CASE ~ (k <= d[n])
    <3>1. ~ (k + 1 <= d[n])
      BY ONLY <2>5, <1>1, k \in Nat
    <3> QED BY <3>1, <2>3, <2>4, <2>5
  <2>6. CASE k <= d[n]
    <3>1. up[k] \in Nodes /\ d[up[k]] = d[n] - k /\ up[k + 1] = h.parent[up[k]]
      BY <2>3, <2>4, <2>6, NullIsNoNode
    <3>2. d[up[k]] = IF up[k + 1] = Null THEN 0 ELSE d[up[k + 1]] + 1
      BY <3>1 DEF Depths
    <3>3. CASE up[k + 1] = Null
      <4>1. d[n] - k = 0
        BY ONLY <3>1, <3>2, <3>3
      <4>2. ~ (k + 1 <= d[n])
        BY ONLY <4>1, <1>1, k \in Nat
      <4> QED BY ONLY <4>2, <3>3
    <3>4. CASE up[k + 1] # Null
      <4>1. up[k + 1] \in Nodes /\ d[up[k + 1]] \in Nat
        BY <2>3, <3>4, <1>1
      <4>2. d[n] - k = d[up[k + 1]] + 1
        BY ONLY <3>1, <3>2, <3>4
      <4>3. k + 1 <= d[n] /\ d[up[k + 1]] = d[n] - (k + 1)
        BY ONLY <4>1, <4>2, <1>1, k \in Nat
      <4> QED BY ONLY <4>1, <4>3
    <3> QED BY <3>3, <3>4
  <2> QED BY <2>5, <2>6
<1>5. \A k \in Nat : k \in S
  <2> HIDE DEF S
  <2> QED BY <1>3, <1>4, Induction
<1> QED BY <1>1, <1>5 DEF up

\* There are not more nodes on it than there are.
LEMMA DepthFits ==
  ASSUME NEW h \in Links, NEW d, Depths(h, d), NEW n \in Nodes
  PROVE  d[n] \in 0 .. MaxNode - 1
<1>1. MaxNode \in Nat /\ d[n] \in Nat
  BY DomAssumption DEF Depths
<1>2. SUFFICES ASSUME MaxNode <= d[n] PROVE FALSE
  BY <1>1
<1> DEFINE S == 1 .. MaxNode + 1
           f == [k \in S |-> Up(h, n)[k - 1]]
<1>3. \A k \in S : k - 1 \in 0 .. MaxNode /\ k - 1 <= d[n] /\ k \in Nat
  BY <1>1, <1>2
<1>4. \A k \in S : f[k] \in Nodes /\ d[f[k]] = d[n] - (k - 1)
  BY <1>3, UpThroughDepths
<1>5. ASSUME NEW k \in S, NEW l \in S, f[k] = f[l] PROVE k = l
  <2>1. d[n] - (k - 1) = d[n] - (l - 1)
    BY <1>4, <1>5
  <2> QED BY ONLY <2>1, <1>1, <1>3
<1>6. IsFiniteSet(Nodes) /\ Cardinality(Nodes) = MaxNode
  BY <1>1, UpTo DEF Nodes
<1>7. Cardinality(S) <= Cardinality(Nodes)
  <2>1. \A k \in S : f[k] \in Nodes
    BY <1>4
  <2> HIDE DEF S, f
  <2> QED BY <2>1, <1>5, <1>6, Injected
<1>8. Cardinality(S) = MaxNode + 1
  BY <1>1, UpTo
<1> QED BY <1>1, <1>6, <1>7, <1>8

\* A node at or above another is met on the way up.
LEMMA AboveAt ==
  ASSUME NEW h \in Links, NEW d, Depths(h, d), NEW n \in Nodes, NEW a \in Nodes
  PROVE  /\ AtOrAbove(h, a, n) <=> \E k \in 0 .. d[n] : Up(h, n)[k] = a
         /\ AtOrAbove(h, a, n) => d[a] <= d[n] /\ (d[a] = d[n] => a = n)
         /\ AtOrAbove(h, n, n)
<1>1. /\ d[n] \in 0 .. MaxNode - 1 /\ MaxNode \in Nat /\ Up(h, n)[0] = n /\ d[n] \in Nat
      /\ 0 \in 0 .. MaxNode
  BY DepthFits, UpIs, DomAssumption
<1>2. \A k \in 0 .. MaxNode :
        IF k <= d[n] THEN Up(h, n)[k] \in Nodes /\ d[Up(h, n)[k]] = d[n] - k ELSE Up(h, n)[k] = Null
  BY UpThroughDepths
<1>3. \A k \in 0 .. MaxNode : Up(h, n)[k] = a => k \in 0 .. d[n] /\ d[a] = d[n] - k
  BY <1>1, <1>2, NullIsNoNode
<1>4. \A k \in 0 .. d[n] : k \in 0 .. MaxNode
  BY <1>1
<1>5. AtOrAbove(h, a, n) => d[a] <= d[n] /\ (d[a] = d[n] => a = n)
  <2> SUFFICES ASSUME AtOrAbove(h, a, n) PROVE d[a] <= d[n] /\ (d[a] = d[n] => a = n)
    OBVIOUS
  <2>1. PICK k \in 0 .. MaxNode : Up(h, n)[k] = a
    BY DEF AtOrAbove
  <2>2. d[a] = d[n] - k /\ k \in Nat
    BY <2>1, <1>3
  <2>3. d[a] = d[n] => k = 0
    BY <2>2, <1>1
  <2>4. d[a] <= d[n]
    BY <2>2, <1>1
  <2> QED BY <2>1, <2>3, <2>4, <1>1
<1> QED BY <1>1, <1>3, <1>4, <1>5 DEF AtOrAbove

\* From the parent on the way is the same.
LEMMA UpShifted ==
  ASSUME NEW h \in Links, NEW n \in Nodes, NEW p \in Nodes, h.parent[n] = p
  PROVE  \A k \in 1 .. MaxNode : Up(h, n)[k] = Up(h, p)[k - 1]
<1> DEFINE up == Up(h, n)
           over == Up(h, p)
           S == {k \in Nat : k + 1 <= MaxNode => up[k + 1] = over[k]}
<1>1. MaxNode \in Nat
  BY DomAssumption
<1>2. /\ up[0] = n
      /\ \A k \in 1 .. MaxNode : up[k] = IF up[k - 1] = Null THEN Null ELSE h.parent[up[k - 1]]
  BY UpIs
<1>3. /\ over[0] = p
      /\ \A k \in 1 .. MaxNode : over[k] = IF over[k - 1] = Null THEN Null ELSE h.parent[over[k - 1]]
  BY UpIs
<1> HIDE DEF up, over
<1>4. 0 \in S
  <2>1. SUFFICES ASSUME 0 + 1 <= MaxNode PROVE up[0 + 1] = over[0]
    OBVIOUS
  <2>2. 0 + 1 \in 1 .. MaxNode /\ (0 + 1) - 1 = 0
    BY <1>1, <2>1
  <2>3. up[0 + 1] = h.parent[n]
    BY <2>2, <1>2, NullIsNoNode
  <2> QED BY <2>3, <1>3
<1>5. ASSUME NEW k \in Nat, k \in S PROVE k + 1 \in S
  <2>1. SUFFICES ASSUME (k + 1) + 1 <= MaxNode PROVE up[(k + 1) + 1] = over[k + 1]
    OBVIOUS
  <2>2. /\ k + 1 \in 1 .. MaxNode /\ (k + 1) - 1 = k
        /\ (k + 1) + 1 \in 1 .. MaxNode /\ ((k + 1) + 1) - 1 = k + 1 /\ k + 1 <= MaxNode
    BY <1>1, <2>1
  <2>3. up[k + 1] = over[k]
    BY ONLY <2>2, <1>5
  <2>4. over[k + 1] = IF over[k] = Null THEN Null ELSE h.parent[over[k]]
    BY ONLY <2>2, <1>3
  <2>5. up[(k + 1) + 1] = IF up[k + 1] = Null THEN Null ELSE h.parent[up[k + 1]]
    BY ONLY <2>2, <1>2
  <2> QED BY ONLY <2>3, <2>4, <2>5
<1>6. \A k \in Nat : k \in S
  <2> HIDE DEF S
  <2> QED BY <1>4, <1>5, Induction
<1>7. ASSUME NEW k \in 1 .. MaxNode PROVE up[k] = over[k - 1]
  <2>1. k - 1 \in Nat /\ (k - 1) + 1 = k /\ k <= MaxNode
    BY <1>1
  <2>2. k - 1 \in S
    BY <2>1, <1>6
  <2> QED BY ONLY <2>1, <2>2
<1> QED BY <1>7 DEF up, over

\* Above a node is what is above its parent ...
LEMMA AboveParent ==
  ASSUME NEW h \in Links, NEW d, Depths(h, d), NEW n \in Nodes, NEW a \in Nodes
  PROVE  AtOrAbove(h, a, n) <=>
           a = n \/ (h.parent[n] # Null /\ AtOrAbove(h, a, h.parent[n]))
<1>1. /\ MaxNode \in Nat /\ d[n] \in 0 .. MaxNode - 1 /\ d[n] \in Nat
      /\ h.parent[n] \in Nodes \union {Null}
  BY DomAssumption, DepthFits, LinksFields DEF Pointers
<1>2. CASE h.parent[n] = Null
  <2>1. d[n] = 0
    BY <1>2 DEF Depths
  <2>2. AtOrAbove(h, a, n) => a = n
    <3> SUFFICES ASSUME AtOrAbove(h, a, n) PROVE a = n
      OBVIOUS
    <3>1. d[a] <= 0 /\ (d[a] = 0 => a = n) /\ d[a] \in Nat
      BY <2>1, AboveAt DEF Depths
    <3> QED BY <3>1
  <2> QED BY <1>2, <2>2, AboveAt
<1>3. CASE h.parent[n] # Null
  <2> DEFINE p == h.parent[n]
  <2>1. p \in Nodes /\ d[n] = d[p] + 1 /\ d[p] \in Nat
    BY <1>1, <1>3 DEF Depths
  <2>2. \A k \in 1 .. MaxNode : Up(h, n)[k] = Up(h, p)[k - 1]
    BY <2>1, UpShifted
  <2>3. Up(h, n)[0] = n
    BY UpIs
  <2> HIDE DEF p
  <2>4. ASSUME AtOrAbove(h, a, n), a # n PROVE AtOrAbove(h, a, p)
    <3>1. PICK k \in 0 .. d[n] : Up(h, n)[k] = a
      BY <2>4, AboveAt
    <3>2. k # 0
      BY <3>1, <2>3, <2>4
    <3>3. k \in 1 .. MaxNode /\ k - 1 \in 0 .. d[p]
      BY ONLY <3>1, <3>2, <2>1, <1>1, k \in 0 .. d[n]
    <3> QED BY <3>1, <3>3, <2>1, <2>2, AboveAt
  <2>5. ASSUME AtOrAbove(h, a, p) PROVE AtOrAbove(h, a, n)
    <3>1. PICK k \in 0 .. d[p] : Up(h, p)[k] = a
      BY <2>1, <2>5, AboveAt
    <3>2. k + 1 \in 1 .. MaxNode /\ (k + 1) - 1 = k /\ k + 1 \in 0 .. d[n]
      BY ONLY <2>1, <1>1, k \in 0 .. d[p]
    <3>3. Up(h, n)[k + 1] = a
      BY <3>1, <3>2, <2>2
    <3> QED BY <3>2, <3>3, AboveAt
  <2> QED BY <2>4, <2>5, <1>3, AboveAt DEF p
<1> QED BY <1>2, <1>3

\* ... and below it what is below its children.
LEMMA AboveKid ==
  ASSUME NEW h \in Links, NEW d, Depths(h, d), NEW n \in Nodes, NEW a \in Nodes
  PROVE  AtOrAbove(h, a, n) <=>
           a = n \/ \E c \in Nodes : h.parent[c] = a /\ AtOrAbove(h, c, n)
<1>1. MaxNode \in Nat /\ d[n] \in 0 .. MaxNode - 1 /\ d[n] \in Nat
  BY DomAssumption, DepthFits
<1>2. /\ Up(h, n)[0] = n
      /\ \A k \in 1 .. MaxNode :
           Up(h, n)[k] = IF Up(h, n)[k - 1] = Null THEN Null ELSE h.parent[Up(h, n)[k - 1]]
  BY UpIs
<1>3. ASSUME AtOrAbove(h, a, n), a # n
      PROVE  \E c \in Nodes : h.parent[c] = a /\ AtOrAbove(h, c, n)
  <2>1. PICK k \in 0 .. d[n] : Up(h, n)[k] = a
    BY <1>3, AboveAt
  <2>2. k # 0
    BY <2>1, <1>2, <1>3
  <2>3. k \in 1 .. MaxNode /\ k - 1 \in 0 .. d[n] /\ k - 1 \in 0 .. MaxNode /\ k - 1 <= d[n]
    BY ONLY <2>2, <1>1, k \in 0 .. d[n]
  <2>4. Up(h, n)[k - 1] \in Nodes
    BY <2>3, UpThroughDepths
  <2>5. h.parent[Up(h, n)[k - 1]] = a
    BY <2>1, <2>3, <2>4, <1>2, NullIsNoNode
  <2>6. AtOrAbove(h, Up(h, n)[k - 1], n)
    BY <2>3 DEF AtOrAbove
  <2> QED BY <2>4, <2>5, <2>6
<1>4. ASSUME NEW c \in Nodes, h.parent[c] = a, AtOrAbove(h, c, n) PROVE AtOrAbove(h, a, n)
  <2>1. PICK k \in 0 .. d[n] : Up(h, n)[k] = c
    BY <1>4, AboveAt
  <2>2. k + 1 \in 1 .. MaxNode /\ (k + 1) - 1 = k /\ k + 1 \in 0 .. MaxNode
    BY ONLY <1>1, k \in 0 .. d[n]
  <2>3. Up(h, n)[k + 1] = a
    BY <2>1, <2>2, <1>2, <1>4, NullIsNoNode
  <2> QED BY <2>2, <2>3 DEF AtOrAbove
<1> QED BY <1>3, <1>4, AboveAt

\* A tree hung below a node that is not in it: all of it gets deeper.
LEMMA AttachRooted ==
  ASSUME NEW h \in Links, NEW g \in Links, Rooted(h), NEW p \in Nodes, NEW c \in Nodes,
         h.parent[c] = Null, ~ AtOrAbove(h, c, p), g.parent = [h.parent EXCEPT ![c] = p]
  PROVE  Rooted(g)
<1>1. PICK d : Depths(h, d)
  BY DEF Rooted
<1>2. /\ d \in [Nodes -> Nat] /\ d[p] \in Nat
      /\ \A n \in Nodes : d[n] = IF h.parent[n] = Null THEN 0 ELSE d[h.parent[n]] + 1
  BY <1>1 DEF Depths
<1>3. h.parent \in [Nodes -> Nodes \union {Null}]
  BY LinksFields DEF Pointers
<1>4. \A n \in Nodes : g.parent[n] = IF n = c THEN p ELSE h.parent[n]
  BY <1>3
<1> DEFINE In(n) == AtOrAbove(h, c, n)
           e == [n \in Nodes |-> IF In(n) THEN d[n] + d[p] + 1 ELSE d[n]]
<1>5. e \in [Nodes -> Nat]
  BY <1>2
<1>6. ASSUME NEW n \in Nodes PROVE In(n) <=> n = c \/ (h.parent[n] # Null /\ In(h.parent[n]))
  BY <1>1, AboveParent
<1>7. ~ In(p)
  OBVIOUS
<1> HIDE DEF In
<1>8. ASSUME NEW n \in Nodes
      PROVE  e[n] = IF g.parent[n] = Null THEN 0 ELSE e[g.parent[n]] + 1
  <2>1. CASE n = c
    <3>1. In(n) /\ d[n] = 0 /\ g.parent[n] = p /\ p # Null
      BY <2>1, <1>2, <1>4, <1>6, NullIsNoNode
    <3>2. e[n] = 0 + d[p] + 1 /\ e[p] = d[p]
      BY <3>1, <1>7
    <3> QED BY <3>1, <3>2, <1>2
  <2>2. CASE n # c /\ h.parent[n] = Null
    <3>1. ~ In(n) /\ g.parent[n] = Null /\ d[n] = 0
      BY <2>2, <1>2, <1>4, <1>6
    <3> QED BY <3>1
  <2>3. CASE n # c /\ h.parent[n] # Null
    <3> DEFINE q == h.parent[n]
    <3>1. q \in Nodes /\ g.parent[n] = q /\ (In(n) <=> In(q)) /\ d[n] = d[q] + 1 /\ q # Null
      BY <2>3, <1>2, <1>3, <1>4, <1>6
    <3> HIDE DEF q
    <3>2. d[q] \in Nat
      BY <3>1, <1>2
    <3>3. CASE In(n)
      <4>1. e[n] = d[n] + d[p] + 1 /\ e[q] = d[q] + d[p] + 1
        BY ONLY <3>1, <3>3, n \in Nodes
      <4> HIDE DEF e
      <4> QED BY <4>1, <3>1, <3>2, <1>2
    <3>4. CASE ~ In(n)
      <4>1. e[n] = d[q] + 1 /\ e[q] = d[q]
        BY <3>1, <3>4
      <4> QED BY <4>1, <3>1
    <3> QED BY <3>3, <3>4
  <2> QED BY <2>1, <2>2, <2>3
<1>9. Depths(g, e)
  <2> HIDE DEF e
  <2> QED BY <1>5, <1>8 DEF Depths
<1> QED BY <1>9 DEF Rooted

\* A tree taken out: all of it rises by what its top was below.
LEMMA DetachRooted ==
  ASSUME NEW h \in Links, NEW g \in Links, Rooted(h), NEW c \in Nodes,
         g.parent = [h.parent EXCEPT ![c] = Null]
  PROVE  Rooted(g)
<1>1. PICK d : Depths(h, d)
  BY DEF Rooted
<1>2. /\ d \in [Nodes -> Nat] /\ d[c] \in Nat
      /\ \A n \in Nodes : d[n] = IF h.parent[n] = Null THEN 0 ELSE d[h.parent[n]] + 1
  BY <1>1 DEF Depths
<1>3. h.parent \in [Nodes -> Nodes \union {Null}]
  BY LinksFields DEF Pointers
<1>4. \A n \in Nodes : g.parent[n] = IF n = c THEN Null ELSE h.parent[n]
  BY <1>3
<1> DEFINE In(n) == AtOrAbove(h, c, n)
           e == [n \in Nodes |-> IF In(n) THEN d[n] - d[c] ELSE d[n]]
<1>5. ASSUME NEW n \in Nodes
      PROVE  /\ In(n) <=> n = c \/ (h.parent[n] # Null /\ In(h.parent[n]))
             /\ In(n) => d[c] <= d[n]
  BY <1>1, AboveParent, AboveAt
<1> HIDE DEF In
<1>6. e \in [Nodes -> Nat]
  <2>1. \A n \in Nodes : In(n) => d[n] - d[c] \in Nat
    BY <1>2, <1>5
  <2> QED BY <2>1, <1>2
<1>7. ASSUME NEW n \in Nodes
      PROVE  e[n] = IF g.parent[n] = Null THEN 0 ELSE e[g.parent[n]] + 1
  <2>1. CASE n = c
    <3>1. In(n) /\ g.parent[n] = Null
      BY <2>1, <1>4, <1>5
    <3>2. e[n] = d[c] - d[c]
      BY <2>1, <3>1
    <3> QED BY <3>1, <3>2, <1>2
  <2>2. CASE n # c /\ h.parent[n] = Null
    <3>1. ~ In(n) /\ g.parent[n] = Null /\ d[n] = 0
      BY <2>2, <1>2, <1>4, <1>5
    <3> QED BY <3>1
  <2>3. CASE n # c /\ h.parent[n] # Null
    <3> DEFINE q == h.parent[n]
    <3>1. q \in Nodes /\ g.parent[n] = q /\ (In(n) <=> In(q)) /\ d[n] = d[q] + 1 /\ q # Null
      BY <2>3, <1>2, <1>3, <1>4, <1>5
    <3> HIDE DEF q
    <3>2. d[q] \in Nat
      BY <3>1, <1>2
    <3>3. CASE In(n)
      <4>1. e[n] = d[n] - d[c] /\ e[q] = d[q] - d[c]
        BY ONLY <3>1, <3>3, n \in Nodes
      <4> HIDE DEF e
      <4> QED BY <4>1, <3>1, <3>2, <1>2
    <3>4. CASE ~ In(n)
      <4>1. e[n] = d[q] + 1 /\ e[q] = d[q]
        BY <3>1, <3>4
      <4> QED BY <4>1, <3>1
    <3> QED BY <3>3, <3>4
  <2> QED BY <2>1, <2>2, <2>3
<1>8. Depths(g, e)
  <2> HIDE DEF e
  <2> QED BY <1>6, <1>7 DEF Depths
<1> QED BY <1>8 DEF Rooted

\* What the searches rely on: lists, no node below itself, and all that hangs
\* somewhere has been created.
SearchInv ==
  /\ TreeInv
  /\ Rooted(links)
  /\ \A n \in Nodes : links.parent[n] # Null => n \in Existing /\ links.parent[n] \in Existing

LEMMA SearchInitial == Init => SearchInv
<1> SUFFICES ASSUME Init PROVE SearchInv
  OBVIOUS
<1>1. TreeInv
  BY TreeInitial
<1>2. \A n \in Nodes : links.parent[n] = Null
  BY DEF Init, NoLinks
<1>3. Depths(links, [n \in Nodes |-> 0])
  BY <1>2 DEF Depths
<1> QED BY <1>1, <1>2, <1>3 DEF SearchInv, Rooted

LEMMA SearchStep == SearchInv /\ [Next]_vars => SearchInv'
<1> SUFFICES ASSUME SearchInv, [Next]_vars PROVE SearchInv'
  OBVIOUS
<1>1. TreeInv'
  BY TreeStep DEF SearchInv
<1>2. /\ links \in Links /\ links' \in Links /\ created \in 0 .. MaxNode /\ MaxNode \in Nat
      /\ Existing \subseteq Nodes
  BY <1>1, DomAssumption DEF SearchInv, TreeInv, DomInv, Existing, Nodes
<1>3. links.parent \in [Nodes -> Nodes \union {Null}]
  BY <1>2, LinksFields DEF Pointers
<1>4. ASSUME links' = links, created' \in {created, created + 1} PROVE SearchInv'
  <2>1. Rooted(links)'
    BY <1>4 DEF SearchInv, Rooted, Depths, Nodes, Null
  <2>2. Existing \subseteq Existing'
    BY <1>2, <1>4 DEF Existing
  <2>3. (\A n \in Nodes : links.parent[n] # Null => n \in Existing /\ links.parent[n] \in Existing)'
    BY <2>2, <1>4 DEF SearchInv
  <2> QED BY <1>1, <2>1, <2>3 DEF SearchInv
<1>5. ASSUME NEW p \in Existing, NEW c \in Existing, links.parent[c] = Null,
             ~ AtOrAbove(links, c, p), links'.parent = [links.parent EXCEPT ![c] = p],
             created' = created
      PROVE  SearchInv'
  <2>1. Rooted(links')
    BY <1>2, <1>5, AttachRooted DEF SearchInv
  <2>2. \A n \in Nodes : links'.parent[n] = IF n = c THEN p ELSE links.parent[n]
    BY <1>3, <1>5
  <2>3. Existing' = Existing
    BY <1>5 DEF Existing
  <2>4. (\A n \in Nodes : links.parent[n] # Null => n \in Existing /\ links.parent[n] \in Existing)'
    BY <2>2, <2>3 DEF SearchInv
  <2>5. Rooted(links)'
    BY <2>1 DEF Rooted, Depths
  <2> QED BY <1>1, <2>4, <2>5 DEF SearchInv
<1>6. ASSUME NEW p \in Existing, NEW c \in Existing, RemoveChild(p, c) PROVE SearchInv'
  <2>1. links'.parent = [links.parent EXCEPT ![c] = Null] /\ created' = created
    BY <1>6 DEF RemoveChild, UnlinkChild, Set
  <2>2. Rooted(links')
    BY <1>2, <2>1, DetachRooted DEF SearchInv
  <2>3. \A n \in Nodes : links'.parent[n] = IF n = c THEN Null ELSE links.parent[n]
    BY <1>3, <2>1
  <2>4. Existing' = Existing
    BY <2>1 DEF Existing
  <2>5. (\A n \in Nodes : links.parent[n] # Null => n \in Existing /\ links.parent[n] \in Existing)'
    BY <2>3, <2>4 DEF SearchInv
  <2>6. Rooted(links)'
    BY <2>2 DEF Rooted, Depths
  <2> QED BY <1>1, <2>5, <2>6 DEF SearchInv
<1>7. ASSUME NEW p \in Existing, NEW c \in Existing, InsertLast(p, c) PROVE SearchInv'
  <2>1. /\ links.parent[c] = Null /\ ~ AtOrAbove(links, c, p) /\ created' = created
        /\ links'.parent = [links.parent EXCEPT ![c] = p]
    BY <1>7 DEF InsertLast, Proper, AppendChild, Set
  <2> QED BY <2>1, <1>5
<1>8. ASSUME NEW p \in Existing, NEW c \in Existing, NEW r \in Existing, InsertBefore(p, c, r)
      PROVE  SearchInv'
  <2>1. /\ links.parent[c] = Null /\ ~ AtOrAbove(links, c, p) /\ created' = created
        /\ links'.parent = [links.parent EXCEPT ![c] = p]
    BY <1>8 DEF InsertBefore, Proper, InsertChild, Set
  <2> QED BY <2>1, <1>5
<1>9. CASE CreateNode
  BY <1>4, <1>9 DEF CreateNode
<1>10. CASE Refused \/ UNCHANGED vars
  BY <1>4, <1>10 DEF Refused, vars
<1>11. ASSUME NEW n \in Existing, NEW name \in Names, NEW value \in Values, SetAttribute(n, name, value)
       PROVE  SearchInv'
  BY <1>4, <1>11 DEF SetAttribute
<1>12. ASSUME NEW n \in Existing, NEW name \in Names, RemoveAttribute(n, name) PROVE SearchInv'
  BY <1>4, <1>12 DEF RemoveAttribute
<1> QED BY <1>6, <1>7, <1>8, <1>9, <1>10, <1>11, <1>12 DEF Next

\* Names are unique in a list, so the first of a name is the only one.
LEMMA SuitsIs ==
  ASSUME NEW n \in Nodes, AttrsOk(attrs[n]), NEW part
  PROVE  MatchesSimple(n, part) <=> Suits(n, part)
<1> DEFINE list == attrs[n]
           at == AttrAt(list, part.by)
<1>1. list \in Seq(Attribute) /\ \A i, j \in DOMAIN list : list[i].name = list[j].name => i = j
  BY DEF AttrsOk
<1>2. /\ at = 0 => \A i \in DOMAIN list : list[i].name # part.by
      /\ at # 0 => at \in DOMAIN list /\ list[at].name = part.by
  BY <1>1, AttrAtFirst
<1>3. Words(n, part.by) = IF at = 0 THEN {} ELSE list[at].value
  BY DEF Words
<1> HIDE DEF at, list
<1>4. part.name \in Words(n, part.by) <=>
        \E k \in DOMAIN list : list[k].name = part.by /\ part.name \in list[k].value
  <2>1. CASE at = 0
    BY <2>1, <1>2, <1>3
  <2>2. CASE at # 0
    BY <2>2, <1>1, <1>2, <1>3
  <2> QED BY <2>1, <2>2
<1> QED BY <1>4 DEF MatchesSimple, Suits, list

\* The walk up, level by level.
ClimbsBy(left, up, parts, fits) ==
  /\ left \in [0 .. MaxNode -> 0 .. Len(parts) - 1]
  /\ left[0] = Len(parts) - 1
  /\ \A k \in 1 .. MaxNode :
       left[k] = IF up[k] # Null /\ left[k - 1] > 0 /\ <<up[k], left[k - 1]>> \in fits
                 THEN left[k - 1] - 1 ELSE left[k - 1]

LEMMA ClimbIs ==
  ASSUME NEW S, NEW parts \in Seq(S), parts # << >>, NEW n \in Nodes, links \in Links,
         NEW fits, \A a \in Nodes, i \in 1 .. Len(parts) : <<a, i>> \in fits <=> MatchesSimple(a, parts[i])
  PROVE  \E left : ClimbsBy(left, Up(links, n), parts, fits) /\ Climb(n, parts) = left[MaxNode]
<1> DEFINE up == Up(links, n)
           L == Len(parts)
           V == 0 .. L - 1
           step == [a \in Nat \X V |->
                      IF up[a[1]] # Null /\ a[2] > 0 /\ MatchesSimple(up[a[1]], parts[a[2]])
                      THEN a[2] - 1 ELSE a[2]]
<1>1. L \in Nat /\ L >= 1 /\ MaxNode \in Nat
  BY DomAssumption
<1>2. step \in [Nat \X V -> V] /\ L - 1 \in V
  BY <1>1
<1>3. PICK f \in [0 .. MaxNode -> V] : Recursive(f, MaxNode, L - 1, step)
  <2> HIDE DEF V, step
  <2> QED BY <1>1, <1>2, Recursion
<1>4. f[0] = L - 1
  BY <1>3 DEF Recursive
<1>5. ASSUME NEW k \in 1 .. MaxNode
      PROVE  /\ f[k - 1] \in V
             /\ f[k] = IF up[k] # Null /\ f[k - 1] > 0 /\ MatchesSimple(up[k], parts[f[k - 1]])
                       THEN f[k - 1] - 1 ELSE f[k - 1]
  <2>1. k \in Nat /\ k - 1 \in 0 .. MaxNode
    BY <1>1
  <2>2. f[k - 1] \in V /\ f[k] = step[<<k, f[k - 1]>>]
    BY <2>1, <1>3 DEF Recursive
  <2> HIDE DEF up, V
  <2> QED BY <2>1, <2>2
<1>6. f = [k \in 0 .. MaxNode |->
             IF k = 0 THEN L - 1
             ELSE LET still == f[k - 1] IN
                  IF up[k] # Null /\ still > 0 /\ MatchesSimple(up[k], parts[still])
                  THEN still - 1 ELSE still]
  <2>1. f = [k \in 0 .. MaxNode |-> f[k]]
    BY <1>3
  <2>2. \A k \in 0 .. MaxNode : k # 0 => k \in 1 .. MaxNode
    BY <1>1
  <2> HIDE DEF up, L, V, step
  <2> QED BY <2>1, <2>2, <1>4, <1>5
<1> HIDE DEF step
<1> DEFINE e == CHOOSE left : left = [k \in 0 .. MaxNode |->
             IF k = 0 THEN L - 1
             ELSE LET still == left[k - 1] IN
                  IF up[k] # Null /\ still > 0 /\ MatchesSimple(up[k], parts[still])
                  THEN still - 1 ELSE still]
<1>7. e = [k \in 0 .. MaxNode |->
             IF k = 0 THEN L - 1
             ELSE LET still == e[k - 1] IN
                  IF up[k] # Null /\ still > 0 /\ MatchesSimple(up[k], parts[still])
                  THEN still - 1 ELSE still]
  BY <1>6
<1>8. Climb(n, parts) = e[MaxNode]
  BY DEF Climb
<1> HIDE DEF e
<1>9. /\ e[0] = L - 1
      /\ \A k \in 1 .. MaxNode :
           e[k] = IF up[k] # Null /\ e[k - 1] > 0 /\ MatchesSimple(up[k], parts[e[k - 1]])
                  THEN e[k - 1] - 1 ELSE e[k - 1]
  <2>1. 0 \in 0 .. MaxNode /\ \A k \in 1 .. MaxNode : k \in 0 .. MaxNode /\ k # 0
    BY <1>1
  <2> HIDE DEF up, L
  <2> QED BY ONLY <2>1, <1>7
<1> DEFINE T == {k \in Nat : k <= MaxNode => e[k] \in V}
<1>10. \A k \in Nat : k \in T
  <2>1. 0 \in T
    BY <1>1, <1>9
  <2>2. ASSUME NEW k \in Nat, k \in T PROVE k + 1 \in T
    <3>1. SUFFICES ASSUME k + 1 <= MaxNode PROVE e[k + 1] \in V
      OBVIOUS
    <3>2. k + 1 \in 1 .. MaxNode /\ (k + 1) - 1 = k /\ k <= MaxNode
      BY <1>1, <3>1
    <3>3. e[k] \in V
      BY ONLY <3>2, <2>2
    <3>4. e[k + 1] = e[k] \/ (e[k] > 0 /\ e[k + 1] = e[k] - 1)
      BY ONLY <3>2, <1>9
    <3> HIDE DEF L
    <3> QED BY ONLY <3>3, <3>4, <1>1
  <2> HIDE DEF T
  <2> QED BY <2>1, <2>2, Induction
<1>11. ASSUME NEW k \in 0 .. MaxNode PROVE e[k] \in V
  <2>1. k \in Nat /\ k <= MaxNode
    BY <1>1
  <2> QED BY <2>1, <1>10
<1>12. e \in [0 .. MaxNode -> V]
  <2> HIDE DEF V
  <2> QED BY ONLY <1>7, <1>11
<1>13. ASSUME NEW k \in 1 .. MaxNode
       PROVE  e[k] = IF up[k] # Null /\ e[k - 1] > 0 /\ <<up[k], e[k - 1]>> \in fits
                     THEN e[k - 1] - 1 ELSE e[k - 1]
  <2>1. up[k] # Null => up[k] \in Nodes
    <3>1. k \in 0 .. MaxNode
      BY <1>1
    <3> QED BY <3>1, UpIs
  <2>2. k - 1 \in 0 .. MaxNode
    BY <1>1
  <2>3. e[k - 1] > 0 => e[k - 1] \in 1 .. L
    BY <2>2, <1>1, <1>11
  <2>4. up[k] # Null /\ e[k - 1] > 0 =>
          (<<up[k], e[k - 1]>> \in fits <=> MatchesSimple(up[k], parts[e[k - 1]]))
    <3> HIDE DEF up
    <3> QED BY <2>1, <2>3
  <2> HIDE DEF up
  <2> QED BY ONLY <2>4, <1>9, k \in 1 .. MaxNode
<1>14. ClimbsBy(e, up, parts, fits)
  <2> HIDE DEF up
  <2> QED BY <1>9, <1>12, <1>13 DEF ClimbsBy
<1> QED BY <1>8, <1>14

\* What comes earlier among the parts is higher up.
LEMMA Higher ==
  ASSUME NEW L \in Nat, NEW height, \A i \in 1 .. L : height[i] \in Nat,
         \A i \in 1 .. L - 1 : height[i] > height[i + 1]
  PROVE  \A i, j \in 1 .. L : i < j => height[i] > height[j]
<1> DEFINE S == {g \in Nat : \A i \in 1 .. L : i + 1 + g <= L => height[i] > height[i + 1 + g]}
<1>1. 0 \in S
  <2>1. ASSUME NEW i \in 1 .. L, i + 1 + 0 <= L PROVE height[i] > height[i + 1 + 0]
    <3>1. i \in 1 .. L - 1 /\ i + 1 + 0 = i + 1
      BY <2>1
    <3> QED BY <3>1
  <2> QED BY <2>1
<1>2. ASSUME NEW g \in Nat, g \in S PROVE g + 1 \in S
  <2>1. ASSUME NEW i \in 1 .. L, i + 1 + (g + 1) <= L PROVE height[i] > height[i + 1 + (g + 1)]
    <3> DEFINE m == i + 1 + g
    <3>1. m \in 1 .. L - 1 /\ i + 1 + (g + 1) = m + 1 /\ m <= L /\ m \in 1 .. L /\ m + 1 \in 1 .. L
      BY <2>1
    <3>2. height[i] > height[m]
      BY <3>1, <1>2
    <3> HIDE DEF m
    <3>3. height[m] > height[m + 1]
      BY <3>1
    <3>4. height[i] \in Nat /\ height[m] \in Nat /\ height[m + 1] \in Nat
      BY <3>1
    <3> QED BY <3>1, <3>2, <3>3, <3>4
  <2> QED BY <2>1
<1>3. \A g \in Nat : g \in S
  <2> HIDE DEF S
  <2> QED BY <1>1, <1>2, Induction
<1>4. ASSUME NEW i \in 1 .. L, NEW j \in 1 .. L, i < j PROVE height[i] > height[j]
  <2>1. j - i - 1 \in Nat /\ i + 1 + (j - i - 1) = j /\ i + 1 + (j - i - 1) <= L
    BY <1>4
  <2>2. j - i - 1 \in S
    BY <2>1, <1>3
  <2> QED BY ONLY <2>1, <2>2, i \in 1 .. L
<1> QED BY <1>4

\* Ancestors, each above the next, that fit the parts.
Fitting(height, up, parts, fits) ==
  /\ height \in [1 .. Len(parts) -> 0 .. MaxNode - 1]
  /\ height[Len(parts)] = 0
  /\ \A i \in 1 .. Len(parts) - 1 : height[i] > height[i + 1]
  /\ \A i \in 1 .. Len(parts) : up[height[i]] # Null /\ <<up[height[i]], i>> \in fits

\* If there are any, the nearest that fits is never the wrong one: what is left
\* at a level has its ancestors higher up.
LEMMA NearestServes ==
  ASSUME NEW S, NEW parts \in Seq(S), parts # << >>, NEW left, NEW up, NEW fits,
         ClimbsBy(left, up, parts, fits), NEW height, Fitting(height, up, parts, fits)
  PROVE  left[MaxNode] = 0
<1> DEFINE L == Len(parts)
           T == {k \in Nat : k <= MaxNode => \A i \in 1 .. left[k] : height[i] > k}
<1>1. L \in Nat /\ L >= 1 /\ MaxNode \in Nat
  BY DomAssumption
<1>2. /\ \A k \in 0 .. MaxNode : left[k] \in 0 .. L - 1
      /\ left[0] = L - 1
      /\ \A k \in 1 .. MaxNode :
           left[k] = IF up[k] # Null /\ left[k - 1] > 0 /\ <<up[k], left[k - 1]>> \in fits
                     THEN left[k - 1] - 1 ELSE left[k - 1]
  BY DEF ClimbsBy
<1>3. /\ \A i \in 1 .. L : height[i] \in 0 .. MaxNode - 1
      /\ height[L] = 0
      /\ \A i \in 1 .. L - 1 : height[i] > height[i + 1]
      /\ \A i \in 1 .. L : up[height[i]] # Null /\ <<up[height[i]], i>> \in fits
  BY DEF Fitting
<1> HIDE DEF L
<1>4. \A i, j \in 1 .. L : i < j => height[i] > height[j]
  <2>1. \A i \in 1 .. L : height[i] \in Nat
    BY <1>1, <1>3
  <2> QED BY ONLY <2>1, <1>1, <1>3, Higher
<1>5. 0 \in T
  <2>1. ASSUME NEW i \in 1 .. left[0] PROVE height[i] > 0
    <3>1. i \in 1 .. L /\ L \in 1 .. L /\ i < L
      BY <1>1, <1>2
    <3> QED BY <3>1, <1>3, <1>4
  <2> QED BY <2>1
<1>6. ASSUME NEW k \in Nat, k \in T PROVE k + 1 \in T
  <2>1. SUFFICES ASSUME k + 1 <= MaxNode, NEW i \in 1 .. left[k + 1] PROVE height[i] > k + 1
    OBVIOUS
  <2>2. /\ k + 1 \in 1 .. MaxNode /\ (k + 1) - 1 = k /\ k <= MaxNode /\ k \in 0 .. MaxNode
        /\ k + 1 \in 0 .. MaxNode
    BY <1>1, <2>1
  <2>3. /\ left[k] \in 0 .. L - 1 /\ left[k + 1] \in 0 .. L - 1
        /\ left[k + 1] = IF up[k + 1] # Null /\ left[k] > 0 /\ <<up[k + 1], left[k]>> \in fits
                         THEN left[k] - 1 ELSE left[k]
    BY ONLY <2>2, <1>2
  <2>4. i \in 1 .. left[k] /\ i \in 1 .. L
    BY ONLY <2>3, <1>1, i \in 1 .. left[k + 1]
  <2>5. height[i] > k /\ height[i] \in Nat
    BY <2>2, <2>4, <1>1, <1>3, <1>6
  <2>6. CASE i < left[k]
    <3>1. left[k] \in 1 .. left[k] /\ left[k] \in 1 .. L
      BY ONLY <2>3, <2>4, <2>6, <1>1
    <3>2. height[i] > height[left[k]] /\ height[left[k]] > k
      BY <3>1, <2>2, <2>4, <2>6, <1>4, <1>6
    <3>3. height[left[k]] \in Nat
      BY <3>1, <1>1, <1>3
    <3> QED BY ONLY <3>2, <3>3, <2>5, k \in Nat
  <2>7. CASE i = left[k]
    <3>1. height[i] # k + 1
      <4>1. SUFFICES ASSUME height[i] = k + 1 PROVE FALSE
        OBVIOUS
      <4>2. up[k + 1] # Null /\ <<up[k + 1], left[k]>> \in fits
        BY <4>1, <2>4, <2>7, <1>3
      <4>3. left[k + 1] = left[k] - 1
        BY ONLY <4>2, <2>3, <2>4, <2>7
      <4> QED BY ONLY <4>3, <2>3, <2>7, i \in 1 .. left[k + 1]
    <3> QED BY ONLY <3>1, <2>5, k \in Nat
  <2> QED BY ONLY <2>3, <2>4, <2>6, <2>7
<1>7. MaxNode \in T
  <2>1. \A k \in Nat : k \in T
    <3> HIDE DEF T
    <3> QED BY <1>5, <1>6, Induction
  <2> QED BY <2>1, <1>1
<1>8. MaxNode \in 0 .. MaxNode /\ left[MaxNode] \in 0 .. L - 1
  BY <1>1, <1>2
<1>9. SUFFICES ASSUME left[MaxNode] # 0 PROVE FALSE
  OBVIOUS
<1>10. 1 \in 1 .. left[MaxNode] /\ 1 \in 1 .. L
  BY <1>1, <1>8, <1>9
<1>11. height[1] > MaxNode
  BY <1>1, <1>7, <1>10
<1> QED BY <1>1, <1>3, <1>10, <1>11

\* And where the walk takes up all parts, those that took them are such
\* ancestors.
LEMMA TakenUp ==
  ASSUME NEW S, NEW parts \in Seq(S), parts # << >>, NEW left, NEW up, NEW fits,
         ClimbsBy(left, up, parts, fits), left[MaxNode] = 0,
         up[0] # Null, <<up[0], Len(parts)>> \in fits, up[MaxNode] = Null
  PROVE  \E height : Fitting(height, up, parts, fits)
<1> DEFINE L == Len(parts)
           Took(g, k) ==
             /\ g \in [1 .. L -> 0 .. MaxNode - 1]
             /\ g[L] = 0
             /\ \A i \in left[k] + 1 .. L : g[i] <= k /\ up[g[i]] # Null /\ <<up[g[i]], i>> \in fits
             /\ \A i \in left[k] + 1 .. L - 1 : g[i] > g[i + 1]
           T == {k \in Nat : k <= MaxNode => \E g : Took(g, k)}
<1>1. L \in Nat /\ L >= 1 /\ MaxNode \in Nat /\ MaxNode >= 1
  <2>1. L \in Nat /\ L >= 1 /\ MaxNode \in Nat
    BY DomAssumption
  <2> QED BY <2>1
<1>2. /\ \A k \in 0 .. MaxNode : left[k] \in 0 .. L - 1
      /\ left[0] = L - 1
      /\ \A k \in 1 .. MaxNode :
           left[k] = IF up[k] # Null /\ left[k - 1] > 0 /\ <<up[k], left[k - 1]>> \in fits
                     THEN left[k - 1] - 1 ELSE left[k - 1]
  BY DEF ClimbsBy
<1>f. <<up[0], L>> \in fits
  OBVIOUS
<1> HIDE DEF L
<1>3. 0 \in T
  <2> DEFINE g == [i \in 1 .. L |-> 0]
  <2>1. g \in [1 .. L -> 0 .. MaxNode - 1] /\ g[L] = 0
    BY <1>1
  <2>2. ASSUME NEW i \in left[0] + 1 .. L PROVE g[i] <= 0 /\ up[g[i]] # Null /\ <<up[g[i]], i>> \in fits
    <3>1. i = L /\ g[i] = 0 /\ g[i] <= 0
      BY <1>1, <1>2
    <3>2. up[0] # Null
      OBVIOUS
    <3> HIDE DEF g
    <3> QED BY ONLY <3>1, <3>2, <1>f
  <2>3. \A i \in left[0] + 1 .. L - 1 : g[i] > g[i + 1]
    <3>1. left[0] + 1 .. L - 1 = {}
      BY <1>1, <1>2
    <3> QED BY <3>1
  <2> HIDE DEF g
  <2>4. Took(g, 0)
    BY <2>1, <2>2, <2>3
  <2> HIDE DEF Took
  <2> QED BY <2>4
<1>4. ASSUME NEW k \in Nat, k \in T PROVE k + 1 \in T
  <2>1. SUFFICES ASSUME k + 1 <= MaxNode PROVE \E g : Took(g, k + 1)
    OBVIOUS
  <2>2. /\ k + 1 \in 1 .. MaxNode /\ (k + 1) - 1 = k /\ k <= MaxNode /\ k \in 0 .. MaxNode
        /\ k + 1 \in 0 .. MaxNode
    BY <1>1, <2>1
  <2>3. PICK g : Took(g, k)
    BY ONLY <2>2, <1>4
  <2>4. /\ left[k] \in 0 .. L - 1 /\ left[k + 1] \in 0 .. L - 1
        /\ left[k + 1] = IF up[k + 1] # Null /\ left[k] > 0 /\ <<up[k + 1], left[k]>> \in fits
                         THEN left[k] - 1 ELSE left[k]
    BY ONLY <2>2, <1>2
  <2>5. /\ g \in [1 .. L -> 0 .. MaxNode - 1]
        /\ g[L] = 0
        /\ \A i \in left[k] + 1 .. L : g[i] <= k /\ up[g[i]] # Null /\ <<up[g[i]], i>> \in fits
        /\ \A i \in left[k] + 1 .. L - 1 : g[i] > g[i + 1]
    BY <2>3
  <2>6. CASE left[k + 1] = left[k]
    <3>1. \A i \in left[k + 1] + 1 .. L : g[i] <= k + 1 /\ up[g[i]] # Null /\ <<up[g[i]], i>> \in fits
      <4>1. ASSUME NEW i \in left[k + 1] + 1 .. L PROVE g[i] <= k + 1 /\ up[g[i]] # Null /\ <<up[g[i]], i>> \in fits
        <5>1. i \in left[k] + 1 .. L /\ i \in 1 .. L
          BY ONLY <2>4, <2>6, <1>1, i \in left[k + 1] + 1 .. L
        <5>2. g[i] <= k /\ g[i] \in 0 .. MaxNode - 1
          BY ONLY <5>1, <2>5
        <5>3. g[i] <= k + 1
          BY ONLY <5>2, <1>1, k \in Nat
        <5> QED BY ONLY <5>1, <5>3, <2>5
      <4> QED BY <4>1
    <3>2. \A i \in left[k + 1] + 1 .. L - 1 : g[i] > g[i + 1]
      BY ONLY <2>5, <2>6
    <3>3. Took(g, k + 1)
      BY <3>1, <3>2, <2>5
    <3> HIDE DEF Took
    <3> QED BY <3>3
  <2>7. CASE left[k + 1] # left[k]
    <3>1. /\ up[k + 1] # Null /\ left[k] > 0 /\ <<up[k + 1], left[k]>> \in fits
          /\ left[k + 1] = left[k] - 1
      BY ONLY <2>4, <2>7
    <3>2. k + 1 \in 0 .. MaxNode - 1
      <4>1. k + 1 # MaxNode
        BY <3>1
      <4> QED BY ONLY <4>1, <2>2, <1>1
    <3> DEFINE a == left[k]
               f == [i \in 1 .. L |-> IF i = a THEN k + 1 ELSE g[i]]
    <3>3. a \in 1 .. L /\ a < L /\ a \in Nat /\ left[k + 1] + 1 = a
      BY ONLY <2>4, <3>1, <1>1
    <3>4. f \in [1 .. L -> 0 .. MaxNode - 1] /\ f[L] = 0 /\ f[a] = k + 1
          /\ \A i \in a + 1 .. L : f[i] = g[i] /\ i \in 1 .. L
      <4> HIDE DEF a
      <4> QED BY ONLY <2>5, <3>2, <3>3, <1>1
    <3> HIDE DEF f
    <3>5. /\ \A i \in a + 1 .. L : g[i] <= k /\ up[g[i]] # Null /\ <<up[g[i]], i>> \in fits
          /\ \A i \in a + 1 .. L - 1 : g[i] > g[i + 1]
          /\ up[k + 1] # Null /\ <<up[k + 1], a>> \in fits
      BY ONLY <2>5, <3>1
    <3> HIDE DEF a
    <3>6. ASSUME NEW i \in left[k + 1] + 1 .. L
          PROVE  f[i] <= k + 1 /\ up[f[i]] # Null /\ <<up[f[i]], i>> \in fits
      <4>1. CASE i = a
        BY <4>1, <3>4, <3>5
      <4>2. CASE i # a
        <5>1. i \in a + 1 .. L
          BY ONLY <4>2, <3>3, <1>1, i \in left[k + 1] + 1 .. L
        <5>2. f[i] = g[i] /\ g[i] <= k /\ up[g[i]] # Null /\ <<up[g[i]], i>> \in fits
              /\ i \in 1 .. L
          BY ONLY <5>1, <3>4, <3>5
        <5>3. g[i] \in 0 .. MaxNode - 1
          BY ONLY <5>2, <2>5
        <5>4. g[i] <= k + 1
          BY ONLY <5>2, <5>3, <1>1, k \in Nat
        <5> QED BY ONLY <5>2, <5>4
      <4> QED BY <4>1, <4>2
    <3>7. ASSUME NEW i \in left[k + 1] + 1 .. L - 1 PROVE f[i] > f[i + 1]
      <4>0. i \in Nat /\ i >= a /\ i <= L - 1
        BY ONLY <3>3, <1>1, i \in left[k + 1] + 1 .. L - 1
      <4>1. CASE i = a
        <5>1. a + 1 \in a + 1 .. L
          BY ONLY <3>3, <1>1
        <5>2. f[a + 1] = g[a + 1] /\ g[a + 1] <= k /\ a + 1 \in 1 .. L
          BY ONLY <5>1, <3>4, <3>5
        <5>3. g[a + 1] \in 0 .. MaxNode - 1
          BY ONLY <5>2, <2>5
        <5>4. k + 1 > g[a + 1]
          BY ONLY <5>2, <5>3, <1>1, k \in Nat
        <5> QED BY ONLY <5>2, <5>4, <4>1, <3>4
      <4>2. CASE i # a
        <5>1. i \in a + 1 .. L - 1 /\ i \in a + 1 .. L /\ i + 1 \in a + 1 .. L
          BY ONLY <4>0, <4>2, <3>3, <1>1
        <5> QED BY ONLY <5>1, <3>4, <3>5
      <4> QED BY <4>1, <4>2
    <3>8. Took(f, k + 1)
      BY <3>4, <3>6, <3>7
    <3> HIDE DEF Took
    <3> QED BY <3>8
  <2> QED BY <2>6, <2>7
<1>5. MaxNode \in T
  <2>1. \A k \in Nat : k \in T
    <3> HIDE DEF T
    <3> QED BY <1>3, <1>4, Induction
  <2> QED BY <2>1, <1>1
<1>6. PICK g : Took(g, MaxNode)
  BY <1>1, <1>5
<1>7. left[MaxNode] + 1 = 1
  OBVIOUS
<1>8. Fitting(g, up, parts, fits)
  BY <1>6, <1>7 DEF Fitting, L
<1> QED BY <1>8

\* The walk up finds the nodes that are selected, whatever the choice.
LEMMA ComplexIsSelected ==
  ASSUME SearchInv, NEW n \in Nodes, NEW S, NEW parts \in Seq(S)
  PROVE  MatchesComplex(n, parts) <=> Selected(n, parts)
<1>1. CASE parts = << >>
  BY <1>1 DEF MatchesComplex, Selected
<1>2. CASE parts # << >>
  <2> DEFINE up == Up(links, n)
             L == Len(parts)
             fits == {f \in Nodes \X (1 .. L) : MatchesSimple(f[1], parts[f[2]])}
  <2>1. /\ links \in Links /\ L \in Nat /\ L >= 1 /\ DOMAIN parts = 1 .. L /\ Last(parts) = parts[L]
        /\ MaxNode \in Nat
    <3>1. links \in Links
      BY DEF SearchInv, TreeInv, DomInv
    <3>2. L \in Nat /\ L >= 1 /\ Last(parts) = parts[L]
      BY <1>2, LastOff
    <3> QED BY <3>1, <3>2, DomAssumption
  <2>2. PICK d : Depths(links, d)
    BY DEF SearchInv, Rooted
  <2>3. /\ up[0] = n /\ \A k \in 0 .. MaxNode : up[k] \in Nodes \union {Null}
        /\ up[MaxNode] = Null
    <3>1. d[n] \in 0 .. MaxNode - 1 /\ MaxNode \in 0 .. MaxNode
      BY <2>1, <2>2, DepthFits
    <3>2. ~ (MaxNode <= d[n])
      BY <3>1, <2>1
    <3> QED BY <2>1, <2>2, <3>1, <3>2, UpIs, UpThroughDepths
  <2>4. \A a \in Nodes, i \in 1 .. L : <<a, i>> \in fits <=> MatchesSimple(a, parts[i])
    OBVIOUS
  <2>5. \A a \in Nodes, i \in 1 .. L : <<a, i>> \in fits <=> Suits(a, parts[i])
    BY <2>4, SuitsIs DEF SearchInv, TreeInv
  <2> HIDE DEF fits
  <2>6. PICK left : ClimbsBy(left, up, parts, fits) /\ Climb(n, parts) = left[MaxNode]
    BY <1>2, <2>1, <2>4, ClimbIs
  <2>7. ASSUME NEW height \in [1 .. L -> 0 .. MaxNode - 1]
        PROVE  \A i \in 1 .. L :
                 /\ up[height[i]] \in Nodes \union {Null} /\ height[i] \in 0 .. MaxNode - 1
                 /\ up[height[i]] # Null /\ Suits(up[height[i]], parts[i]) <=>
                      up[height[i]] # Null /\ <<up[height[i]], i>> \in fits
    <3> TAKE i \in 1 .. L
    <3>1. height[i] \in 0 .. MaxNode - 1 /\ height[i] \in 0 .. MaxNode
      BY <2>1
    <3>2. up[height[i]] \in Nodes \union {Null}
      BY <3>1, <2>3
    <3> HIDE DEF up
    <3> QED BY <3>1, <3>2, <2>5
  <2> HIDE DEF up
  <2>8. Selected(n, parts) <=> \E height : Fitting(height, up, parts, fits)
    <3>1. Selected(n, parts) <=>
            \E height \in [1 .. L -> 0 .. MaxNode - 1] :
              /\ height[L] = 0
              /\ \A i \in 1 .. L - 1 : height[i] > height[i + 1]
              /\ \A i \in 1 .. L : up[height[i]] # Null /\ Suits(up[height[i]], parts[i])
      BY <1>2, <2>1 DEF Selected, up
    <3>2. ASSUME NEW height \in [1 .. L -> 0 .. MaxNode - 1]
          PROVE  (\A i \in 1 .. L : up[height[i]] # Null /\ Suits(up[height[i]], parts[i])) <=>
                 (\A i \in 1 .. L : up[height[i]] # Null /\ <<up[height[i]], i>> \in fits)
      BY <2>7
    <3>3. \A height : Fitting(height, up, parts, fits) <=>
            /\ height \in [1 .. L -> 0 .. MaxNode - 1]
            /\ height[L] = 0
            /\ \A i \in 1 .. L - 1 : height[i] > height[i + 1]
            /\ \A i \in 1 .. L : up[height[i]] # Null /\ <<up[height[i]], i>> \in fits
      BY DEF Fitting
    <3> HIDE DEF L
    <3> QED BY ONLY <3>1, <3>2, <3>3
  <2>9. ASSUME Selected(n, parts) PROVE MatchesComplex(n, parts)
    <3>1. PICK height : Fitting(height, up, parts, fits)
      BY <2>8, <2>9
    <3>2. Climb(n, parts) = 0
      BY <1>2, <2>6, <3>1, NearestServes
    <3>3. /\ height \in [1 .. L -> 0 .. MaxNode - 1] /\ height[L] = 0 /\ L \in 1 .. L
          /\ <<up[height[L]], L>> \in fits
      BY <2>1, <3>1 DEF Fitting
    <3>4. MatchesSimple(n, parts[L])
      BY <3>3, <2>3, <2>4
    <3> QED BY <1>2, <2>1, <3>2, <3>4 DEF MatchesComplex
  <2>10. ASSUME MatchesComplex(n, parts) PROVE Selected(n, parts)
    <3>1. MatchesSimple(n, parts[L]) /\ left[MaxNode] = 0
      BY <2>1, <2>6, <2>10 DEF MatchesComplex
    <3>2. L \in 1 .. L
      BY <2>1
    <3>3. <<up[0], L>> \in fits /\ up[0] # Null
      BY <3>1, <3>2, <2>3, <2>4, NullIsNoNode
    <3>4. \E height : Fitting(height, up, parts, fits)
      BY <1>2, <2>3, <2>6, <3>1, <3>3, TakenUp
    <3> QED BY <3>4, <2>8
  <2> QED BY <2>9, <2>10
<1> QED BY <1>1, <1>2

----------------------------------------------------------------------------
\* Nodes that come before others, and the first of these and those.
LEMMA FirstOfBoth ==
  ASSUME NEW A, NEW B, NEW max \in Nat, NEW room \in Nat,
         NEW s \in Seq(Nodes), NEW t \in Seq(Nodes),
         FirstOf(A, max, s), room = max - Len(s), FirstOf(B, room, t),
         \A a \in A, b \in B : Precedes(a, b)
  PROVE  FirstOf(A \union B, max, s \o t)
<1> DEFINE u == s \o t
           m == Len(s)
           k == Len(t)
<1>1. /\ m \in Nat /\ k \in Nat /\ Len(u) = m + k /\ u \in Seq(Nodes)
      /\ \A i \in 1 .. m : u[i] = s[i]
      /\ \A i \in 1 .. k : u[m + i] = t[i]
  BY Joined
<1>2. /\ DOMAIN s = 1 .. m /\ DOMAIN t = 1 .. k /\ DOMAIN u = 1 .. m + k
      /\ ToSet(s) = {s[i] : i \in 1 .. m} /\ ToSet(t) = {t[i] : i \in 1 .. k}
      /\ ToSet(u) = {u[i] : i \in 1 .. m + k}
  BY <1>1 DEF ToSet
<1> HIDE DEF u
<1>3. ASSUME NEW i \in 1 .. m + k
      PROVE  \/ i \in 1 .. m /\ u[i] = s[i] /\ u[i] \in A
             \/ i - m \in 1 .. k /\ u[i] = t[i - m] /\ u[i] \in B
  <2>1. CASE i <= m
    <3>1. i \in 1 .. m
      BY <2>1, <1>1
    <3>2. s[i] \in A
      BY <3>1, <1>2 DEF FirstOf
    <3> QED BY <3>1, <3>2, <1>1
  <2>2. CASE ~ (i <= m)
    <3>1. i - m \in 1 .. k /\ m + (i - m) = i
      BY <2>2, <1>1
    <3>2. t[i - m] \in B
      BY <3>1, <1>2 DEF FirstOf
    <3>3. u[m + (i - m)] = t[i - m]
      BY ONLY <3>1, <1>1
    <3> QED BY <3>1, <3>2, <3>3
  <2> QED BY <2>1, <2>2
<1>4. Len(u) <= max
  BY <1>1 DEF FirstOf
<1>5. ToSet(u) \subseteq A \union B
  BY <1>2, <1>3
<1>6. ASSUME NEW i \in 1 .. m + k, NEW j \in 1 .. m + k, i < j PROVE Precedes(u[i], u[j])
  <2>1. CASE i <= m /\ j <= m
    <3>1. i \in 1 .. m /\ j \in 1 .. m
      BY <2>1, <1>1
    <3> QED BY <3>1, <1>1, <1>2, <1>6 DEF FirstOf
  <2>2. CASE i <= m /\ ~ (j <= m)
    <3>1. i \in 1 .. m /\ j - m \notin {} /\ ~ (j \in 1 .. m) /\ ~ (i - m \in 1 .. k)
      BY <2>2, <1>1
    <3>2. u[i] \in A /\ u[j] \in B
      BY <3>1, <1>3
    <3> QED BY <3>2
  <2>3. CASE ~ (i <= m)
    <3>1. i - m \in 1 .. k /\ j - m \in 1 .. k /\ i - m < j - m
          /\ m + (i - m) = i /\ m + (j - m) = j
      BY <2>3, <1>1, <1>6
    <3>2. u[m + (i - m)] = t[i - m] /\ u[m + (j - m)] = t[j - m]
      BY ONLY <3>1, <1>1
    <3>3. Precedes(t[i - m], t[j - m])
      BY <3>1, <1>2 DEF FirstOf
    <3> QED BY <3>1, <3>2, <3>3
  <2> QED BY <2>1, <2>2, <2>3
<1>7. ASSUME NEW x \in (A \union B) \ ToSet(u)
      PROVE  Len(u) = max /\ \A i \in 1 .. m + k : Precedes(u[i], x)
  <2>1. ASSUME NEW i \in 1 .. m PROVE i \in 1 .. m + k /\ u[i] = s[i]
    BY <1>1
  <2>2. ASSUME NEW i \in 1 .. k PROVE m + i \in 1 .. m + k /\ u[m + i] = t[i]
    BY <1>1
  <2>3. x \notin ToSet(s) /\ x \notin ToSet(t)
    BY <2>1, <2>2, <1>2, <1>7
  <2>4. CASE x \in A
    <3>1. m = max /\ \A i \in 1 .. m : Precedes(s[i], x)
      BY <2>3, <2>4, <1>2 DEF FirstOf
    <3>2. k <= 0
      <4>1. k <= max - m
        BY DEF FirstOf
      <4> QED BY <4>1, <3>1, <1>1
    <3>3. k = 0 /\ m + k = m
      BY <3>2, <1>1
    <3> QED BY <3>1, <3>3, <1>1
  <2>5. CASE x \in B
    <3>1. k = max - m /\ \A i \in 1 .. k : Precedes(t[i], x)
      BY <2>3, <2>5, <1>2 DEF FirstOf
    <3>2. Len(u) = max
      BY <3>1, <1>1
    <3>3. ASSUME NEW i \in 1 .. m + k PROVE Precedes(u[i], x)
      BY <1>3, <2>5, <3>1
    <3> QED BY <3>2, <3>3
  <2> QED BY <2>4, <2>5, <1>7
<1> QED BY <1>2, <1>4, <1>5, <1>6, <1>7 DEF FirstOf, u

Walks == [Nodes \X Seq(Nodes) -> Seq(Nodes)]

\* A call at n: the node itself, then its children, one after the other.
VisitsBy(after, fits, n, sofar, below) ==
  /\ after \in [0 .. Len(Kids(links, n)) -> Seq(Nodes)]
  /\ after[0] = IF n \in fits THEN Append(sofar, n) ELSE sofar
  /\ \A k \in 1 .. Len(Kids(links, n)) : after[k] = below[<<Kids(links, n)[k], after[k - 1]>>]

LEMMA VisitIs ==
  ASSUME NEW fits, NEW max \in Nat, NEW n \in Nodes, NEW sofar \in Seq(Nodes),
         NEW below \in Walks, Kids(links, n) \in Seq(Nodes)
  PROVE  \E after : /\ VisitsBy(after, fits, n, sofar, below)
                    /\ Visit(fits, max, n, sofar, below) =
                         IF Len(sofar) >= max THEN sofar ELSE after[Len(Kids(links, n))]
<1> DEFINE kids == Kids(links, n)
           L == Len(kids)
           V == Seq(Nodes)
           base == IF n \in fits THEN Append(sofar, n) ELSE sofar
           step == [a \in Nat \X V |-> IF a[1] \in 1 .. L THEN below[<<kids[a[1]], a[2]>>] ELSE << >>]
<1>1. L \in Nat /\ \A k \in 1 .. L : kids[k] \in Nodes
  BY ElementOfSeq
<1>2. base \in V
  OBVIOUS
<1>3. step \in [Nat \X V -> V]
  <2>1. << >> \in V
    OBVIOUS
  <2>2. ASSUME NEW a \in Nat \X V, a[1] \in 1 .. L PROVE below[<<kids[a[1]], a[2]>>] \in V
    <3>1. <<kids[a[1]], a[2]>> \in Nodes \X V
      BY <1>1, <2>2
    <3> HIDE DEF kids, V
    <3> QED BY <3>1 DEF Walks, V
  <2> HIDE DEF V, kids, L
  <2> QED BY <2>1, <2>2
<1> HIDE DEF base, step
<1>4. PICK f \in [0 .. L -> V] : Unrolls(f, L, base, step)
  <2> HIDE DEF V, L
  <2> QED BY <1>1, <1>2, <1>3, Unrolled
<1>5. f = [k \in 0 .. L |-> IF k = 0 THEN base ELSE step[<<k, f[k - 1]>>]]
  BY <1>4 DEF Unrolls
<1>6. ASSUME NEW k \in 1 .. L
      PROVE  step[<<k, f[k - 1]>>] = below[<<kids[k], f[k - 1]>>]
  <2>1. k \in Nat /\ k - 1 \in 0 .. L
    BY <1>1
  <2>2. f[k - 1] \in V
    BY <2>1, <1>4
  <2> HIDE DEF V, L, kids
  <2> QED BY <2>1, <2>2 DEF step
<1>7. f = [k \in 0 .. L |-> IF k = 0 THEN base ELSE below[<<kids[k], f[k - 1]>>]]
  <2>1. \A k \in 0 .. L : k # 0 => k \in 1 .. L
    BY <1>1
  <2> HIDE DEF L, kids
  <2> QED BY ONLY <2>1, <1>5, <1>6
<1> DEFINE e == CHOOSE after : after = [k \in 0 .. L |->
                   IF k = 0 THEN base ELSE below[<<kids[k], after[k - 1]>>]]
<1>8. e = [k \in 0 .. L |-> IF k = 0 THEN base ELSE below[<<kids[k], e[k - 1]>>]]
  BY <1>7
<1>9. Visit(fits, max, n, sofar, below) = IF Len(sofar) >= max THEN sofar ELSE e[L]
  BY DEF Visit, base
<1> HIDE DEF e
<1>10. /\ e[0] = base
       /\ \A k \in 1 .. L : e[k] = below[<<kids[k], e[k - 1]>>]
  <2>1. 0 \in 0 .. L /\ \A k \in 1 .. L : k \in 0 .. L /\ k # 0
    BY <1>1
  <2> HIDE DEF L, kids
  <2> QED BY ONLY <2>1, <1>8
<1>11. \A k \in 0 .. L : e[k] \in V
  <2> DEFINE S == {k \in Nat : k <= L => e[k] \in V}
  <2>1. 0 \in S
    BY <1>2, <1>10
  <2>2. ASSUME NEW k \in Nat, k \in S PROVE k + 1 \in S
    <3>1. SUFFICES ASSUME k + 1 <= L PROVE e[k + 1] \in V
      OBVIOUS
    <3>2. k + 1 \in 1 .. L /\ (k + 1) - 1 = k /\ k <= L
      BY <1>1, <3>1
    <3>3. e[k + 1] = below[<<kids[k + 1], e[k]>>]
      BY ONLY <3>2, <1>10
    <3>4. <<kids[k + 1], e[k]>> \in Nodes \X V
      <4>1. e[k] \in V
        BY ONLY <2>2, <3>2
      <4> HIDE DEF V, kids, L
      <4> QED BY <3>2, <4>1, <1>1
    <3> HIDE DEF kids, L
    <3> QED BY <3>3, <3>4 DEF Walks
  <2>3. \A k \in Nat : k \in S
    <3> HIDE DEF S
    <3> QED BY <2>1, <2>2, Induction
  <2>4. \A k \in 0 .. L : k \in Nat /\ k <= L
    BY <1>1
  <2> QED BY <2>3, <2>4
<1>12. e \in [0 .. L -> V]
  <2> HIDE DEF V, L, kids
  <2> QED BY ONLY <1>8, <1>11
<1>13. VisitsBy(e, fits, n, sofar, below)
  BY <1>10, <1>12 DEF VisitsBy, base
<1> QED BY <1>9, <1>13

\* The calls, from the deepest up.
LEMMA CollectedIs ==
  ASSUME NEW fits, NEW max \in Nat, \A n \in Nodes : Kids(links, n) \in Seq(Nodes)
  PROVE  \E walk \in [0 .. MaxNode -> Walks] :
           /\ \A k \in 1 .. MaxNode, m \in Nodes, s \in Seq(Nodes) :
                walk[k][<<m, s>>] = Visit(fits, max, m, s, walk[k - 1])
           /\ \A n \in Nodes : Collected(fits, max, n) = walk[MaxNode][<<n, << >>>>]
<1> DEFINE base == [at \in Nodes \X Seq(Nodes) |-> at[2]]
           Over(below) == [at \in Nodes \X Seq(Nodes) |-> Visit(fits, max, at[1], at[2], below)]
           step == [a \in Nat \X Walks |-> Over(a[2])]
<1>1. MaxNode \in Nat
  BY DomAssumption
<1>2. base \in Walks
  BY DEF Walks
<1>3. ASSUME NEW below \in Walks PROVE Over(below) \in Walks
  <2>1. ASSUME NEW m \in Nodes, NEW s \in Seq(Nodes)
        PROVE  Visit(fits, max, m, s, below) \in Seq(Nodes)
    <3> DEFINE kids == Kids(links, m)
    <3>1. kids \in Seq(Nodes)
      OBVIOUS
    <3>2. PICK after : /\ VisitsBy(after, fits, m, s, below)
                       /\ Visit(fits, max, m, s, below) = IF Len(s) >= max THEN s ELSE after[Len(kids)]
      BY <3>1, VisitIs
    <3>3. Len(kids) \in 0 .. Len(kids) /\ after \in [0 .. Len(kids) -> Seq(Nodes)]
      BY <3>1, <3>2 DEF VisitsBy
    <3> HIDE DEF kids
    <3> QED BY <3>2, <3>3
  <2>2. \A at \in Nodes \X Seq(Nodes) : at[1] \in Nodes /\ at[2] \in Seq(Nodes)
    OBVIOUS
  <2> QED BY <2>1, <2>2 DEF Walks
<1>4. step \in [Nat \X Walks -> Walks]
  <2> HIDE DEF Over
  <2> QED BY <1>3
<1> HIDE DEF base, step
<1>5. PICK f \in [0 .. MaxNode -> Walks] : Unrolls(f, MaxNode, base, step)
  BY <1>1, <1>2, <1>4, Unrolled
<1>6. f = [k \in 0 .. MaxNode |-> IF k = 0 THEN base ELSE step[<<k, f[k - 1]>>]]
  BY <1>5 DEF Unrolls
<1>7. ASSUME NEW k \in 0 .. MaxNode
      PROVE  (IF k = 0 THEN base ELSE step[<<k, f[k - 1]>>]) =
             [at \in Nodes \X Seq(Nodes) |->
                IF k = 0 THEN at[2] ELSE Visit(fits, max, at[1], at[2], f[k - 1])]
  <2>1. CASE k = 0
    BY <2>1 DEF base
  <2>2. CASE k # 0
    <3>1. k \in Nat /\ k - 1 \in 0 .. MaxNode
      BY <2>2, <1>1
    <3>2. f[k - 1] \in Walks
      BY <3>1, <1>5
    <3>3. step[<<k, f[k - 1]>>] = Over(f[k - 1])
      <4> HIDE DEF Over
      <4> QED BY <3>1, <3>2 DEF step
    <3> QED BY <2>2, <3>3
  <2> QED BY <2>1, <2>2
<1>8. f = [k \in 0 .. MaxNode |-> [at \in Nodes \X Seq(Nodes) |->
             IF k = 0 THEN at[2] ELSE Visit(fits, max, at[1], at[2], f[k - 1])]]
  BY ONLY <1>6, <1>7
<1> DEFINE e == CHOOSE walk : walk = [depth \in 0 .. MaxNode |-> [at \in Nodes \X Seq(Nodes) |->
             IF depth = 0 THEN at[2] ELSE Visit(fits, max, at[1], at[2], walk[depth - 1])]]
<1>9. e = [k \in 0 .. MaxNode |-> [at \in Nodes \X Seq(Nodes) |->
             IF k = 0 THEN at[2] ELSE Visit(fits, max, at[1], at[2], e[k - 1])]]
  BY <1>8
<1>10. \A n : Collected(fits, max, n) = e[MaxNode][<<n, << >>>>]
  BY DEF Collected
<1> HIDE DEF e
<1>11. e[0] = base /\ \A k \in 1 .. MaxNode : e[k] = Over(e[k - 1])
  <2>1. 0 \in 0 .. MaxNode /\ \A k \in 1 .. MaxNode : k \in 0 .. MaxNode /\ k # 0
    BY <1>1
  <2> QED BY <2>1, <1>9 DEF base
<1>12. \A k \in 0 .. MaxNode : e[k] \in Walks
  <2> DEFINE S == {k \in Nat : k <= MaxNode => e[k] \in Walks}
  <2>1. 0 \in S
    BY <1>2, <1>11
  <2>2. ASSUME NEW k \in Nat, k \in S PROVE k + 1 \in S
    <3>1. SUFFICES ASSUME k + 1 <= MaxNode PROVE e[k + 1] \in Walks
      OBVIOUS
    <3>2. k + 1 \in 1 .. MaxNode /\ (k + 1) - 1 = k /\ k <= MaxNode
      BY <1>1, <3>1
    <3> HIDE DEF Over
    <3>3. e[k + 1] = Over(e[k]) /\ e[k] \in Walks
      BY ONLY <3>2, <1>11, <2>2
    <3> QED BY <3>3, <1>3
  <2>3. \A k \in Nat : k \in S
    <3> HIDE DEF S
    <3> QED BY <2>1, <2>2, Induction
  <2>4. \A k \in 0 .. MaxNode : k \in Nat /\ k <= MaxNode
    BY <1>1
  <2> QED BY <2>3, <2>4
<1>13. e \in [0 .. MaxNode -> Walks]
  BY ONLY <1>9, <1>12
<1>14. ASSUME NEW k \in 1 .. MaxNode, NEW m \in Nodes, NEW s \in Seq(Nodes)
       PROVE  e[k][<<m, s>>] = Visit(fits, max, m, s, e[k - 1])
  BY <1>11
<1> QED BY <1>10, <1>13, <1>14

\* What is under a child comes after what is under an earlier one, and after
\* their parent.
LEMMA InDocumentOrder ==
  ASSUME SearchInv, NEW n \in Nodes, NEW j \in 1 .. Len(Kids(links, n)), NEW b \in Under(Kids(links, n)[j])
  PROVE  /\ n # b /\ AtOrAbove(links, n, b) /\ Precedes(n, b)
         /\ \A i \in 1 .. Len(Kids(links, n)), a \in Existing :
              i < j /\ AtOrAbove(links, Kids(links, n)[i], a) => Precedes(a, b)
<1> DEFINE kids == Kids(links, n)
           L == Len(kids)
<1>1. /\ links \in Links /\ ListOf(links, n, kids)
      /\ \A m \in Nodes : links.parent[m] # Null => m \in Existing /\ links.parent[m] \in Existing
      /\ Existing \subseteq Nodes
  <2>1. links \in Links /\ ListOf(links, n, kids) /\ created \in 0 .. MaxNode
    BY DEF SearchInv, TreeInv, DomInv, Listed
  <2>2. Existing \subseteq Nodes
    BY <2>1, DomAssumption DEF Existing, Nodes
  <2> QED BY <2>1, <2>2 DEF SearchInv
<1>2. /\ L \in Nat /\ DOMAIN kids = 1 .. L
      /\ \A i \in 1 .. L : kids[i] \in Nodes /\ links.parent[kids[i]] = n /\ kids[i] \in Existing
      /\ \A i, k \in 1 .. L : kids[i] = kids[k] => i = k
  <2>1. L \in Nat /\ DOMAIN kids = 1 .. L /\ \A i \in 1 .. L : kids[i] \in Nodes
    BY <1>1, ListFacts
  <2>2. /\ \A i \in 1 .. L : links.parent[kids[i]] = n
        /\ \A i, k \in 1 .. L : kids[i] = kids[k] => i = k
    BY <1>1 DEF ListOf
  <2> QED BY <2>1, <2>2, <1>1, NullIsNoNode
<1>3. PICK d : Depths(links, d)
  BY DEF SearchInv, Rooted
<1>4. b \in Existing /\ b \in Nodes /\ AtOrAbove(links, kids[j], b)
  BY <1>1 DEF Under
<1>5. AtOrAbove(links, n, b)
  BY <1>1, <1>2, <1>3, <1>4, AboveKid
<1>6. n # b
  <2>1. d[kids[j]] <= d[b] /\ d[kids[j]] = d[n] + 1 /\ d[n] \in Nat /\ d[b] \in Nat
    <3>1. kids[j] \in Nodes /\ links.parent[kids[j]] = n /\ n # Null
      BY <1>2, NullIsNoNode
    <3> HIDE DEF kids
    <3>2. d[kids[j]] <= d[b]
      BY <3>1, <1>1, <1>3, <1>4, AboveAt
    <3> QED BY <3>1, <3>2, <1>3, <1>4 DEF Depths
  <2> QED BY <2>1
<1>7. Precedes(n, b)
  BY <1>5, <1>6 DEF Precedes
<1>8. ASSUME NEW i \in 1 .. L, NEW a \in Existing, i < j, AtOrAbove(links, kids[i], a)
      PROVE  Precedes(a, b)
  <2> DEFINE x == kids[i]
             y == kids[j]
             At(kid) == CHOOSE k \in DOMAIN kids : kids[k] = kid
  <2>1. /\ x \in Existing /\ y \in Existing /\ x # y
        /\ links.parent[x] = n /\ links.parent[y] = n /\ n # Null
    BY <1>2, <1>8, NullIsNoNode
  <2>2. At(x) = i /\ At(y) = j
    BY <1>2
  <2>3. At(x) < At(y)
    BY <2>2, <1>8
  <2> HIDE DEF At
  <2>4. LET list == Kids(links, links.parent[x])
            Of(kid) == CHOOSE k \in DOMAIN list : list[k] = kid
        IN Of(x) < Of(y)
    BY <2>1, <2>3 DEF At
  <2> HIDE DEF x, y
  <2>5. AtOrAbove(links, x, a) /\ AtOrAbove(links, y, b)
    BY <1>4, <1>8 DEF x, y
  <2> QED BY <2>1, <2>4, <2>5 DEF Precedes
<1> QED BY <1>5, <1>6, <1>7, <1>8

Left(s, max) == IF Len(s) <= max THEN max - Len(s) ELSE 0

\* A call adds the first of the nodes that fit and are under its node, as many
\* as there is room for.
LEMMA VisitsInOrder ==
  ASSUME SearchInv, NEW d, Depths(links, d), NEW fits \in SUBSET Existing, NEW max \in Nat,
         NEW walk \in [0 .. MaxNode -> Walks],
         \A k \in 1 .. MaxNode, m \in Nodes, s \in Seq(Nodes) :
           walk[k][<<m, s>>] = Visit(fits, max, m, s, walk[k - 1])
  PROVE  \A k \in 0 .. MaxNode, n \in Existing, sofar \in Seq(Nodes) :
           d[n] + k >= MaxNode =>
             \E t \in Seq(Nodes) : /\ walk[k][<<n, sofar>>] = sofar \o t
                                   /\ FirstOf(fits \intersect Under(n), Left(sofar, max), t)
<1> DEFINE Adds(k, n, sofar) ==
             \E t \in Seq(Nodes) : /\ walk[k][<<n, sofar>>] = sofar \o t
                                   /\ FirstOf(fits \intersect Under(n), Left(sofar, max), t)
           S == {k \in Nat : k <= MaxNode =>
                   \A n \in Existing, sofar \in Seq(Nodes) : d[n] + k >= MaxNode => Adds(k, n, sofar)}
<1>1. /\ MaxNode \in Nat /\ links \in Links /\ Existing \subseteq Nodes
      /\ \A n \in Nodes : d[n] \in 0 .. MaxNode - 1 /\ d[n] \in Nat
      /\ \A m \in Nodes : links.parent[m] # Null => m \in Existing /\ links.parent[m] \in Existing
      /\ \A n \in Nodes : ListOf(links, n, Kids(links, n))
  <2>1. links \in Links /\ created \in 0 .. MaxNode /\ MaxNode \in Nat
    BY DomAssumption DEF SearchInv, TreeInv, DomInv
  <2>2. Existing \subseteq Nodes
    BY <2>1 DEF Existing, Nodes
  <2>3. \A n \in Nodes : d[n] \in 0 .. MaxNode - 1 /\ d[n] \in Nat
    BY <2>1, DepthFits
  <2> QED BY <2>1, <2>2, <2>3 DEF SearchInv, TreeInv, Listed
<1>2. 0 \in S
  <2>1. \A n \in Existing : ~ (d[n] + 0 >= MaxNode)
    BY <1>1
  <2> QED BY <2>1
<1>3. ASSUME NEW k \in Nat, k \in S PROVE k + 1 \in S
  <2> HIDE DEF Adds
  <2>1. SUFFICES ASSUME k + 1 <= MaxNode, NEW n \in Existing, NEW sofar \in Seq(Nodes),
                        d[n] + (k + 1) >= MaxNode
                 PROVE  Adds(k + 1, n, sofar)
    OBVIOUS
  <2>2. k + 1 \in 1 .. MaxNode /\ (k + 1) - 1 = k /\ k <= MaxNode /\ k \in 0 .. MaxNode /\ n \in Nodes
    BY <1>1, <2>1
  <2> DEFINE kids == Kids(links, n)
             L == Len(kids)
             below == walk[k]
  <2>3. below \in Walks /\ walk[k + 1][<<n, sofar>>] = Visit(fits, max, n, sofar, below)
    BY <2>2
  <2>4. /\ kids \in Seq(Nodes) /\ L \in Nat
        /\ \A i \in 1 .. L : kids[i] \in Nodes /\ kids[i] \in Existing /\ d[kids[i]] = d[n] + 1
                             /\ links.parent[kids[i]] = n
        /\ \A c \in Nodes : links.parent[c] = n => \E i \in 1 .. L : kids[i] = c
    <3>1. ListOf(links, n, kids)
      BY <1>1, <2>2
    <3>2. /\ kids \in Seq(Nodes) /\ \A i \in 1 .. L : links.parent[kids[i]] = n
          /\ \A c \in Nodes : links.parent[c] = n => \E i \in 1 .. L : kids[i] = c
      BY <3>1 DEF ListOf
    <3>3. L \in Nat /\ \A i \in 1 .. L : kids[i] \in Nodes
      BY <3>1, ListFacts
    <3>4. n # Null
      BY <2>2, NullIsNoNode
    <3>5. ASSUME NEW i \in 1 .. L PROVE kids[i] \in Existing /\ d[kids[i]] = d[n] + 1
      <4>1. kids[i] \in Nodes /\ links.parent[kids[i]] = n
        BY <3>2, <3>3
      <4> HIDE DEF kids
      <4> QED BY <4>1, <3>4, <1>1 DEF Depths
    <3> QED BY <3>2, <3>3, <3>5
  <2>5. PICK after \in [0 .. L -> Seq(Nodes)] :
          /\ after[0] = IF n \in fits THEN Append(sofar, n) ELSE sofar
          /\ \A i \in 1 .. L : after[i] = below[<<kids[i], after[i - 1]>>]
          /\ Visit(fits, max, n, sofar, below) = IF Len(sofar) >= max THEN sofar ELSE after[L]
    <3>1. PICK after : /\ VisitsBy(after, fits, n, sofar, below)
                       /\ Visit(fits, max, n, sofar, below) =
                            IF Len(sofar) >= max THEN sofar ELSE after[L]
      BY <2>2, <2>3, <2>4, VisitIs
    <3> HIDE DEF below
    <3> QED BY <3>1 DEF VisitsBy
  <2> HIDE DEF below
  <2>6. CASE Len(sofar) >= max
    <3>1. Len(sofar) \in Nat /\ Left(sofar, max) = 0 /\ sofar \o << >> = sofar
      BY <2>6 DEF Left
    <3>2. FirstOf(fits \intersect Under(n), 0, << >>)
      <4>1. Len(<< >>) = 0 /\ DOMAIN << >> = {} /\ ToSet(<< >>) = {}
        BY DEF ToSet
      <4> QED BY <4>1 DEF FirstOf
    <3>3. walk[k + 1][<<n, sofar>>] = sofar \o << >>
      BY <2>3, <2>5, <2>6, <3>1
    <3>4. << >> \in Seq(Nodes)
      OBVIOUS
    <3> QED BY <3>1, <3>2, <3>3, <3>4 DEF Adds
  <2>7. CASE ~ (Len(sofar) >= max)
    <3> DEFINE room == max - Len(sofar)
               Far(i) == {m \in Existing : m = n \/ \E l \in 1 .. i : AtOrAbove(links, kids[l], m)}
               Added(i) == \E t \in Seq(Nodes) : /\ after[i] = sofar \o t
                                                 /\ FirstOf(fits \intersect Far(i), room, t)
               T == {i \in Nat : i <= L => Added(i)}
    <3>1. Len(sofar) \in Nat /\ room \in Nat /\ room >= 1 /\ Left(sofar, max) = room
      BY <2>7 DEF Left
    <3> HIDE DEF room
    <3>2. Added(0)
      <4>1. Far(0) = {n}
        BY <2>1
      <4>2. CASE n \in fits
        <5>1. after[0] = sofar \o <<n>> /\ <<n>> \in Seq(Nodes)
          BY <2>2, <2>5, <4>2
        <5>2. Len(<<n>>) = 1 /\ DOMAIN <<n>> = {1} /\ ToSet(<<n>>) = {n}
          BY DEF ToSet
        <5>3. fits \intersect Far(0) = {n}
          BY <4>1, <4>2
        <5>4. FirstOf({n}, room, <<n>>)
          BY <3>1, <5>2 DEF FirstOf
        <5> QED BY <5>1, <5>3, <5>4
      <4>3. CASE n \notin fits
        <5>1. after[0] = sofar \o << >> /\ << >> \in Seq(Nodes)
          BY <2>5, <4>3
        <5>2. Len(<< >>) = 0 /\ DOMAIN << >> = {} /\ ToSet(<< >>) = {}
          BY DEF ToSet
        <5>3. fits \intersect Far(0) = {}
          BY <4>1, <4>3
        <5>4. FirstOf({}, room, << >>)
          BY <3>1, <5>2 DEF FirstOf
        <5> QED BY <5>1, <5>3, <5>4
      <4> QED BY <4>2, <4>3
    <3>3. ASSUME NEW i \in Nat, i \in T PROVE i + 1 \in T
      <4>1. SUFFICES ASSUME i + 1 <= L PROVE Added(i + 1)
        <5> HIDE DEF Added
        <5> QED OBVIOUS
      <4>2. i + 1 \in 1 .. L /\ (i + 1) - 1 = i /\ i <= L /\ i \in 0 .. L
        BY <4>1, <2>4
      <4> DEFINE c == kids[i + 1]
                 A == fits \intersect Far(i)
                 B == fits \intersect Under(c)
      <4>3. PICK t \in Seq(Nodes) : after[i] = sofar \o t /\ FirstOf(A, room, t)
        BY <3>3, <4>2
      <4>4. /\ c \in Existing /\ c \in Nodes /\ d[c] = d[n] + 1 /\ d[c] + k >= MaxNode
        <5>1. c \in Existing /\ c \in Nodes /\ d[c] = d[n] + 1
          BY <4>2, <2>4
        <5> HIDE DEF c
        <5> QED BY <5>1, <2>1, <2>2, <1>1
      <4>5. after[i + 1] = walk[k][<<c, after[i]>>] /\ after[i] \in Seq(Nodes)
        BY <4>2, <2>5 DEF below
      <4> HIDE DEF c, Far
      <4>6. Adds(k, c, after[i])
        BY <1>3, <2>2, <4>4, <4>5
      <4>7. PICK u \in Seq(Nodes) : /\ walk[k][<<c, after[i]>>] = after[i] \o u
                                    /\ FirstOf(B, Left(after[i], max), u)
        BY <4>6 DEF Adds
      <4>8. Left(after[i], max) = room - Len(t) /\ room - Len(t) \in Nat
        <5>1. Len(t) <= room /\ Len(t) \in Nat
          BY <4>3 DEF FirstOf
        <5>2. Len(after[i]) = Len(sofar) + Len(t)
          BY <4>3
        <5> QED BY <5>1, <5>2, <3>1, <2>7 DEF Left, room
      <4>9. \A a \in A, b \in B : Precedes(a, b)
        <5> TAKE a \in A, b \in B
        <5>1. /\ b \in Under(c) /\ a \in Existing
              /\ a = n \/ \E l \in 1 .. i : AtOrAbove(links, kids[l], a)
          BY DEF Far
        <5>2. CASE a = n
          BY <5>1, <5>2, <4>2, <2>2, InDocumentOrder DEF c
        <5>3. ASSUME NEW l \in 1 .. i, AtOrAbove(links, kids[l], a) PROVE Precedes(a, b)
          <6>1. l \in 1 .. L /\ l < i + 1
            BY <4>2, <2>4
          <6> QED BY <6>1, <5>1, <5>3, <4>2, <2>2, InDocumentOrder DEF c
        <5> QED BY <5>1, <5>2, <5>3
      <4>10. FirstOf(A \union B, room, t \o u)
        BY <3>1, <4>3, <4>7, <4>8, <4>9, FirstOfBoth
      <4>11. A \union B = fits \intersect Far(i + 1)
        <5>1. \A l \in 1 .. i + 1 : l \in 1 .. i \/ l = i + 1
          OBVIOUS
        <5>2. \A l \in 1 .. i : l \in 1 .. i + 1
          OBVIOUS
        <5>3. i + 1 \in 1 .. i + 1
          OBVIOUS
        <5>4. Far(i + 1) = Far(i) \union Under(c)
          BY <5>1, <5>2, <5>3 DEF Far, Under, c
        <5> QED BY <5>4
      <4>12. after[i + 1] = sofar \o (t \o u) /\ t \o u \in Seq(Nodes)
        <5>1. (sofar \o t) \o u = sofar \o (t \o u)
          BY ConcatAssociative
        <5> QED BY <5>1, <4>3, <4>5, <4>7
      <4> QED BY <4>10, <4>11, <4>12
    <3>4. Added(L)
      <4>1. 0 \in T
        BY <3>2
      <4>2. \A i \in Nat : i \in T
        <5> HIDE DEF T
        <5> QED BY <4>1, <3>3, Induction
      <4>3. L \in Nat /\ L \in T
        <5> HIDE DEF T, L
        <5> QED BY <4>2, <2>4
      <4> HIDE DEF Added, L
      <4> QED BY <4>3
    <3>5. Far(L) = Under(n)
      <4>1. ASSUME NEW m \in Existing
            PROVE  (m = n \/ \E l \in 1 .. L : AtOrAbove(links, kids[l], m)) <=> AtOrAbove(links, n, m)
        <5>1. m \in Nodes
          BY <1>1
        <5>2. AtOrAbove(links, n, m) <=>
                n = m \/ \E c \in Nodes : links.parent[c] = n /\ AtOrAbove(links, c, m)
          BY <5>1, <1>1, <2>2, AboveKid
        <5> HIDE DEF kids, L
        <5> QED BY <5>2, <2>4
      <4> QED BY <4>1 DEF Under
    <3>6. walk[k + 1][<<n, sofar>>] = after[L]
      BY <2>3, <2>5, <2>7
    <3> QED BY <3>1, <3>4, <3>5, <3>6 DEF Adds
  <2> QED BY <2>6, <2>7
<1>4. \A k \in Nat : k \in S
  <2> HIDE DEF S
  <2> QED BY <1>2, <1>3, Induction
<1>5. \A k \in 0 .. MaxNode : k \in Nat /\ k <= MaxNode
  BY <1>1
<1> QED BY <1>4, <1>5

\* From the top of the walk: the whole answer.
LEMMA CollectedInOrder ==
  ASSUME SearchInv, NEW fits \in SUBSET Existing, NEW max \in Nat, NEW n \in Existing
  PROVE  FirstOf(fits \intersect Under(n), max, Collected(fits, max, n))
<1>1. PICK d : Depths(links, d)
  BY DEF SearchInv, Rooted
<1>2. /\ MaxNode \in Nat /\ links \in Links /\ n \in Nodes
      /\ \A m \in Nodes : Kids(links, m) \in Seq(Nodes)
  <2>1. links \in Links /\ created \in 0 .. MaxNode /\ MaxNode \in Nat
    BY DomAssumption DEF SearchInv, TreeInv, DomInv
  <2>2. n \in Nodes
    BY <2>1 DEF Existing, Nodes
  <2>3. \A m \in Nodes : Kids(links, m) \in Seq(Nodes)
    BY DEF SearchInv, TreeInv, Listed, ListOf
  <2> QED BY <2>1, <2>2, <2>3
<1>3. PICK walk \in [0 .. MaxNode -> Walks] :
        /\ \A k \in 1 .. MaxNode, m \in Nodes, s \in Seq(Nodes) :
             walk[k][<<m, s>>] = Visit(fits, max, m, s, walk[k - 1])
        /\ \A m \in Nodes : Collected(fits, max, m) = walk[MaxNode][<<m, << >>>>]
  BY <1>2, CollectedIs
<1>4. << >> \in Seq(Nodes) /\ MaxNode \in 0 .. MaxNode /\ d[n] + MaxNode >= MaxNode
  <2>1. d[n] \in 0 .. MaxNode - 1
    BY <1>1, <1>2, DepthFits
  <2> QED BY <2>1, <1>2
<1>5. PICK t \in Seq(Nodes) : /\ walk[MaxNode][<<n, << >>>>] = << >> \o t
                              /\ FirstOf(fits \intersect Under(n), Left(<< >>, max), t)
  BY <1>1, <1>3, <1>4, VisitsInOrder
<1>6. << >> \o t = t /\ Left(<< >>, max) = max
  BY DEF Left
<1> QED BY <1>2, <1>3, <1>5, <1>6

\* In whatever tree the page has made, both searches return the first of the
\* nodes under their root that are selected, in document order: by class
\* (elements.h:424) and by selector (elements.h:531), whose greedy walk up
\* (elements.h:490) loses no choice of ancestors.
THEOREM SearchesAlwaysExact == Spec => []SearchesExact
<1>1. SearchInv => SearchesExact
  <2> SUFFICES ASSUME SearchInv, NEW n \in Existing, NEW max \in Maxes
               PROVE  /\ \A selector \in Selectors :
                           Len(selector) <= MaxParts =>
                             FirstOf({m \in Under(n) : Selected(m, selector)}, max,
                                     QuerySelectorAll(n, selector, max))
                      /\ \A word \in UNION Values :
                           FirstOf({m \in Under(n) : Suits(m, [by |-> "class", name |-> word])}, max,
                                   GetElementsByClassName(n, word, max))
    BY DEF SearchesExact
  <2>1. max \in Nat
    BY QueryAssumption
  <2>2. Under(n) \subseteq Existing /\ Existing \subseteq Nodes
    <3>1. created \in 0 .. MaxNode /\ MaxNode \in Nat
      BY DomAssumption DEF SearchInv, TreeInv, DomInv
    <3> QED BY <3>1 DEF Under, Existing, Nodes
  <2>3. ASSUME NEW selector \in Selectors, Len(selector) <= MaxParts
        PROVE  FirstOf({m \in Under(n) : Selected(m, selector)}, max,
                       QuerySelectorAll(n, selector, max))
    <3>1. selector \in Seq(ToSet(selector)) /\ MaxParts \in Nat
      BY QueryAssumption
    <3>2. Split(selector) = selector
      <4>1. Len(selector) \in Nat
        BY <3>1
      <4>2. (IF Len(selector) < MaxParts THEN Len(selector) ELSE MaxParts) = Len(selector)
        BY <2>3, <3>1, <4>1
      <4>3. SubSeq(selector, 1, Len(selector)) = selector
        BY <3>1
      <4> QED BY <4>2, <4>3 DEF Split
    <3> DEFINE fits == {m \in Existing : MatchesComplex(m, selector)}
    <3>3. FirstOf(fits \intersect Under(n), max, Collected(fits, max, n))
      <4>1. fits \in SUBSET Existing
        OBVIOUS
      <4> HIDE DEF fits
      <4> QED BY <4>1, <2>1, CollectedInOrder
    <3>4. fits \intersect Under(n) = {m \in Under(n) : Selected(m, selector)}
      <4>1. \A m \in Nodes : MatchesComplex(m, selector) <=> Selected(m, selector)
        BY <3>1, ComplexIsSelected
      <4> QED BY <4>1, <2>2
    <3> QED BY <3>2, <3>3, <3>4 DEF QuerySelectorAll
  <2>4. ASSUME NEW word \in UNION Values
        PROVE  FirstOf({m \in Under(n) : Suits(m, [by |-> "class", name |-> word])}, max,
                       GetElementsByClassName(n, word, max))
    <3> DEFINE part == [by |-> "class", name |-> word]
               fits == {m \in Existing : IsElement(m) /\ word \in Words(m, "class")}
    <3>1. FirstOf(fits \intersect Under(n), max, Collected(fits, max, n))
      <4>1. fits \in SUBSET Existing
        OBVIOUS
      <4> HIDE DEF fits
      <4> QED BY <4>1, <2>1, CollectedInOrder
    <3>2. fits \intersect Under(n) = {m \in Under(n) : Suits(m, part)}
      <4>1. \A m : IsElement(m) /\ word \in Words(m, "class") <=> MatchesSimple(m, part)
        BY DEF MatchesSimple
      <4>2. \A m \in Nodes : MatchesSimple(m, part) <=> Suits(m, part)
        <5> HIDE DEF part
        <5> QED BY SuitsIs DEF SearchInv, TreeInv
      <4> HIDE DEF part
      <4> QED BY <4>1, <4>2, <2>2
    <3> QED BY <3>1, <3>2 DEF GetElementsByClassName
  <2> QED BY <2>3, <2>4
<1> QED BY <1>1, SearchInitial, SearchStep, PTL DEF Spec
============================================================================

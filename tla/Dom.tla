-------------------------------- MODULE Dom --------------------------------
(***************************************************************************)
(* The elements engine (elements.h) as the page drives it through the      *)
(* dom_ exports: nodes made one by one, linked into trees by five pointers *)
(* per node, attribute lists, and the queue of mutation patches.           *)
(*                                                                         *)
(* insert_before trusts its caller: it neither takes the child out of the  *)
(* list it is in nor looks whether the reference is a child of the parent. *)
(* Proper says which calls keep the lists; the page makes those.  Removal, *)
(* which checks, may be asked for anything.                                *)
(***************************************************************************)
EXTENDS Integers, Sequences, SequencesExt, FiniteSets

CONSTANTS
  MaxNode,        (* highest node id: node_map_capacity - 1                *)
  Names, Values,  (* of attributes                                         *)
  QueueCapacity,  (* mutation_capacity                                     *)
  None            (* no value                                              *)

ASSUME DomAssumption ==
  /\ MaxNode \in Nat
  /\ QueueCapacity \in Nat

VARIABLES
  created,   (* next_node_id - 1: nodes 1 .. created exist                 *)
  links,     (* the pointers of every node                                 *)
  attrs,     (* node -> its attribute list: [name, value]                  *)
  queue      (* mutation_queue                                             *)

vars == <<created, links, attrs, queue>>

Nodes == 1 .. MaxNode
Null == 0                       \* id 0 names no node
Existing == 1 .. created

Pointers == [Nodes -> Nodes \union {Null}]
Links == [parent : Pointers, first : Pointers, last : Pointers,
          next : Pointers, prev : Pointers, count : [Nodes -> Int]]

NoLinks ==
  LET null == [n \in Nodes |-> Null] IN
  [parent |-> null, first |-> null, last |-> null, next |-> null, prev |-> null,
   count |-> [n \in Nodes |-> 0]]

----------------------------------------------------------------------------
(* The pointer operations, as functions of the links: DomDiff runs several *)
(* of them in one call.                                                    *)

\* A pointer field with one cell written; writing through Null cannot happen
\* where these are used.
Set(field, n, value) == [field EXCEPT ![n] = value]

\* Slips: an append that leaves the child's prev alone; an insertion that links
\* the child in behind the reference; a removal that leaves the count alone.
AppendOneWay(h, p, c) ==
  [h EXCEPT !.parent = Set(@, c, p),
            !.first  = IF h.first[p] = Null THEN Set(@, p, c) ELSE @,
            !.next   = IF h.first[p] = Null THEN @ ELSE Set(@, h.last[p], c),
            !.last   = Set(@, p, c),
            !.count  = Set(@, p, @[p] + 1)]
InsertBehind(h, p, c, r) ==
  LET after == h.next[r] IN
  [h EXCEPT !.parent = Set(@, c, p),
            !.last   = IF after = Null THEN Set(@, p, c) ELSE @,
            !.prev   = Set(IF after = Null THEN @ ELSE Set(@, after, c), c, r),
            !.next   = Set(Set(@, c, after), r, c),
            !.count  = Set(@, p, @[p] + 1)]
RemoveKeepsCount(h, p, c) ==
  LET before == h.prev[c]
      after  == h.next[c]
  IN [h EXCEPT !.parent = Set(@, c, Null),
               !.first  = IF before = Null THEN Set(@, p, after) ELSE @,
               !.last   = IF after = Null THEN Set(@, p, before) ELSE @,
               !.next   = Set(IF before = Null THEN @ ELSE Set(@, before, after), c, Null),
               !.prev   = Set(IF after = Null THEN @ ELSE Set(@, after, before), c, Null)]

\* insert_before without a reference.
AppendChild(h, p, c) ==
  LET empty == h.first[p] = Null IN
  [parent |-> Set(h.parent, c, p),
   first  |-> IF empty THEN Set(h.first, p, c) ELSE h.first,
   last   |-> Set(h.last, p, c),
   next   |-> IF empty THEN h.next ELSE Set(h.next, h.last[p], c),
   prev   |-> IF empty THEN h.prev ELSE Set(h.prev, c, h.last[p]),
   count  |-> Set(h.count, p, h.count[p] + 1)]

\* insert_before with one.
InsertChild(h, p, c, r) ==
  LET before == h.prev[r] IN
  [parent |-> Set(h.parent, c, p),
   first  |-> IF before = Null THEN Set(h.first, p, c) ELSE h.first,
   last   |-> h.last,
   next   |-> IF before = Null THEN Set(h.next, c, r)
              ELSE Set(Set(h.next, c, r), before, c),
   prev   |-> Set(Set(h.prev, c, before), r, c),
   count  |-> Set(h.count, p, h.count[p] + 1)]

\* remove_child past its guard.
UnlinkChild(h, p, c) ==
  LET before == h.prev[c]
      after  == h.next[c]
  IN [parent |-> Set(h.parent, c, Null),
      first  |-> IF before = Null THEN Set(h.first, p, after) ELSE h.first,
      last   |-> IF after = Null THEN Set(h.last, p, before) ELSE h.last,
      next   |-> Set(IF before = Null THEN h.next ELSE Set(h.next, before, after),
                     c, Null),
      prev   |-> Set(IF after = Null THEN h.prev ELSE Set(h.prev, after, before),
                     c, Null),
      count  |-> Set(h.count, p, h.count[p] - 1)]

\* push_mutation: patches that find the queue full are dropped.
Pushed(q, patch) == IF Len(q) < QueueCapacity THEN Append(q, patch) ELSE q

Patch(action, target, related, key, value) ==
  [action |-> action, target |-> target, related |-> related,
   key |-> key, value |-> value]

\* Where in an attribute list a name is, or 0.
AttrAt(list, name) == SelectInSeq(list, LAMBDA attr : attr.name = name)

\* set_attribute on the list: new names go to the front.
WithAttr(list, name, value) ==
  IF AttrAt(list, name) # 0 THEN [list EXCEPT ![AttrAt(list, name)].value = value]
  ELSE <<[name |-> name, value |-> value]>> \o list

\* remove_attribute on the list: the first of that name, if any.
WithoutAttr(list, name) ==
  IF AttrAt(list, name) = 0 THEN list ELSE RemoveAt(list, AttrAt(list, name))

\* The chain of parents from n up.
Up(h, n) ==
  LET at[k \in 0 .. MaxNode] ==
        IF k = 0 THEN n
        ELSE LET below == at[k - 1] IN IF below = Null THEN Null ELSE h.parent[below]
  IN at

AtOrAbove(h, a, n) == \E k \in 0 .. MaxNode : Up(h, n)[k] = a

----------------------------------------------------------------------------
Init ==
  /\ created = 0
  /\ links = NoLinks
  /\ attrs = [n \in Nodes |-> << >>]
  /\ queue = << >>

\* create_node: ids run from 1 and are not used again.
CreateNode ==
  /\ created < MaxNode
  /\ created' = created + 1
  /\ UNCHANGED <<links, attrs, queue>>

\* The id table is full, or the arena has no room for the node or for the
\* attribute: nothing happens.
Refused == UNCHANGED vars

\* What the page asks of insert_before: the child hangs nowhere and is not
\* above the parent, the reference is a child of the parent.
Proper(p, c, r) ==
  /\ links.parent[c] = Null
  /\ ~ AtOrAbove(links, c, p)
  /\ r # Null => links.parent[r] = p

InsertLast(p, c) ==
  /\ Proper(p, c, Null)
  /\ links' = AppendChild(links, p, c)
  /\ queue' = Pushed(queue, Patch("Insert", p, c, None, None))
  /\ UNCHANGED <<created, attrs>>

InsertBefore(p, c, r) ==
  /\ Proper(p, c, r)
  /\ links' = InsertChild(links, p, c, r)
  /\ queue' = Pushed(queue, Patch("Insert", p, c, None, None))
  /\ UNCHANGED <<created, attrs>>

\* remove_child returns early unless the child hangs there.
RemoveChild(p, c) ==
  /\ links.parent[c] = p
  /\ links' = UnlinkChild(links, p, c)
  /\ queue' = Pushed(queue, Patch("Remove", p, c, None, None))
  /\ UNCHANGED <<created, attrs>>

SetAttribute(n, name, value) ==
  /\ attrs' = [attrs EXCEPT ![n] = WithAttr(@, name, value)]
  /\ queue' = Pushed(queue, Patch("UpdateAttribute", n, Null, name, value))
  /\ UNCHANGED <<created, links>>

RemoveAttribute(n, name) ==
  /\ AttrAt(attrs[n], name) # 0
  /\ attrs' = [attrs EXCEPT ![n] = WithoutAttr(@, name)]
  /\ queue' = Pushed(queue, Patch("RemoveAttribute", n, Null, name, None))
  /\ UNCHANGED <<created, links>>

Next ==
  \/ CreateNode
  \/ Refused
  \/ \E p, c \in Existing : InsertLast(p, c) \/ RemoveChild(p, c)
  \/ \E p, c, r \in Existing : InsertBefore(p, c, r)
  \/ \E n \in Existing, name \in Names, value \in Values :
       SetAttribute(n, name, value)
  \/ \E n \in Existing, name \in Names : RemoveAttribute(n, name)

Spec == Init /\ [][Next]_vars

----------------------------------------------------------------------------
Attribute == [name : Names, value : Values]

TypeOK ==
  /\ created \in 0 .. MaxNode
  /\ links \in Links
  /\ attrs \in [Nodes -> Seq(Attribute)]
  /\ Len(queue) <= QueueCapacity

\* The five pointers agree: a child of a parent is its first one or follows
\* the one it says it follows, and likewise towards the last; what hangs
\* nowhere has no siblings.  Every walk of the tree, and the next removal,
\* relies on it.
Linked(h) ==
  /\ \A c \in Nodes :
       IF h.parent[c] = Null THEN h.next[c] = Null /\ h.prev[c] = Null
       ELSE /\ IF h.prev[c] = Null THEN h.first[h.parent[c]] = c
               ELSE /\ h.next[h.prev[c]] = c
                    /\ h.parent[h.prev[c]] = h.parent[c]
            /\ IF h.next[c] = Null THEN h.last[h.parent[c]] = c
               ELSE /\ h.prev[h.next[c]] = c
                    /\ h.parent[h.next[c]] = h.parent[c]
  /\ \A p \in Nodes :
       /\ h.first[p] = Null <=> h.last[p] = Null
       /\ h.first[p] # Null => /\ h.parent[h.first[p]] = p
                               /\ h.prev[h.first[p]] = Null
       /\ h.last[p] # Null => /\ h.parent[h.last[p]] = p
                              /\ h.next[h.last[p]] = Null

ListsLinked == Linked(links)

\* child_node_count is the number of children, through every insertion and
\* removal at the ends and in the middle.
ChildrenCounted ==
  \A p \in Nodes :
    links.count[p] = Cardinality({c \in Nodes : links.parent[c] = p})

\* A walk from first_child along next_sibling, and the nodes it meets before
\* it ends.
Along(h, p) ==
  LET at[k \in 1 .. MaxNode] ==
        IF k = 1 THEN h.first[p]
        ELSE LET before == at[k - 1] IN IF before = Null THEN Null ELSE h.next[before]
  IN at

Kids(h, p) ==
  LET at == Along(h, p)
  IN [k \in 1 .. Cardinality({k \in 1 .. MaxNode : at[k] # Null}) |-> at[k]]

ValueOf(list, name) ==
  IF AttrAt(list, name) = 0 THEN None ELSE list[AttrAt(list, name)].value

DomTree == INSTANCE DomTree
             WITH children <- [n \in Nodes |-> Kids(links, n)],
                  attributes <- [n \in Nodes |->
                                  [name \in Names |-> ValueOf(attrs[n], name)]]

\* What each call of the page does to the tree.
EachCallTakesEffect ==
  /\ \A p, c \in Existing :
       /\ InsertLast(p, c) => DomTree!PutLast(p, c)
       /\ \A r \in Existing : InsertBefore(p, c, r) => DomTree!PutBefore(p, c, r)
       /\ RemoveChild(p, c) => DomTree!TakeOut(p, c)
  /\ \A n \in Existing, name \in Names :
       /\ \A value \in Values :
            SetAttribute(n, name, value) => DomTree!SetAttribute(n, name, value)
       /\ RemoveAttribute(n, name) => DomTree!RemoveAttribute(n, name)
  /\ CreateNode \/ Refused => UNCHANGED DomTree!treeVars

\* The pointers implement ordered lists of children and the attribute lists
\* maps, call by call: a child lands at the end, or right in front of the
\* reference it was given, and only the child asked for is taken out, all
\* others keeping their order; a set attribute has the value it was given,
\* and a removed one is gone, with no older value left behind it, as names
\* are never in a list twice.
PointersAreTree == DomTree!Init /\ [][EachCallTakesEffect]_vars
============================================================================

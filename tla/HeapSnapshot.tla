---------------------------- MODULE HeapSnapshot ----------------------------
(***************************************************************************)
(* The memory engine (memory.h): the nodes and edges of a heap snapshot,   *)
(* fed one by one, and the call that computes distances, immediate         *)
(* dominators and retained sizes from them.                                *)
(*                                                                         *)
(* An edge is linked into the list of its from-node and the retainer list  *)
(* of its to-node when it is added; where a node is not there yet, or the  *)
(* arena has no room for the retainer, that link is never made.            *)
(***************************************************************************)
EXTENDS Integers, Sequences, SequencesExt, FiniteSets, Sums

CONSTANTS
  Ids,            (* node ids; 1 is the collector's root                   *)
  Shallow,        (* id -> shallow_size                                    *)
  Edges,          (* pairs <<from, to>> that may be added                  *)
  Orders,         (* bound: the orders in which nodes are added            *)
  Feeds,          (* bound: the lists of edges added, and their beginnings *)
  MaxEdges,       (* max_edges                                             *)
  EdgesFrom,      (* bound: nodes there are before the first edge          *)
  Unreached,      (* the distance of what is not reached: 0xFFFFFFFF       *)
  IterationCap,   (* passes over the nodes: 20                             *)
  SizeWord,       (* sizes are counted modulo this: 2^32                   *)
  None            (* no up-to-date result                                  *)

ASSUME HeapAssumption ==
  /\ Ids \subseteq Nat \ {0}       \* 0 stands for: no dominator
  /\ IsFiniteSet(Ids)
  /\ Unreached \in Nat
  /\ Cardinality(Ids) <= Unreached \* ids are below map_capacity, 500000
  /\ SizeWord \in Nat \ {0}
  /\ Shallow \in [Ids -> 0 .. SizeWord - 1]
  /\ Edges \subseteq Ids \X Ids
  /\ IterationCap \in Nat

VARIABLES
  nodes,      (* ids in the order of add_node                              *)
  map,        (* node_map: id -> its index among nodes, 0 if not there     *)
  edges,      (* in the order of add_edge                                  *)
  outgoing,   (* index of a node -> to-ids of the edges linked, last first *)
  retainers,  (* index of a node -> from-ids likewise                      *)
  full,       (* the arena has refused a retainer                          *)
  result      (* of the last computation, or None: see Compute             *)

heapVars == <<nodes, map, edges, outgoing, retainers, full, result>>

Loops == -1          \* what intersect_dominators would return if it never did

Size == Len(nodes)
Indices == 1 .. Size

\* get_node.
Index(id) == IF id \in Ids THEN map[id] ELSE 0

RootId == 1
RootIndex == IF Index(RootId) # 0 THEN Index(RootId) ELSE 1

\* The distance one edge on; 32 bits wide.
Further(distance) == (distance + 1) % (Unreached + 1)

----------------------------------------------------------------------------
\* A loop of n turns: step[i] says what turn i makes of a value.
Looped(n, value, step) ==
  LET after[i \in 0 .. n] == IF i = 0 THEN value ELSE step[i][after[i - 1]]
  IN after[n]

\* The search from the root, breadth first: the distances so far, and the ids
\* reached so far in the order they are looked at.
Searches == [dist : [Indices -> 0 .. Unreached], queue : Seq(Ids)]

\* The nodes that are one edge from curr and were not reached yet.
LookAt(s, curr) ==
  LET to == outgoing[Index(curr)] IN
  Looped(Len(to), s, [j \in 1 .. Len(to) |-> [t \in Searches |->
    LET n == Index(to[j]) IN
    IF n # 0 /\ t.dist[n] = Unreached
    THEN [dist |-> [t.dist EXCEPT ![n] = Further(t.dist[Index(curr)])],
          queue |-> Append(t.queue, to[j])]
    ELSE t]])

Search(start) ==
  Looped(Size, start, [head \in Indices |-> [s \in Searches |->
    IF head <= Len(s.queue) THEN LookAt(s, s.queue[head]) ELSE s]])

\* Without room for the queue nothing is reached, not even the root.
Distances(room) ==
  LET far == [i \in Indices |-> Unreached] IN
  IF room THEN Search([dist |-> [far EXCEPT ![RootIndex] = 0],
                       queue |-> <<nodes[RootIndex]>>]).dist
  ELSE far

\* One step of intersect_dominators: the finger that is further from the root
\* goes up, or both do, until they meet or one is gone.
Climb(dist, dom, at) ==
  LET Above(i) == Index(dom[i])
      f == at[1]
      g == at[2]
  IN IF f = 0 \/ g = 0 \/ f = g THEN at
     ELSE IF dist[f] > dist[g] THEN <<Above(f), g>>
     ELSE IF dist[g] > dist[f] THEN <<f, Above(g)>>
     ELSE <<Above(f), Above(g)>>

\* In as many steps as there are places for two fingers they have met, or have
\* come back to where they were and would go round for ever.
Meet(dist, dom, id1, id2) ==
  LET at == Looped(Size * Size, <<Index(id1), Index(id2)>>,
                   [k \in 1 .. Size * Size |->
                      [a \in (0 .. Size) \X (0 .. Size) |-> Climb(dist, dom, a)]])
  IN IF at[1] = 0 THEN 0
     ELSE IF at[2] = 0 \/ at[1] = at[2] THEN nodes[at[1]]
     ELSE Loops

\* What a node's dominator_node_id may be, and those of all nodes.
Dominator == Ids \union {0, Loops}
Doms == [Indices -> Dominator]

\* The dominator of node i: the first retainer that has one already, met with
\* the others that have.
NewDominator(dist, dom, i) ==
  LET from == retainers[i]
      Processed(k) == Index(from[k]) # 0 /\ dom[Index(from[k])] # 0
      first == {k \in DOMAIN from : Processed(k) /\ \A m \in 1 .. k - 1 : ~ Processed(m)}
  IN Looped(Len(from), IF first = {} THEN 0 ELSE from[CHOOSE k \in first : TRUE],
            [k \in 1 .. Len(from) |-> [idom \in Dominator |->
               IF Processed(k) /\ from[k] # idom /\ idom # Loops
               THEN Meet(dist, dom, from[k], idom) ELSE idom]])

\* One pass over the nodes, in the order they were added.
Pass(dist, dom) ==
  Looped(Size, dom, [i \in Indices |-> [d \in Doms |->
    IF i = RootIndex \/ dist[i] = Unreached THEN d
    ELSE [d EXCEPT ![i] = NewDominator(dist, d, i)]]])

\* Slip: the passes are over when the first is.
PassOnce(dist, s) == [dom |-> Pass(dist, s.dom), changed |-> FALSE]

PassAgain(dist, s) ==
  LET next == Pass(dist, s.dom) IN [dom |-> next, changed |-> next # s.dom]

\* Passes until one changes nothing, or there have been as many as are allowed.
Dominators(dist) ==
  Looped(IterationCap,
         [dom |-> [i \in Indices |-> IF i = RootIndex THEN nodes[i] ELSE 0], changed |-> TRUE],
         [k \in 1 .. IterationCap |-> [s \in [dom : Doms, changed : BOOLEAN] |->
            IF s.changed THEN PassAgain(dist, s) ELSE s]])

\* Slip: a node may hand its size to itself.
GivesToAny(dom, i) == Index(dom[i])

\* The node whose retained size grows by that of node i, or 0.
GivesTo(dom, i) == IF dom[i] = nodes[i] THEN 0 ELSE Index(dom[i])

Amounts == [Indices -> Nat]
Alone == [i \in Indices |-> Shallow[nodes[i]]]

\* The nodes at distance d add their sizes to their dominators'.
HandUp(dist, dom, sizes, d) ==
  Looped(Size, sizes, [i \in Indices |-> [s \in Amounts |->
    IF dist[i] = d /\ GivesTo(dom, i) # 0
    THEN [s EXCEPT ![GivesTo(dom, i)] = @ + s[i]] ELSE s]])

\* Slip: the nearest first.
RetainedDownward(dist, dom) ==
  Looped(Size, Alone, [k \in Indices |-> [s \in Amounts |-> HandUp(dist, dom, s, k - 1)]])

\* The nodes furthest from the root first.
Retained(dist, dom) ==
  Looped(Size, Alone, [k \in Indices |-> [s \in Amounts |-> HandUp(dist, dom, s, Size - k)]])

\* retained_size is 32 bits wide: only sums are made of it, so that it may as
\* well be cut to its width when all is added.
Wrapped(sizes) == [i \in Indices |-> sizes[i] % SizeWord]

----------------------------------------------------------------------------
HeapInit ==
  /\ nodes = << >>
  /\ map = [id \in Ids |-> 0]
  /\ edges = << >>
  /\ outgoing = << >>
  /\ retainers = << >>
  /\ full = FALSE
  /\ result = None

AddNode(id) ==
  /\ \E order \in Orders : IsPrefix(Append(nodes, id), order)
  /\ nodes' = Append(nodes, id)
  /\ map' = [map EXCEPT ![id] = Size + 1]
  /\ outgoing' = Append(outgoing, << >>)
  /\ retainers' = Append(retainers, << >>)
  /\ result' = None
  /\ UNCHANGED <<edges, full>>

\* add_edge, in any order, several between one pair too; room: the arena has
\* room for the retainer.
AddEdge(e, room) ==
  /\ Size >= EdgesFrom
  /\ Len(edges) < MaxEdges
  /\ Append(edges, e) \in Feeds
  /\ full => ~ room
  /\ edges' = Append(edges, e)
  /\ LET from == Index(e[1])
         to == Index(e[2])
     IN /\ outgoing' = IF from = 0 THEN outgoing
                       ELSE [outgoing EXCEPT ![from] = <<e[2]>> \o @]
        /\ retainers' = IF to = 0 \/ ~ room THEN retainers
                        ELSE [retainers EXCEPT ![to] = <<e[1]>> \o @]
        /\ full' = (full \/ (to # 0 /\ ~ room))
  /\ result' = None
  /\ UNCHANGED <<nodes, map>>

\* compute_dominators_and_retained_sizes; room: there is room for the queue.
Compute(room) ==
  /\ nodes # << >>
  /\ result = None
  /\ full => ~ room
  /\ LET dist == Distances(room)
         last == Dominators(dist)
     IN result' = [room |-> room, dist |-> dist, dom |-> last.dom, changed |-> last.changed,
                   retained |-> Wrapped(Retained(dist, last.dom))]
  /\ UNCHANGED <<nodes, map, edges, outgoing, retainers, full>>

HeapNext ==
  \/ \E id \in Ids : AddNode(id)
  \/ \E e \in Edges, room \in BOOLEAN : AddEdge(e, room)
  \/ \E room \in BOOLEAN : Compute(room)

HeapSpec == HeapInit /\ [][HeapNext]_heapVars

----------------------------------------------------------------------------
HeapTypeOK ==
  /\ nodes \in Seq(Ids) /\ edges \in Seq(Edges)
  /\ Len(outgoing) = Len(nodes) /\ Len(retainers) = Len(nodes)
  /\ full \in BOOLEAN

\* The snapshot came as snapshots do: every id once, nodes before their
\* edges, and room for every retainer.
WellFed ==
  /\ Cardinality(ToSet(nodes)) = Len(nodes)
  /\ \A i \in DOMAIN edges :
       LET from == Index(edges[i][1])
           to == Index(edges[i][2])
       IN /\ from # 0 /\ edges[i][2] \in ToSet(outgoing[from])
          /\ to # 0 /\ edges[i][1] \in ToSet(retainers[to])

\* What the collector's root reaches on paths that avoid one node: what no set
\* that such paths cannot leave is without.
Closed(ids, avoided) ==
  /\ nodes[RootIndex] \in ids \union {avoided}
  /\ \A i \in DOMAIN edges : edges[i][1] \in ids => edges[i][2] \in ids \union {avoided}

ReachedWithout(avoided) ==
  {id \in ToSet(nodes) : \A ids \in SUBSET ToSet(nodes) : Closed(ids, avoided) => id \in ids}

Reached == ReachedWithout(0)

\* The nodes that no path from the root reaches but through id.
Dominated(id) == IF id \in Reached THEN Reached \ ReachedWithout(id) ELSE {id}

Computed == result # None

\* Whatever the order in which nodes and edges were added, and although the
\* fingers of the intersection follow half-done results: a reached node's
\* dominator is the closest of the nodes every path to it passes.
DominatorsExact ==
  Computed /\ result.room /\ WellFed =>
    LET dominated == [id \in ToSet(nodes) |-> Dominated(id)] IN
    \A i \in Indices :
      LET id == nodes[i]
          above == {d \in Reached \ {id} : id \in dominated[d]}
      IN IF i = RootIndex THEN result.dom[i] = id
         ELSE IF id \notin Reached THEN result.dom[i] = 0
         ELSE /\ result.dom[i] \in above
              /\ \A d \in above : result.dom[i] \in dominated[d]

\* The retained size is what would be freed with the node, as far as it fits
\* its 32 bits.
RetainedExact ==
  Computed /\ result.room /\ WellFed =>
    \A i \in Indices :
      LET dominated == Dominated(nodes[i]) IN
      result.retained[i] =
        SumOf([j \in Indices |-> IF nodes[j] \in dominated THEN Shallow[nodes[j]] ELSE 0])
          % SizeWord

\* A snapshot fed in any other way, with retainers missing, ids twice or edges
\* ahead of their nodes, gives wrong answers at most: the intersection ends,
\* and where the sizes of all nodes together fit their 32 bits, nothing retains
\* less than itself or more than all there is.
AnyFeedBounded ==
  Computed =>
    \A i \in Indices :
      /\ result.dom[i] # Loops
      /\ SumOf(Alone) < SizeWord => /\ Shallow[nodes[i]] <= result.retained[i]
                                /\ result.retained[i] <= SumOf(Alone)
============================================================================

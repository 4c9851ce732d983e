--------------------------- MODULE MCHeapSnapshot ---------------------------
(* Four nodes whose sizes add up to something else for every set of them,  *)
(* and wrap when all four are added.                                       *)
EXTENDS HeapSnapshot

MCIds == 1 .. 4
MCShallow == [id \in MCIds |-> 2 ^ id]
MCEdges == {e \in MCIds \X MCIds : e[1] # e[2]}

\* The root first, last and in the middle; an id twice, without
\* a root even the first one; no root.
MCOrders ==
  {<<1, 2, 3, 4>>, <<4, 3, 2, 1>>, <<2, 1, 4, 3>>, <<1, 2, 3, 2>>, <<3, 2, 4>>, <<2, 3, 2>>}

\* Two nodes that retain each other and are each entered from outside, and
\* edges several times between one pair.
Tangle == <<<<1, 2>>, <<1, 3>>, <<2, 3>>, <<3, 2>>, <<2, 4>>, <<3, 4>>>>
Doubled == <<<<1, 2>>, <<1, 2>>, <<2, 4>>, <<2, 4>>, <<3, 4>>, <<4, 3>>>>

Before(e, f) == e[1] < f[1] \/ (e[1] = f[1] /\ e[2] < f[2])
Times(e, list) == Cardinality({i \in DOMAIN list : list[i] = e})
SomeOf(list, all) == \A i \in DOMAIN list : Times(list[i], list) <= Times(list[i], all)

\* Any edges in ascending or in descending order, and some of the edges of
\* either list above in every order.
MCFeeds ==
  {list \in Seq(MCEdges) :
     \/ \A i \in 1 .. Len(list) - 1 : Before(list[i], list[i + 1])
     \/ \A i \in 1 .. Len(list) - 1 : Before(list[i + 1], list[i])
     \/ SomeOf(list, Tangle)
     \/ SomeOf(list, Doubled)}
=============================================================================

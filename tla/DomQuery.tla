------------------------------ MODULE DomQuery ------------------------------
(***************************************************************************)
(* Two searches of the elements engine, getElementsByClassName and         *)
(* querySelectorAll, over every tree that the operations of Dom lead to.   *)
(* They only read.                                                         *)
(*                                                                         *)
(* A selector is the list of its parts; the value of an attribute is the   *)
(* set of its words.                                                       *)
(***************************************************************************)
EXTENDS Dom

CONSTANTS
  Tag,          (* node -> its node_name; None: not an element             *)
  Selectors,    (* lists of [by, name], by a name of Names or "tag"        *)
  MaxParts,     (* parts of a selector that are kept: 10                   *)
  Maxes         (* how many answers are asked for, at most 1024            *)

ASSUME QueryAssumption ==
  /\ MaxParts \in Nat
  /\ Maxes \subseteq Nat
  /\ \A selector \in Selectors : selector \in Seq(ToSet(selector))

IsElement(n) == Tag[n] # None

\* The value of an attribute; the first of the name counts.
Words(n, name) ==
  IF AttrAt(attrs[n], name) = 0 THEN {} ELSE attrs[n][AttrAt(attrs[n], name)].value

\* matches_simple_selector: tag, .class or #id.
MatchesSimple(n, part) ==
  /\ IsElement(n)
  /\ IF part.by = "tag" THEN Tag[n] = part.name
     ELSE part.name \in Words(n, part.by)

\* A walk up that wants the parts at neighbouring levels.
ClimbEachLevel(n, parts) ==
  IF \A i \in 1 .. Len(parts) - 1 :
       LET a == Up(links, n)[Len(parts) - i] IN
       a # Null /\ MatchesSimple(a, parts[i])
  THEN 0 ELSE 1

\* The ancestors, nearest first, take up the remaining parts from the last
\* one, each as soon as it fits; how many parts are left at the top.
Climb(n, parts) ==
  LET up == Up(links, n)
      left[k \in 0 .. MaxNode] ==
        IF k = 0 THEN Len(parts) - 1
        ELSE LET still == left[k - 1] IN
             IF up[k] # Null /\ still > 0 /\ MatchesSimple(up[k], parts[still])
             THEN still - 1 ELSE still
  IN left[MaxNode]

\* matches_complex_selector.
MatchesComplex(n, parts) ==
  /\ parts # << >>
  /\ MatchesSimple(n, Last(parts))
  /\ Climb(n, parts) = 0

\* The split stops: what follows MaxParts parts is not read.
Split(selector) == SubSeq(selector, 1, IF Len(selector) < MaxParts THEN Len(selector)
                                       ELSE MaxParts)

\* A call of walk_and_match at n; fits are the nodes that match, below is what
\* the calls it makes for the children do.
Visit(fits, max, n, sofar, below) ==
  LET kids == Kids(links, n)
      after[k \in 0 .. Len(kids)] ==
        IF k = 0 THEN IF n \in fits THEN Append(sofar, n) ELSE sofar
        ELSE below[<<kids[k], after[k - 1]>>]
  IN IF Len(sofar) >= max THEN sofar ELSE after[Len(kids)]

\* Such calls from n down: no tree is deeper than there are nodes.
Collected(fits, max, n) ==
  LET walk[depth \in 0 .. MaxNode] ==
        [at \in Nodes \X Seq(Nodes) |->
           IF depth = 0 THEN at[2] ELSE Visit(fits, max, at[1], at[2], walk[depth - 1])]
  IN walk[MaxNode][<<n, << >>>>]

GetElementsByClassName(n, word, max) ==
  Collected({m \in Existing : IsElement(m) /\ word \in Words(m, "class")}, max, n)

QuerySelectorAll(n, selector, max) ==
  Collected({m \in Existing : MatchesComplex(m, Split(selector))}, max, n)

----------------------------------------------------------------------------
\* A part fits a node; of an attribute any of its name will do.
Suits(n, part) ==
  IsElement(n) /\ IF part.by = "tag" THEN Tag[n] = part.name
                  ELSE \E k \in DOMAIN attrs[n] : /\ attrs[n][k].name = part.by
                                                  /\ part.name \in attrs[n][k].value

\* "We check if node matches "#btn", then its ancestor matches ".container",
\* then "div"" (elements.h:477): some choice of ancestors, each above the
\* next, fits the parts one by one.
Selected(n, parts) ==
  /\ parts # << >>
  /\ \E height \in [DOMAIN parts -> 0 .. MaxNode - 1] :
       /\ height[Len(parts)] = 0
       /\ \A i \in 1 .. Len(parts) - 1 : height[i] > height[i + 1]
       /\ \A i \in DOMAIN parts :
            LET a == Up(links, n)[height[i]] IN a # Null /\ Suits(a, parts[i])

\* Document order, without a walk: a is above b, or some sibling at or above
\* a comes before one at or above b.
Precedes(a, b) ==
  \/ a # b /\ AtOrAbove(links, a, b)
  \/ \E x, y \in Existing :
       /\ AtOrAbove(links, x, a) /\ AtOrAbove(links, y, b)
       /\ x # y /\ links.parent[x] # Null /\ links.parent[x] = links.parent[y]
       /\ LET kids == Kids(links, links.parent[x])
              At(kid) == CHOOSE i \in DOMAIN kids : kids[i] = kid
          IN At(x) < At(y)

Under(n) == {m \in Existing : AtOrAbove(links, n, m)}

\* answer is the first max of these nodes, in document order.
FirstOf(these, max, answer) ==
  /\ Len(answer) <= max
  /\ ToSet(answer) \subseteq these
  /\ \A i, j \in DOMAIN answer : i < j => Precedes(answer[i], answer[j])
  /\ \A m \in these \ ToSet(answer) :
       Len(answer) = max /\ \A i \in DOMAIN answer : Precedes(answer[i], m)

\* In whatever tree the page has made by now: the walk up, which takes the
\* nearest ancestor that fits and never goes back on it, misses no node that
\* the selector selects, and the walk down returns the first of those below
\* the root it was given, as many as were asked for; a search by class likewise.
\* "only one class attribute per node" (elements.h:434): a value that was
\* replaced or removed is not found.
SearchesExact ==
  \A n \in Existing, max \in Maxes :
    /\ \A selector \in Selectors :
         Len(selector) <= MaxParts =>
           FirstOf({m \in Under(n) : Selected(m, selector)}, max,
                   QuerySelectorAll(n, selector, max))
    /\ \A word \in UNION Values :
         FirstOf({m \in Under(n) : Suits(m, [by |-> "class", name |-> word])}, max,
                 GetElementsByClassName(n, word, max))
============================================================================

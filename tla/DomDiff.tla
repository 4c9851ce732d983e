------------------------------ MODULE DomDiff ------------------------------
(***************************************************************************)
(* diff_trees: one tree of the elements engine is made to look like        *)
(* another, in one call that runs insert_before, remove_child and the      *)
(* attribute operations of Dom while it walks the sibling pointers they    *)
(* rewrite.  New nodes are not copied: they are moved out of the new tree. *)
(*                                                                         *)
(* A step is one pair of nodes compared, or one turn of a loop over the    *)
(* children that are left; calls is the stack of diff_nodes.               *)
(***************************************************************************)
EXTENDS Dom

CONSTANTS
  Labels,   (* what a node may be: [kind, text, list of attributes]          *)
  Room      (* attribute records the arena still has when the call is made   *)

\* There is a node for either root; an attribute list has a name once, as
\* set_attribute sees to.
ASSUME DiffAssumption ==
  /\ MaxNode >= 2
  /\ Room \in Nat
  /\ None \notin Values
  /\ \A label \in Labels :
       /\ label.attrs \in Seq([name : Names, value : Values])
       /\ \A i, j \in DOMAIN label.attrs :
            label.attrs[i].name = label.attrs[j].name => i = j

VARIABLES kind,     (* node -> type and node_name together                 *)
          text,     (* node -> node_value                                  *)
          asked,    (* attribute records the call has asked the arena for  *)
          start,    (* links, attributes and texts before the call         *)
          begun,
          calls     (* the calls of diff_nodes that have not returned      *)

diffVars == <<vars, kind, text, asked, start, begun, calls>>

Half == MaxNode \div 2
OldRoot == 1
NewRoot == Half + 1

----------------------------------------------------------------------------
(* The two trees are any that create_node and insert_before build: a child *)
(* has a higher id than its parent, and is appended after the children of  *)
(* lower ids.                                                              *)

\* The parents of the nodes of one tree with ids root .. last; those that
\* hang nowhere are no part of it.
Shapes(root, last) ==
  {up \in [root .. last -> {Null} \union (root .. last)] :
     /\ up[root] = Null
     /\ \A n \in root + 1 .. last :
          up[n] = Null \/ /\ up[n] < n
                          /\ up[n] = root \/ up[up[n]] # Null}

Built(up) ==
  LET upTo[n \in 0 .. MaxNode] ==
        IF n = 0 THEN NoLinks
        ELSE IF up[n] = Null THEN upTo[n - 1] ELSE AppendChild(upTo[n - 1], up[n], n)
  IN upTo[MaxNode]

----------------------------------------------------------------------------
\* NodeType::Text and NodeType::Comment: node_value counts.
IsText(k) == k = "text"

----------------------------------------------------------------------------
(* s is [links, attrs, text, queue, asked]: what the call works on.        *)
State == [links |-> links, attrs |-> attrs, text |-> text, queue |-> queue, asked |-> asked]
Become(s) ==
  /\ links' = s.links
  /\ attrs' = s.attrs
  /\ text' = s.text
  /\ queue' = s.queue
  /\ asked' = s.asked

Sent(s, action, target, related, key, value) ==
  Pushed(s.queue, Patch(action, target, related, key, value))

\* An insertion that does not tell the queue.
InsertedSilently(s, p, c) ==
  IF p = Null THEN s ELSE [s EXCEPT !.links = AppendChild(@, p, c)]

\* insert_before(p, c, nullptr), and remove_child.
Inserted(s, p, c) ==
  IF p = Null THEN s
  ELSE [s EXCEPT !.links = AppendChild(@, p, c),
                 !.queue = Sent(s, "Insert", p, c, None, None)]
Removed(s, p, c) ==
  IF p = Null \/ s.links.parent[c] # p THEN s
  ELSE [s EXCEPT !.links = UnlinkChild(@, p, c),
                 !.queue = Sent(s, "Remove", p, c, None, None)]

\* An attribute the node lacks takes a record of the arena; with none left
\* set_attribute returns: no attribute, and no patch.
AttributeSet(s, n, attr) ==
  LET isNew == AttrAt(s.attrs[n], attr.name) = 0 IN
  IF isNew /\ s.asked >= Room THEN [s EXCEPT !.asked = @ + 1]
  ELSE [s EXCEPT !.attrs[n] = WithAttr(@, attr.name, attr.value),
                 !.queue = Sent(s, "UpdateAttribute", n, Null, attr.name, attr.value),
                 !.asked = IF isNew THEN @ + 1 ELSE @]
AttributeRemoved(s, n, attr) ==
  [s EXCEPT !.attrs[n] = WithoutAttr(@, attr.name),
            !.queue = Sent(s, "RemoveAttribute", n, Null, attr.name, None)]

\* set_node_value, called when the values differ.
ValueSet(s, n, value) ==
  [s EXCEPT !.text[n] = value,
            !.queue = Sent(s, "UpdateText", n, Null, None, value)]

\* diff_attributes drops what the new node lacks, and sets what differs.
Dropped(s, o, n) ==
  LET list == s.attrs[o]
      after[k \in 0 .. Len(list)] ==
        IF k = 0 THEN s
        ELSE IF AttrAt(s.attrs[n], list[k].name) = 0
             THEN AttributeRemoved(after[k - 1], o, list[k]) ELSE after[k - 1]
  IN after[Len(list)]

\* Slip: every attribute is set again.
AssignedAlways(s, o, n) ==
  LET list == s.attrs[n]
      after[k \in 0 .. Len(list)] ==
        IF k = 0 THEN s ELSE AttributeSet(after[k - 1], o, list[k])
  IN after[Len(list)]

Assigned(s, o, n) ==
  LET list == s.attrs[n]
      after[k \in 0 .. Len(list)] ==
        IF k = 0 THEN s
        ELSE IF ValueOf(after[k - 1].attrs[o], list[k].name) = list[k].value
             THEN after[k - 1] ELSE AttributeSet(after[k - 1], o, list[k])
  IN after[Len(list)]

DiffText(s, o, n) ==
  IF IsText(kind[o]) /\ s.text[o] # s.text[n] THEN ValueSet(s, o, s.text[n]) ELSE s

\* Texts and attributes of a pair of one kind.
DiffOwn(s, o, n) == Assigned(Dropped(DiffText(s, o, n), o, n), o, n)

\* "replacement needed": by the time the new node is to go in, the old one's
\* parent is gone.
Replaced(s, o, n) ==
  LET without == Removed(s, s.links.parent[o], o)
  IN Inserted(without, without.links.parent[o], n)

----------------------------------------------------------------------------
Frame(o, n, oldChild, newChild) ==
  [old |-> o, new |-> n, oldChild |-> oldChild, newChild |-> newChild]
Sibling(n) == IF n = Null THEN Null ELSE links.next[n]

\* diff_nodes up to its first loop; callers are the calls it returns to.
Compare(o, n, callers) ==
  IF kind[o] # kind[n] THEN Become(Replaced(State, o, n)) /\ calls' = callers
  ELSE /\ Become(DiffOwn(State, o, n))
       /\ calls' = Append(callers, Frame(o, n, links.first[o], links.first[n]))

\* The neighbours are read before the pair is compared, or one is moved.
Current == Last(calls)
Stepped == Append(Front(calls), Frame(Current.old, Current.new,
                                      Sibling(Current.oldChild), Sibling(Current.newChild)))

DiffTrees ==
  /\ ~ begun
  /\ begun' = TRUE
  /\ Compare(OldRoot, NewRoot, calls)
  /\ UNCHANGED <<created, kind, start>>

DiffChildren ==
  /\ calls # << >> /\ Current.oldChild # Null /\ Current.newChild # Null
  /\ Compare(Current.oldChild, Current.newChild, Stepped)
  /\ UNCHANGED <<created, kind, start, begun>>

\* A removal that looks for the neighbour afterwards, and finds none.
RemoveRestLate ==
  /\ calls # << >> /\ Current.oldChild # Null /\ Current.newChild = Null
  /\ Become(Removed(State, Current.old, Current.oldChild))
  /\ calls' = Append(Front(calls), Frame(Current.old, Current.new, Null, Null))
  /\ UNCHANGED <<created, kind, start, begun>>

\* What is left of either list once the other has ended.
RemoveRest ==
  /\ calls # << >> /\ Current.oldChild # Null /\ Current.newChild = Null
  /\ Become(Removed(State, Current.old, Current.oldChild))
  /\ calls' = Stepped
  /\ UNCHANGED <<created, kind, start, begun>>

InsertRest ==
  /\ calls # << >> /\ Current.oldChild = Null /\ Current.newChild # Null
  /\ Become(Inserted(State, Current.old, Current.newChild))
  /\ calls' = Stepped
  /\ UNCHANGED <<created, kind, start, begun>>

Return ==
  /\ calls # << >> /\ Current.oldChild = Null /\ Current.newChild = Null
  /\ calls' = Front(calls)
  /\ UNCHANGED <<vars, kind, text, asked, start, begun>>

DiffNext == DiffTrees \/ DiffChildren \/ RemoveRest \/ InsertRest \/ Return

\* 1 .. Half hold the old tree, the rest the new one.
Beside(a, b) == [n \in Nodes |-> IF n <= Half THEN a[n] ELSE b[n]]
InTree(up) == {n \in Nodes : n \in {OldRoot, NewRoot} \/ up[n] # Null}
Planted(up) ==
  \E label \in [InTree(up) -> Labels] :
    /\ \A n \in InTree(up) : up[n] # Null => ~ IsText(label[up[n]].kind)
    /\ links = Built(up)
    /\ kind = [n \in Nodes |-> IF n \in InTree(up) THEN label[n].kind ELSE None]
    /\ text = [n \in Nodes |-> IF n \in InTree(up) THEN label[n].text ELSE None]
    /\ attrs = [n \in Nodes |-> IF n \in InTree(up) THEN label[n].attrs ELSE << >>]

DiffInit ==
  /\ created = MaxNode
  /\ queue = << >>
  /\ asked = 0
  /\ begun = FALSE
  /\ calls = << >>
  /\ \E a \in Shapes(OldRoot, Half), b \in Shapes(NewRoot, MaxNode) : Planted(Beside(a, b))
  /\ start = [links |-> links, attrs |-> attrs, text |-> text]

DiffSpec == DiffInit /\ [][DiffNext]_diffVars

----------------------------------------------------------------------------
Done == begun /\ calls = << >>

\* Trees as values, met by walking first_child and next_sibling; a child has
\* a higher id than its parent, so that no tree is deeper than MaxNode.
Layer(h, lists, texts, depth, below) ==
  [n \in Nodes |->
     [kind  |-> kind[n],
      text  |-> IF IsText(kind[n]) THEN texts[n] ELSE None,
      attrs |-> [name \in Names |-> ValueOf(lists[n], name)],
      kids  |-> IF depth = 0 THEN << >>
                ELSE LET kids == Kids(h, n) IN [i \in DOMAIN kids |-> below[kids[i]]]]]
TreeAt(h, lists, texts, root) ==
  LET tree[depth \in 0 .. MaxNode] == Layer(h, lists, texts, depth, tree[depth - 1])
  IN tree[MaxNode][root]

OldTree == TreeAt(links, attrs, text, OldRoot)
OldTreeBefore == TreeAt(start.links, start.attrs, start.text, OldRoot)
Goal == TreeAt(start.links, start.attrs, start.text, NewRoot)

\* The trees pair off: wherever the walk compares two nodes they are of the
\* same type and name.
Agreeing(depth, below) ==
  {pair \in Nodes \X Nodes :
     /\ kind[pair[1]] = kind[pair[2]]
     /\ depth # 0 =>
          LET olds == Kids(start.links, pair[1])
              news == Kids(start.links, pair[2])
          IN \A i \in DOMAIN olds \intersect DOMAIN news : <<olds[i], news[i]>> \in below}
Alike ==
  LET alike[depth \in 0 .. MaxNode] == Agreeing(depth, alike[depth - 1])
  IN <<OldRoot, NewRoot>> \in alike[MaxNode]

\* Where no replacement is needed, the old tree has become the new one: texts
\* and children at every depth, and the attributes too if the arena gave every
\* record it was asked for.
Bare == [n \in Nodes |-> << >>]
DiffConverges ==
  Done /\ Alike =>
    /\ TreeAt(links, Bare, text, OldRoot) = TreeAt(start.links, Bare, start.text, NewRoot)
    /\ asked <= Room => OldTree = Goal

\* Nor are its lists left in pieces: from every node of the old tree the
\* neighbours lead back, so that it can be edited and compared again.
OldNodes ==
  LET up == [n \in Nodes |-> Up(links, n)]
  IN {n \in Nodes : \E k \in 0 .. MaxNode : up[n][k] = OldRoot}
OldTreeLinked ==
  Done /\ Alike =>
    \A p \in OldNodes :
      LET kids == Kids(links, p) IN
      /\ links.count[p] = Len(kids)
      /\ \A i \in DOMAIN kids :
           /\ links.parent[kids[i]] = p
           /\ links.prev[kids[i]] = IF i = 1 THEN Null ELSE kids[i - 1]
      /\ links.last[p] = IF kids = << >> THEN Null ELSE Last(kids)

\* Patches are sent for differences only.
QuietWhenEqual == begun /\ OldTreeBefore = Goal => queue = << >>

\* What each node's attributes say.
AttributeValues(lists) ==
  [n \in Nodes |-> [name \in Names |-> ValueOf(lists[n], name)]]

\* What a patch says of parents, texts and attributes.
Applied(acc, patch) ==
  CASE patch.action = "Insert" ->
         [acc EXCEPT !.parent[patch.related] = patch.target]
    [] patch.action = "Remove" ->
         [acc EXCEPT !.parent[patch.related] = Null]
    [] patch.action = "UpdateText" ->
         [acc EXCEPT !.text[patch.target] = patch.value]
    [] patch.action \in {"UpdateAttribute", "RemoveAttribute"} ->
         [acc EXCEPT !.value[patch.target][patch.key] = patch.value]

Replayed ==
  LET after[k \in 0 .. Len(queue)] ==
        IF k = 0 THEN [parent |-> start.links.parent, text |-> start.text,
                       value |-> AttributeValues(start.attrs)]
        ELSE Applied(after[k - 1], queue[k])
  IN after[Len(queue)]

\* As long as none was dropped for a full queue, the patches, applied in order
\* to what was there before, give the parents, texts and attributes there are
\* now, replacements lost, records refused or not.
PatchesReplay ==
  Len(queue) < QueueCapacity =>
    Replayed = [parent |-> links.parent, text |-> text, value |-> AttributeValues(attrs)]

============================================================================

------------------------------ MODULE DomTree ------------------------------
(***************************************************************************)
(* What the elements engine keeps for the page: nodes with an ordered list *)
(* of children and a map of attributes, and what each call of the page is  *)
(* to do to them.                                                          *)
(***************************************************************************)
EXTENDS Integers, Sequences, SequencesExt

CONSTANTS
  Nodes, Names,
  None          (* no such attribute                                       *)

VARIABLES
  children,     (* node -> its children in order                           *)
  attributes    (* node -> attribute name -> value or None                 *)

treeVars == <<children, attributes>>

Init ==
  /\ children = [n \in Nodes |-> << >>]
  /\ attributes = [n \in Nodes |-> [name \in Names |-> None]]

Orphan(c) == \A n \in Nodes : ~ Contains(children[n], c)

PutLast(p, c) ==
  /\ Orphan(c)
  /\ children' = [children EXCEPT ![p] = Append(@, c)]
  /\ UNCHANGED attributes

\* Right in front of the child r of p.
PutBefore(p, c, r) ==
  /\ Orphan(c)
  /\ \E i \in DOMAIN children[p] :
       /\ children[p][i] = r
       /\ children' = [children EXCEPT ![p] = InsertAt(@, i, c)]
  /\ UNCHANGED attributes

TakeOut(p, c) ==
  /\ \E i \in DOMAIN children[p] :
       /\ children[p][i] = c
       /\ children' = [children EXCEPT ![p] = RemoveAt(@, i)]
  /\ UNCHANGED attributes

SetAttribute(n, name, value) ==
  /\ attributes' = [attributes EXCEPT ![n][name] = value]
  /\ UNCHANGED children

RemoveAttribute(n, name) == SetAttribute(n, name, None)
=============================================================================

----------------------------- MODULE LayoutTree -----------------------------
(***************************************************************************)
(* LayoutTreeEngine (layout_tree.h): the boxes of a page in the order they *)
(* are reported, and the box under a point.                                *)
(*                                                                         *)
(* Coordinates are integers; the code has them as floats.  Of a node only  *)
(* what hit_test reads is kept: paddings, borders, margins, names, parents *)
(* and z-index are stored and never looked at, so the box found need not   *)
(* be the one painted on top.  hit_test is not exported yet.  get_summary  *)
(* counts over the nodes afresh and is left out.                           *)
(***************************************************************************)
EXTENDS Integers, Sequences, FiniteSets

CONSTANTS
  Boxes,        (* [x, y, width, height, display]                          *)
  MaxNodes,     (* size of nodes (20000)                                   *)
  MaxArea,      (* boxes of this area are never found (10^9)               *)
  Points        (* [x, y]                                                  *)

ASSUME LayoutAssumption ==
  /\ MaxNodes \in Nat /\ MaxArea \in Nat
  /\ \A box \in Boxes : /\ box.x \in Int /\ box.y \in Int
                          /\ box.width \in Nat /\ box.height \in Nat

VARIABLE nodes  (* up to node_count                                        *)

layoutVars == nodes

----------------------------------------------------------------------------
LayoutInit == nodes = << >>

AddNode(box) ==
  /\ Len(nodes) < MaxNodes
  /\ nodes' = Append(nodes, box)

\* A full array takes no more.
AddNodeFull ==
  /\ Len(nodes) >= MaxNodes
  /\ UNCHANGED nodes

ResetLayout == nodes' = << >>

LayoutNext == (\E box \in Boxes : AddNode(box)) \/ AddNodeFull \/ ResetLayout

LayoutSpec == LayoutInit /\ [][LayoutNext]_layoutVars

----------------------------------------------------------------------------
\* Edges belong to the box.
Covers(box, point) ==
  /\ point.x \in box.x .. box.x + box.width
  /\ point.y \in box.y .. box.y + box.height

\* Slip: the smaller box is the narrower one.
AreaByWidth(box) == box.width
Area(box) == box.width * box.height

\* The nodes that hit_test compares.
Around(point) ==
  {n \in DOMAIN nodes : nodes[n].display # "NONE" /\ Covers(nodes[n], point)
                        /\ Area(nodes[n]) < MaxArea}

\* hit_test: the first of the smallest, or 0.
HitTest(point) ==
  IF Around(point) = {} THEN 0
  ELSE CHOOSE n \in Around(point) :
         \A m \in Around(point) :
           Area(nodes[n]) < Area(nodes[m]) \/ (Area(nodes[n]) = Area(nodes[m]) /\ n <= m)

----------------------------------------------------------------------------
Within(inner, outer) ==
  /\ outer.x <= inner.x /\ inner.x + inner.width <= outer.x + outer.width
  /\ outer.y <= inner.y /\ inner.y + inner.height <= outer.y + outer.height

\* Area stands in for nesting: where the boxes around a point lie one inside
\* the other, in whichever order they were reported, the box found is the
\* innermost; among boxes of one size it is the one reported first, the
\* parent that its child fills.  Boxes of no extent are left aside: they may
\* be nested and still have one area.
HitInnermost ==
  \A point \in Points :
    LET shown == {n \in DOMAIN nodes : nodes[n].display # "NONE" /\ Covers(nodes[n], point)}
        nested == \A n, m \in shown : Within(nodes[n], nodes[m]) \/ Within(nodes[m], nodes[n])
        extended == \A n \in shown : nodes[n].width > 0 /\ nodes[n].height > 0
        hit == HitTest(point)
    IN nested /\ extended /\ (\E n \in shown : nodes[n].width * nodes[n].height < MaxArea) =>
         /\ hit \in shown
         /\ \A n \in shown : /\ Within(nodes[hit], nodes[n])
                             /\ Within(nodes[n], nodes[hit]) => hit <= n
============================================================================

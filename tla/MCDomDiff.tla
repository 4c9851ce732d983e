----------------------------- MODULE MCDomDiff -----------------------------
(* Values of the constants of DomDiff: trees of up to three nodes.         *)
EXTENDS DomDiff

CONSTANTS id, class, v, w

A(name, value) == [name |-> name, value |-> value]
L(k, t, list) == [kind |-> k, text |-> t, attrs |-> list]

\* Texts, an element of another tag, and attribute lists in both orders.
MCLabels ==
  {L("text", v, << >>), L("text", w, << >>), L("span", None, << >>),
   L("div", None, << >>), L("div", None, <<A(class, w)>>),
   L("div", None, <<A(id, v), A(class, v)>>), L("div", None, <<A(class, v), A(id, w)>>)}
============================================================================

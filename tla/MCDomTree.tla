----------------------------- MODULE MCDomTree -----------------------------
(* Values of the constants of DomQuery: three elements of two tags and a   *)
(* text, and selectors of up to three parts.                               *)
EXTENDS DomQuery

CONSTANTS div, span, card, active

MCNames == {"class"}
MCValues == {{card}, {card, active}}
MCTag == <<div, span, div, None>>

Tagged == [by |-> "tag", name |-> div]
Classed(word) == [by |-> "class", name |-> word]

Parts == {Tagged, Classed(card), Classed(active)}

MCSelectors ==
  {<<p>> : p \in Parts} \union {<<p, q>> : p, q \in Parts}
    \union {<<Tagged, Classed(card), Tagged>>, <<Classed(active), Classed(card), Classed(card)>>}
=============================================================================

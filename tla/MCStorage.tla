----------------------------- MODULE MCStorage -----------------------------
(* Lengths that differ, some of them 0.                                      *)
EXTENDS Storage

CONSTANTS k1, k2, short, long, n1, d1, u1, u2

MCLength == [x \in {k1, k2, short, long, n1, u1, u2} |->
               CASE x = long -> 3
                 [] x = u2 -> 2
                 [] x \in {short, u1} -> 0
                 [] OTHER -> 1]

\* The two areas have the same code, and the two keys the same length.
Alike == Permutations({Local, Session}) \union Permutations(Keys)
=============================================================================

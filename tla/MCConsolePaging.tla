--------------------------- MODULE MCConsolePaging ---------------------------
(* A ring of two slots, read with a filter that leaves some out; ids start    *)
(* again at five.                                                             *)
EXTENDS ConsolePaging

MCKinds == {[type |-> "ERROR", level |-> 3]}

\* The empty filter selects everything.
MCHits == [query \in Queries |-> IF query = "" THEN Texts ELSE {query}]
==============================================================================

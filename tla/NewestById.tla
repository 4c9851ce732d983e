----------------------------- MODULE NewestById -----------------------------
(***************************************************************************)
(* What a list of records promises whose ids the page may use again: a     *)
(* call about an id is about the newest record with that id.  The older    *)
(* ones stay as they were when the next of their name began.               *)
(***************************************************************************)
EXTENDS Integers, Sequences

CONSTANT Ids

VARIABLES
  records,    (* in the order they began; each has an id                   *)
  asked       (* the id that the last call was about                       *)

newestVars == <<records, asked>>

Newest(id, k) ==
  /\ k \in DOMAIN records
  /\ records[k].id = id
  /\ \A l \in DOMAIN records : records[l].id = id => l <= k

Init ==
  /\ records = << >>
  /\ asked \in Ids

\* A new record is the last one, the others stay.
Begin(id) ==
  /\ asked' = id
  /\ Len(records') = Len(records) + 1
  /\ \A k \in DOMAIN records : records'[k] = records[k]
  /\ records'[Len(records')].id = id

\* Whatever a call changes, it changes in the newest record of the id.
Tell(id) ==
  /\ asked' = id
  /\ Len(records') = Len(records)
  /\ \A k \in DOMAIN records :
       /\ records'[k].id = records[k].id
       /\ ~ Newest(id, k) => records'[k] = records[k]

Next == \E id \in Ids : Begin(id) \/ Tell(id)

Spec == Init /\ [][Next]_newestVars
=============================================================================

----------------------------- MODULE MessageLog -----------------------------
(***************************************************************************)
(* What the console promises: a log of the latest Capacity messages since  *)
(* it was last cleared, oldest first, numbered as they came.  Numbers are  *)
(* 32 bits wide and go on counting across a clear.                         *)
(***************************************************************************)
EXTENDS Integers, Sequences

CONSTANTS
  Capacity,   (* how many messages are kept                                *)
  IdModulus,  (* ids count modulo this (2^32)                              *)
  Contents    (* what a message says                                       *)

VARIABLES
  log,        (* the messages kept, oldest first: [id, content]            *)
  logged      (* how many have been logged so far                          *)

logVars == <<log, logged>>

Init ==
  /\ log = << >>
  /\ logged = 0

Numbered(content) == [id |-> (logged + 1) % IdModulus, content |-> content]

Record(content) ==
  /\ log' = IF Len(log) < Capacity
            THEN Append(log, Numbered(content))
            ELSE Append(Tail(log), Numbered(content))
  /\ logged' = logged + 1

Clear ==
  /\ log' = << >>
  /\ UNCHANGED logged

Restart ==
  /\ log' = << >>
  /\ logged' = 0

Next ==
  \/ \E content \in Contents : Record(content)
  \/ Clear
  \/ Restart

Spec == Init /\ [][Next]_logVars
=============================================================================

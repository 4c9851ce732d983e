------------------------------ MODULE TimerMap ------------------------------
(***************************************************************************)
(* What console.time and console.timeEnd promise: a running timer per      *)
(* label, at most MaxTimers of them.  Labels too long for the table are    *)
(* not among Labels; timeEnd answers for them as it will.                  *)
(***************************************************************************)
EXTENDS Integers, FiniteSets

CONSTANTS
  Labels, Times, MaxTimers,
  None          (* no timer of that label; no such timer for timeEnd       *)

VARIABLES
  running,      (* label -> when its timer was started, or None            *)
  elapsed       (* what the last timeEnd returned                          *)

mapVars == <<running, elapsed>>

Running == {label \in Labels : running[label] # None}

Init ==
  /\ running = [label \in Labels |-> None]
  /\ elapsed = None

\* With every timer in use, time does nothing, not even for a label that is
\* running already.
Start(label, now) ==
  /\ Cardinality(Running) < MaxTimers
  /\ running' = [running EXCEPT ![label] = now]
  /\ UNCHANGED elapsed

End(label, now) ==
  /\ elapsed' = IF running[label] = None THEN None
                ELSE IF now > running[label] THEN now - running[label]
                ELSE 0
  /\ running' = [running EXCEPT ![label] = None]

EndOther ==
  /\ elapsed' \in Nat \union {None}
  /\ UNCHANGED running

Restart ==
  /\ running' = [label \in Labels |-> None]
  /\ UNCHANGED elapsed

Next ==
  \/ \E label \in Labels, now \in Times : Start(label, now) \/ End(label, now)
  \/ EndOther \/ Restart

Spec == Init /\ [][Next]_mapVars
=============================================================================

--------------------------- MODULE ConsoleTimers ---------------------------
(***************************************************************************)
(* console.time and console.timeEnd of ConsoleEngine (console.h): a table  *)
(* of 32 timers with their labels copied into 64 bytes.                    *)
(*                                                                         *)
(* A label longer than 63 bytes, or with a NUL in it, is stored cut short, *)
(* and the comparison wants both ends to match: such a timer is found by   *)
(* the short label, never by its own.  Stored says what is kept of a       *)
(* label.                                                                  *)
(***************************************************************************)
EXTENDS Integers, Sequences, SequencesExt

CONSTANTS
  Labels,      (* labels the page uses                                     *)
  Stored,      (* label -> the label kept in the table                     *)
  Times,       (* clock readings; the page's clock may step back           *)
  MaxTimers,   (* size of the table (32)                                   *)
  None         (* timeEnd's -1                                             *)

ASSUME TimersAssumption ==
  /\ Stored \in [Labels -> Labels]
  /\ \A label \in Labels : Stored[Stored[label]] = Stored[label]
  /\ Times \subseteq Nat
  /\ MaxTimers \in Nat
  /\ None \notin Nat

VARIABLES
  timers,      (* the timers in use: [label, start]                        *)
  elapsed      (* what the last time_end returned                          *)

timerVars == <<timers, elapsed>>

----------------------------------------------------------------------------
\* Slip: closing the gap loses the last timer.
GapLosesLast(i) == SubSeq(timers, 1, i - 1) \o SubSeq(timers, i + 1, Len(timers) - 1)

\* The first slot holding label, or 0.
SlotOf(label) == SelectInSeq(timers, LAMBDA timer : timer.label = label)

\* The table without slot i, the later ones moved up.
Closed(i) == RemoveAt(timers, i)

\* Time since slot i was started, 0 if the clock stepped back.
Since(i, now) == IF now > timers[i].start THEN now - timers[i].start ELSE 0

----------------------------------------------------------------------------
TimersInit ==
  /\ timers = << >>
  /\ elapsed = None

TimeStart(label, now) ==
  /\ Len(timers) < MaxTimers
  /\ timers' = IF SlotOf(label) # 0
               THEN [timers EXCEPT ![SlotOf(label)].start = now]
               ELSE Append(timers, [label |-> Stored[label], start |-> now])
  /\ UNCHANGED elapsed

\* A full table is left alone, before it is searched for the label.
TimeStartFull(label, now) ==
  /\ Len(timers) >= MaxTimers
  /\ UNCHANGED timerVars

TimeEnd(label, now) ==
  /\ SlotOf(label) # 0
  /\ timers' = Closed(SlotOf(label))
  /\ elapsed' = Since(SlotOf(label), now)

TimeEndUnknown(label) ==
  /\ SlotOf(label) = 0
  /\ elapsed' = None
  /\ UNCHANGED timers

\* reset, and devtools_reset.
ResetTimers ==
  /\ timers' = << >>
  /\ UNCHANGED elapsed

TimersNext ==
  \/ \E label \in Labels, now \in Times :
       TimeStart(label, now) \/ TimeStartFull(label, now) \/ TimeEnd(label, now)
  \/ \E label \in Labels : TimeEndUnknown(label)
  \/ ResetTimers

TimersSpec == TimersInit /\ [][TimersNext]_timerVars

----------------------------------------------------------------------------
\* Labels stored whole of which no other label leaves a cut copy.
OwnLabels ==
  {label \in Labels : \A other \in Labels : Stored[other] = label <=> other = label}

\* The start time the table has for a label, if any.
RunningTimers ==
  [label \in OwnLabels |-> IF SlotOf(label) = 0 THEN None ELSE timers[SlotOf(label)].start]

RunningMap == INSTANCE TimerMap WITH Labels <- OwnLabels, running <- RunningTimers

\* For the labels stored whole the table is a map from labels to start times:
\* moving slots up after a timeEnd, restarting a running timer, the order in
\* which timers end and the doubled timers of labels that were cut short never
\* mix two timers up.
TableIsMap == RunningMap!Spec
============================================================================

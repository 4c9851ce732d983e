------------------------------ MODULE Profiler ------------------------------
(***************************************************************************)
(* ProfilerEngine (profiler.h): trace events with their arguments, thread  *)
(* names, and the frames with the summary of them.                         *)
(*                                                                         *)
(* Durations are whole milliseconds, layout shifts whole points; the code  *)
(* has both as doubles.  A rate is kept as <<frames, milliseconds>>, or    *)
(* << >> where the code returns 0.  export_trace_json writes what is here  *)
(* as text and changes nothing.                                            *)
(***************************************************************************)
EXTENDS Integers, Sequences, FiniteSets, Sums

CONSTANTS
  Durations, Shifts,   (* what the page reports of a frame                 *)
  MaxFrames,           (* size of frame_buffer (10000)                     *)
  RecentFrames,        (* frames of the current rate (60)                  *)
  MaxReported,         (* bound on the frames reported                     *)
  EventKinds,          (* events as the page describes them                *)
  Processes, Threads,  (* ids the page gives them                          *)
  ArgNames,            (* arguments                                        *)
  MaxEvents,           (* size of events (250000)                          *)
  MaxArgs, MaxThreads  (* bounds on arguments and thread names             *)

ASSUME ProfilerAssumption ==
  /\ Durations \subseteq Nat /\ Shifts \subseteq Nat
  /\ MaxFrames \in Nat /\ MaxEvents \in Nat
  /\ RecentFrames \in Nat \ {0}

VARIABLES
  frames,              (* frame_buffer, up to frame_count                  *)
  droppedFrames, longTasks, layoutShift,
  reported,            (* history: all frames reported                     *)
  events,              (* up to count                                      *)
  threadMeta,          (* the list from first_thread_meta on               *)
  currentPid

frameVars == <<frames, droppedFrames, longTasks, layoutShift, reported>>
traceVars == <<events, threadMeta, currentPid>>
profilerVars == <<frameVars, traceVars>>

----------------------------------------------------------------------------
ProfilerInit ==
  /\ frames = << >> /\ reported = << >>
  /\ droppedFrames = 0 /\ longTasks = 0 /\ layoutShift = 0
  /\ events = << >> /\ threadMeta = << >>
  /\ currentPid = 1

\* Over 16.67 ms and over 50 ms.
IsDropped(duration) == duration > 16
IsLongTask(duration) == duration > 50

\* A full buffer takes no more frames, and none of the counters moves.
RecordFrame(duration, shift) ==
  /\ Len(reported) < MaxReported
  /\ reported' = Append(reported, [duration |-> duration, shift |-> shift])
  /\ IF Len(frames) >= MaxFrames
     THEN UNCHANGED <<frames, droppedFrames, longTasks, layoutShift>>
     ELSE /\ frames' = Append(frames, [duration |-> duration, shift |-> shift])
          /\ droppedFrames' = droppedFrames + IF IsDropped(duration) THEN 1 ELSE 0
          /\ longTasks' = longTasks + IF IsLongTask(duration) THEN 1 ELSE 0
          /\ layoutShift' = layoutShift + shift
  /\ UNCHANGED traceVars

SetProcessId(pid) ==
  /\ currentPid' = pid
  /\ UNCHANGED <<frameVars, events, threadMeta>>

SetThreadName(tid) ==
  /\ Len(threadMeta) < MaxThreads
  /\ threadMeta' = <<[pid |-> currentPid, tid |-> tid]>> \o threadMeta
  /\ UNCHANGED <<frameVars, events, currentPid>>

RecordTrace(kind, tid) ==
  /\ Len(events) < MaxEvents
  /\ events' = Append(events, [kind |-> kind, pid |-> currentPid, tid |-> tid, args |-> << >>])
  /\ UNCHANGED <<frameVars, threadMeta, currentPid>>

\* An event that has been recorded, by the pointer the page was given.
AddEventArg(e, arg) ==
  /\ e \in DOMAIN events /\ Len(events[e].args) < MaxArgs
  /\ events' = [events EXCEPT ![e].args = <<arg>> \o @]
  /\ UNCHANGED <<frameVars, threadMeta, currentPid>>

\* Full buffers, an arena with no room, an argument for a refused event.
TraceRefused == UNCHANGED profilerVars

ProfilerNext ==
  \/ \E duration \in Durations, shift \in Shifts : RecordFrame(duration, shift)
  \/ \E pid \in Processes : SetProcessId(pid)
  \/ \E tid \in Threads : SetThreadName(tid)
  \/ \E kind \in EventKinds, tid \in Threads : RecordTrace(kind, tid)
  \/ \E e \in 1 .. MaxEvents, arg \in ArgNames : AddEventArg(e, arg)
  \/ TraceRefused

ProfilerSpec == ProfilerInit /\ [][ProfilerNext]_profilerVars

----------------------------------------------------------------------------
\* The time that frames took.
TimeOf(fs) == SumOf([k \in DOMAIN fs |-> fs[k].duration])

\* How many frames in how much time; 0 when they took none.
Rate(n, time) == IF time > 0 THEN <<n, time>> ELSE << >>

\* Slip: the recent frames begin one too early.
RecentStartEarly(n, sample) == IF n > sample THEN n - sample ELSE 1

\* start_idx, as the position of the first recent frame.
RecentStart(n, sample) == n - sample + 1

\* get_frame_summary.
FrameSummary ==
  LET n == Len(frames)
      sample == IF n > RecentFrames THEN RecentFrames ELSE n
  IN [total |-> n, dropped |-> droppedFrames, long |-> longTasks, shift |-> layoutShift,
      average |-> IF n = 0 THEN << >> ELSE Rate(n, TimeOf(frames)),
      current |-> IF n = 0 THEN << >>
                  ELSE Rate(sample, TimeOf(SubSeq(frames, RecentStart(n, sample), n)))]

----------------------------------------------------------------------------
\* The summary is that of the first frames reported, up to as many as the
\* buffer holds: once it is full, what is shown as the current rate and every
\* counter stand still, together.  Before, the current rate is that of the
\* last frames reported.
FramesSummed ==
  LET n == IF Len(reported) < MaxFrames THEN Len(reported) ELSE MaxFrames
      shown == SubSeq(reported, 1, n)
      recent == IF n > RecentFrames THEN SubSeq(shown, n - RecentFrames + 1, n) ELSE shown
  IN FrameSummary =
       [total |-> n,
        dropped |-> Cardinality({k \in 1 .. n : shown[k].duration > 16}),
        long |-> Cardinality({k \in 1 .. n : shown[k].duration > 50}),
        shift |-> SumOf([k \in 1 .. n |-> shown[k].shift]),
        average |-> Rate(n, TimeOf(shown)),
        current |-> Rate(Len(recent), TimeOf(recent))]
============================================================================

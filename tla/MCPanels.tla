------------------------------ MODULE MCPanels ------------------------------
(***************************************************************************)
(* The smaller engines behind the panels, side by side.  They share        *)
(* nothing but the arena, whose refusals each has as a choice, and no call *)
(* of one reaches another: a behaviour is the calls of one of them, the    *)
(* panel, and the rest stay as they start.                                 *)
(***************************************************************************)
EXTENDS ConsoleTimers, Network, ServiceWorkers, VirtualList, VirtualFiles, Profiler, LayoutTree

CONSTANTS a, b, p, longA, longB

\* Two labels that are stored whole, and two long ones of which p is kept.
MCLabels == {a, b, p, longA, longB}
MCStored == [label \in MCLabels |-> IF label \in {a, b} THEN label ELSE p]

\* x occurs in one message and the empty search term in both.
MCSearches == [s \in {"", "x"} |-> IF s = "" THEN {"ax", "b"} ELSE {"ax"}]

MCContentLength == [c \in {"short", "long"} |-> IF c = "short" THEN 1 ELSE 3]

\* A wide box, a tall and a narrow one inside it, one that fills the wide one
\* and is not shown, one too large to be found, one off to the side and one
\* that cuts across.
Box(x, y, width, height, display) ==
  [x |-> x, y |-> y, width |-> width, height |-> height, display |-> display]
MCBoxes == {Box(0, 0, 4, 4, "BLOCK"), Box(1, 1, 1, 3, "FLEX"), Box(1, 1, 1, 2, "BLOCK"),
            Box(0, 0, 4, 4, "NONE"), Box(0, 0, 5, 5, "BLOCK"), Box(6, 0, 1, 1, "INLINE"),
            Box(0, 1, 5, 1, "GRID")}
MCPoints == [x : {0, 1, 3, 6}, y : {0, 1, 2}]

VARIABLE panel

parts == <<timerVars, netVars, workerVars, listVars, fileVars, profilerVars, layoutVars>>

Panels == {"timers", "network", "workers", "list", "files", "profiler", "layout"}

PanelInit ==
  /\ panel \in Panels
  /\ TimersInit /\ NetInit /\ WorkersInit /\ ListInit
  /\ FilesInit /\ ProfilerInit /\ LayoutInit

TimersStep ==
  /\ panel = "timers" /\ TimersNext
  /\ UNCHANGED <<panel, netVars, workerVars, listVars, fileVars, profilerVars, layoutVars>>

NetworkStep ==
  /\ panel = "network" /\ NetNext
  /\ UNCHANGED <<panel, timerVars, workerVars, listVars, fileVars, profilerVars, layoutVars>>

WorkersStep ==
  /\ panel = "workers" /\ WorkersNext
  /\ UNCHANGED <<panel, timerVars, netVars, listVars, fileVars, profilerVars, layoutVars>>

ListStep ==
  /\ panel = "list" /\ ListNext
  /\ UNCHANGED <<panel, timerVars, netVars, workerVars, fileVars, profilerVars, layoutVars>>

FilesStep ==
  /\ panel = "files" /\ FilesNext
  /\ UNCHANGED <<panel, timerVars, netVars, workerVars, listVars, profilerVars, layoutVars>>

ProfilerStep ==
  /\ panel = "profiler" /\ ProfilerNext
  /\ UNCHANGED <<panel, timerVars, netVars, workerVars, listVars, fileVars, layoutVars>>

LayoutStep ==
  /\ panel = "layout" /\ LayoutNext
  /\ UNCHANGED <<panel, timerVars, netVars, workerVars, listVars, fileVars, profilerVars>>

PanelNext ==
  \/ TimersStep \/ NetworkStep \/ WorkersStep \/ ListStep
  \/ FilesStep \/ ProfilerStep \/ LayoutStep

PanelSpec == PanelInit /\ [][PanelNext]_<<panel, parts>>
=============================================================================

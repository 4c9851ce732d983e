---------------------------- MODULE VirtualList ----------------------------
(***************************************************************************)
(* VirtualListEngine (virtual_list.h): log items, the indices of those     *)
(* that a filter selects, and the window of rows to draw for a scroll      *)
(* position.                                                               *)
(*                                                                         *)
(* A turn of apply_filter's loop is a step; nothing else runs meanwhile.   *)
(* Pixels are integers here; the code has them as floats.  Indices start   *)
(* at 0 as in the code.  reset is exported nowhere and not called.         *)
(***************************************************************************)
EXTENDS Integers, Sequences

CONSTANTS
  MaxItems,        (* size of both buffers (100000)                        *)
  ItemLevels,      (* levels of items: 1 .. 4                              *)
  Messages,        (* what they say                                        *)
  Searches,        (* search term -> the messages it occurs in             *)
  Scrolls, Viewports, RowHeights, Overscans   (* what compute_window gets  *)

AllLevels == 0     \* LogLevelFilter::ALL

ASSUME VirtualListAssumption ==
  /\ MaxItems \in Nat
  /\ ItemLevels \subseteq Nat \ {AllLevels}
  /\ Scrolls \subseteq Nat /\ Viewports \subseteq Nat
  /\ RowHeights \subseteq Nat \ {0}
  /\ Overscans \subseteq Nat

VARIABLES
  items,           (* [level, text] by index + 1                           *)
  filtered,        (* filtered_indices                                     *)
  filter,          (* history: what apply_filter was last given            *)
  present,         (* history: how many items there were then              *)
  sifted           (* how many of these its loop has gone through          *)

listVars == <<items, filtered, filter, present, sifted>>

Filters == [level : ItemLevels \union {AllLevels}, search : DOMAIN Searches]

----------------------------------------------------------------------------
\* Both tests of apply_filter; an empty search term occurs in all messages.
Selected(f, item) ==
  /\ f.level = AllLevels \/ item.level = f.level
  /\ item.text \in Searches[f.search]

ListInit ==
  /\ items = << >>
  /\ filtered = << >>
  /\ filter = [level |-> AllLevels, search |-> ""]
  /\ present = 0 /\ sifted = 0

\* Slip: a filter that goes on behind what was selected before.
FilterOnto(f) ==
  /\ sifted = present
  /\ filter' = f
  /\ present' = Len(items) /\ sifted' = 0
  /\ UNCHANGED <<items, filtered>>

\* A new item is listed, whatever the filter.
Listed == Append(filtered, Len(items))

\* A full buffer takes nothing more.
AddLog(level, text) ==
  /\ sifted = present
  /\ Len(items) < MaxItems
  /\ items' = Append(items, [level |-> level, text |-> text])
  /\ filtered' = Listed
  /\ UNCHANGED <<filter, present, sifted>>

\* apply_filter starts from an empty selection,
ApplyFilter(f) ==
  /\ sifted = present
  /\ filtered' = << >>
  /\ filter' = f
  /\ present' = Len(items) /\ sifted' = 0
  /\ UNCHANGED items

\* and looks at one item after the other.
Sift ==
  /\ sifted < present
  /\ filtered' = IF Selected(filter, items[sifted + 1])
                 THEN Append(filtered, sifted) ELSE filtered
  /\ sifted' = sifted + 1
  /\ UNCHANGED <<items, filter, present>>

ListNext ==
  \/ \E level \in ItemLevels, text \in Messages : AddLog(level, text)
  \/ \E f \in Filters : ApplyFilter(f)
  \/ Sift

ListSpec == ListInit /\ [][ListNext]_listVars

----------------------------------------------------------------------------
\* Slip: rows are counted from the first one drawn.
VisibleShort(viewport, height) == viewport \div height

\* visible_count, one row more for those cut at both ends.
Visible(viewport, height) == viewport \div height + 1

\* compute_window: rows start .. end - 1 are drawn, between two paddings.
ComputeWindow(scroll, viewport, height, overscan) ==
  LET n == Len(filtered)
      first == IF scroll \div height - overscan < 0 THEN 0 ELSE scroll \div height - overscan
      last == first + Visible(viewport, height) + overscan * 2
      end == IF last > n THEN n ELSE last
  IN IF n = 0 THEN [start |-> 0, end |-> 0, top |-> 0, bottom |-> 0]
     ELSE [start |-> first, end |-> end, top |-> first * height, bottom |-> (n - end) * height]

----------------------------------------------------------------------------
\* Between two filters the list goes on without one: what is shown is in
\* order, none twice; of the items that were there when the filter was applied
\* it is those selected, and of those added since it is all of them.
FilteredSinceFilter ==
  /\ \A k, l \in DOMAIN filtered : k < l => filtered[k] < filtered[l]
  /\ \A n \in 1 .. sifted :
       Selected(filter, items[n]) <=> \E k \in DOMAIN filtered : filtered[k] = n - 1
  /\ \A n \in present + 1 .. Len(items) : \E k \in DOMAIN filtered : filtered[k] = n - 1
  /\ \A k \in DOMAIN filtered :
       filtered[k] + 1 \in 1 .. sifted \union present + 1 .. Len(items)

\* Row r, when any of it is inside the viewport.
InView(r, scroll, viewport, height) ==
  r * height < scroll + viewport /\ scroll < (r + 1) * height

\* Wherever the list is scrolled to, as long as it is not past its end, every
\* row in view is drawn, at its place: the rows above the window take as much
\* room as its padding, and with the rows and the padding below they add up
\* to the height of the list.  One row of overscan is needed for it: a row cut
\* at the upper edge and one cut at the lower are one more than visible_count.
WindowShowsViewport ==
  \A scroll \in Scrolls, viewport \in Viewports, height \in RowHeights, overscan \in Overscans :
    overscan >= 1 /\ scroll <= Len(filtered) * height =>
      LET w == ComputeWindow(scroll, viewport, height, overscan) IN
      /\ 0 <= w.start /\ w.start <= w.end /\ w.end <= Len(filtered)
      /\ \A r \in 0 .. Len(filtered) - 1 :
           InView(r, scroll, viewport, height) => r \in w.start .. w.end - 1
      /\ w.top = w.start * height
      /\ w.top + (w.end - w.start) * height + w.bottom = Len(filtered) * height
============================================================================

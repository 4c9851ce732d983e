--------------------------- MODULE ConsolePaging ---------------------------
(***************************************************************************)
(* Reading the console page by page (filter_and_paginate of console.h)     *)
(* while messages keep arriving.  The page asks for the messages after the *)
(* ones it has; the engine keeps no cursor, so a page is cut from what the *)
(* ring holds at that moment.                                              *)
(***************************************************************************)
EXTENDS Console, SequencesExt, FiniteSets

CONSTANTS
  Levels,     (* min_level values                                          *)
  Queries,    (* filter texts                                              *)
  Hits,       (* query -> the texts it occurs in (string_contains)         *)
  Limits      (* page sizes asked for                                      *)

ASSUME PagingAssumption == Limits \subseteq Nat

VARIABLES
  view,       (* the filter the page reads with: [level, query]            *)
  seen,       (* ids of the messages it has read with that filter          *)
  dropped     (* messages the ring gave up since it started with it        *)

pageVars == <<view, seen, dropped>>
allVars == <<vars, pageVars>>

----------------------------------------------------------------------------
Selects(level, query, message) ==
  /\ message.content.kind.level >= level
  /\ \/ message.content.text \in Hits[query]
     \/ message.content.url \in Hits[query]

\* Slips: a page that starts one match early; slots read in array order.
PageFromOneEarly(matched, offset) == matched >= offset - 1
SlotInArrayOrder(i) == i % Capacity

\* The slot of the i-th message and the test of the loop, as the code has
\* them: matches up to offset are counted only.
SlotToRead(i) == SlotAt(i)
OnPage(matched, offset) == matched >= offset

\* filter_and_paginate: one pass from the oldest message, counting matches
\* and copying those on the page.
FilterAndPaginate(level, query, offset, limit) ==
  LET scan[i \in 0 .. count] ==
        IF i = 0 THEN [matched |-> 0, out |-> << >>]
        ELSE LET message == messages[SlotToRead(i - 1)]
                 acc == scan[i - 1]
             IN IF ~ Selects(level, query, message) THEN acc
                ELSE [matched |-> acc.matched + 1,
                      out |-> IF OnPage(acc.matched, offset) /\ Len(acc.out) < limit
                              THEN Append(acc.out, message) ELSE acc.out]
  IN scan[count].out

----------------------------------------------------------------------------
PagingInit ==
  /\ Init
  /\ view \in [level : Levels, query : Queries]
  /\ seen = << >>
  /\ dropped = 0

\* The engine goes on logging, and is cleared, between two pages: of what was
\* logged it gives up what it does not keep.
Engine ==
  /\ Next /\ ~ Reset
  /\ dropped' = dropped + (totalLogged' - totalLogged) - (count' - count)
  /\ UNCHANGED <<view, seen>>

ReadPage(limit) ==
  LET page == FilterAndPaginate(view.level, view.query, Len(seen), limit) IN
  /\ seen' = seen \o [i \in 1 .. Len(page) |-> page[i].id]
  /\ UNCHANGED <<vars, view, dropped>>

\* Another filter, or a restarted engine: the page starts reading again.
ChangeView ==
  /\ UNCHANGED vars \/ Reset
  /\ view' \in [level : Levels, query : Queries]
  /\ seen' = << >>
  /\ dropped' = 0

PagingNext ==
  \/ Engine
  \/ \E limit \in Limits : ReadPage(limit)
  \/ ChangeView

PagingSpec == PagingInit /\ [][PagingNext]_allVars

----------------------------------------------------------------------------
\* What the filter selects now.
Matching ==
  LET among[i \in 0 .. count] ==
        IF i = 0 THEN << >>
        ELSE IF Selects(view.level, view.query, Retained[i])
             THEN Append(among[i - 1], Retained[i])
             ELSE among[i - 1]
  IN among[count]

\* The one-pass loop cuts the page out of the selected messages.
PageIsSlice ==
  \A limit \in Limits, offset \in 0 .. Capacity :
    FilterAndPaginate(view.level, view.query, offset, limit)
      = SubSeq(Matching, offset + 1, Min({offset + limit, Len(Matching)}))

\* A reader who goes on page by page while the ring moves never sees a message
\* twice, nor an older one after a newer one, as long as ids do not start
\* again.  Messages may be missed, because offsets count from a start that
\* moves: of those still kept, at most as many as the ring has given up
\* meanwhile.
PagesInOrder ==
  totalLogged < IdModulus =>
    /\ \A i, j \in 1 .. Len(seen) : i < j => seen[i] < seen[j]
    /\ LET missed == {i \in 1 .. Len(Matching) :
                        /\ seen # << >>
                        /\ Matching[i].id < Last(seen)
                        /\ ~ Contains(seen, Matching[i].id)}
       IN Cardinality(missed) <= dropped
============================================================================

------------------------------ MODULE LineDiff ------------------------------
(***************************************************************************)
(* compute_diff of DiffEngine (diff_engine.h): two texts side by side, one *)
(* pass over both with a short look ahead into the new one.                *)
(*                                                                         *)
(* A text is the list of its lines; whether the last one ends in a newline *)
(* makes no difference to split_lines.  A behaviour is one call: line_count*)
(* is reset first and all else is local, so earlier calls leave no trace.  *)
(* A step is one turn of one of the loops.                                 *)
(*                                                                         *)
(* The two tables of lines come from the arena and are never given back;   *)
(* here they are there.  DevTools has the calls for which they are not.    *)
(***************************************************************************)
EXTENDS Integers, Sequences

CONSTANTS
  Contents,            (* what a line says                                 *)
  OldTexts, NewTexts,  (* the texts compared                               *)
  TableSize,           (* lines of a text that are looked at (max_lines)   *)
  Capacity             (* size of diff_lines                               *)

ASSUME LineDiffAssumption ==
  /\ TableSize \in Nat
  /\ Capacity \in Nat
  /\ OldTexts \union NewTexts \subseteq Seq(Contents)

Ahead == 4   \* lines of the new text after the current one that are compared

VARIABLES
  texts,       (* old_text and new_text                                    *)
  old, new,    (* old_lines and new_lines, the tables cut from them        *)
  i, j,        (* how many of their lines are done                         *)
  until,       (* lookahead_j: insert up to this line of new               *)
  lines,       (* diff_lines, up to line_count                             *)
  oldLineNo, newLineNo,
  summary      (* additions, deletions, unchanged                          *)

diffVars == <<texts, old, new, i, j, until, lines, oldLineNo, newLineNo, summary>>

----------------------------------------------------------------------------
\* split_lines stops when its table is full.
SplitLines(text) == SubSeq(text, 1, IF Len(text) < TableSize THEN Len(text) ELSE TableSize)

\* What a call of compute_diff starts from.
DiffInit ==
  /\ texts \in [old : OldTexts, new : NewTexts]
  /\ old = SplitLines(texts.old)
  /\ new = SplitLines(texts.new)
  /\ i = 0 /\ j = 0 /\ until = 0
  /\ lines = << >>
  /\ oldLineNo = 1 /\ newLineNo = 1
  /\ summary = [additions |-> 0, deletions |-> 0, unchanged |-> 0]

\* Slip: the insertion ends one line before the match.
InsertingShort == j + 1 < until

Room == Len(lines) < Capacity
Inserting == j < until
Comparing == ~ Inserting /\ Room /\ (i < Len(old) \/ j < Len(new))
DiffDone == ~ Comparing /\ ~ (Inserting /\ Room)

Same == i < Len(old) /\ j < Len(new) /\ old[i + 1] = new[j + 1]

\* Slips: a look ahead that is a line too short; a deletion that is numbered
\* as a line of the new text.
MatchesThree == {k \in j + 1 .. j + 3 : k < Len(new) /\ i < Len(old) /\ old[i + 1] = new[k + 1]}

\* Later lines of the new text that the current old line is found in.
Matches == {k \in j + 1 .. j + Ahead : k < Len(new) /\ i < Len(old) /\ old[i + 1] = new[k + 1]}

Line(type, text, oldNo, newNo) ==
  [type |-> type, text |-> text, old |-> oldNo, new |-> newNo]

\* A line of both texts.
Keep ==
  /\ Comparing /\ Same
  /\ lines' = Append(lines, Line("EQUAL", old[i + 1], oldLineNo, newLineNo))
  /\ i' = i + 1 /\ j' = j + 1
  /\ oldLineNo' = oldLineNo + 1 /\ newLineNo' = newLineNo + 1
  /\ summary' = [summary EXCEPT !.unchanged = @ + 1]
  /\ UNCHANGED <<texts, old, new, until>>

\* The old line comes later in the new text: what is before it was inserted.
LookAhead ==
  /\ Comparing /\ ~ Same
  /\ \E k \in Matches : /\ \A l \in Matches : k <= l
                        /\ until' = k
  /\ UNCHANGED <<texts, old, new, i, j, lines, oldLineNo, newLineNo, summary>>

\* The next line of the new text as an insertion.
Insert ==
  /\ lines' = Append(lines, Line("INSERT", new[j + 1], 0, newLineNo))
  /\ j' = j + 1
  /\ newLineNo' = newLineNo + 1
  /\ summary' = [summary EXCEPT !.additions = @ + 1]
  /\ UNCHANGED <<texts, old, new, i, until, oldLineNo>>

InsertAhead == Inserting /\ Room /\ Insert

DeleteNumberedNew ==
  /\ Comparing /\ ~ Same /\ Matches = {} /\ i < Len(old)
  /\ lines' = Append(lines, Line("DELETE", old[i + 1], newLineNo, 0))
  /\ i' = i + 1
  /\ oldLineNo' = oldLineNo + 1
  /\ summary' = [summary EXCEPT !.deletions = @ + 1]
  /\ UNCHANGED <<texts, old, new, j, until, newLineNo>>

\* The old line is not found: it was deleted.
Delete ==
  /\ Comparing /\ ~ Same /\ Matches = {} /\ i < Len(old)
  /\ lines' = Append(lines, Line("DELETE", old[i + 1], oldLineNo, 0))
  /\ i' = i + 1
  /\ oldLineNo' = oldLineNo + 1
  /\ summary' = [summary EXCEPT !.deletions = @ + 1]
  /\ UNCHANGED <<texts, old, new, j, until, newLineNo>>

\* The old text is used up.
InsertRest == Comparing /\ i >= Len(old) /\ Insert

DiffNext == Keep \/ LookAhead \/ InsertAhead \/ Delete \/ InsertRest

DiffSpec == DiffInit /\ [][DiffNext]_diffVars

----------------------------------------------------------------------------
DiffTyped ==
  /\ texts \in [old : OldTexts, new : NewTexts]
  /\ old \in Seq(Contents) /\ new \in Seq(Contents)
  /\ i \in 0 .. Len(old) /\ j \in 0 .. Len(new) /\ until \in 0 .. Len(new)
  /\ lines \in Seq([type : {"EQUAL", "INSERT", "DELETE"}, text : Contents,
                    old : Nat, new : Nat])
  /\ Len(lines) <= Capacity
  /\ oldLineNo \in Nat /\ newLineNo \in Nat
  /\ summary \in [additions : Nat, deletions : Nat, unchanged : Nat]

\* The lines of the diff that carry a number of one side are, in order, the
\* first n lines of that side's text.
Spells(No(_), text, n) ==
  /\ \A k \in DOMAIN lines :
       No(lines[k]) # 0 => No(lines[k]) \in 1 .. n /\ lines[k].text = text[No(lines[k])]
  /\ \A k, l \in DOMAIN lines :
       k < l /\ No(lines[k]) # 0 /\ No(lines[l]) # 0 => No(lines[k]) < No(lines[l])
  /\ \A m \in 1 .. n : \E k \in DOMAIN lines : No(lines[k]) = m

OldNo(line) == line.old
NewNo(line) == line.new

\* How many lines of a text the diff looks at.
LinesLookedAt(text) == IF Len(text) <= TableSize THEN Len(text) ELSE TableSize

\* The diff can be shown side by side: its old column is the old text and its
\* new column the new text, line by line and with the right numbers, however
\* the look ahead went.  A text of more than TableSize lines is cut there
\* without a sign, and a full buffer cuts both; what is shown is then their
\* beginnings, and nothing else is left out.  The three counts are those of
\* the lines shown.
DiffSpellsTexts ==
  /\ Spells(OldNo, texts.old, i)
  /\ Spells(NewNo, texts.new, j)
  /\ DiffDone /\ Room => i = LinesLookedAt(texts.old) /\ j = LinesLookedAt(texts.new)
  /\ summary.unchanged + summary.deletions = i
  /\ summary.unchanged + summary.additions = j
  /\ summary.additions + summary.deletions + summary.unchanged = Len(lines)

\* The new text is the old one with a block of n lines after line p.
BlockAdded(p, n) ==
  /\ Len(texts.new) = Len(texts.old) + n
  /\ SubSeq(texts.new, 1, p) = SubSeq(texts.old, 1, p)
  /\ SubSeq(texts.new, p + n + 1, Len(texts.new)) = SubSeq(texts.old, p + 1, Len(texts.old))

\* The look ahead is for inserted blocks: where the new text has no more lines
\* than the tables, a block of up to four lines, wherever it is and whichever
\* lines it repeats, is shown as that many insertions and nothing as deleted;
\* equal texts give no change at all.  (Of a longer text the block pushes lines
\* out of the table, and those are shown as deleted.)
InsertionsSeen ==
  DiffDone /\ Room /\ Len(texts.new) <= TableSize =>
    \A p \in 0 .. Len(texts.old), n \in 0 .. Ahead :
      BlockAdded(p, n) => summary.deletions = 0 /\ summary.additions = n

============================================================================

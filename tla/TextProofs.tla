----------------------------- MODULE TextProofs -----------------------------
(***************************************************************************)
(* What is made of texts, for all of them: the lines of a diff spell both  *)
(* texts and show inserted blocks; the lexer's tokens tile the code; the   *)
(* headers found in a response's head are those that were sent; a command  *)
(* is understood as it was sent.                                           *)
(***************************************************************************)
EXTENDS LineDiff, Scanners, CdpCommand, RawHeaders, DataLemmas

----------------------------------------------------------------------------
(* The line diff (diff_engine.h).                                          *)

DiffLine == [type : {"EQUAL", "INSERT", "DELETE"}, text : Contents, old : Nat, new : Nat]

TablesCut ==
  /\ texts \in [old : OldTexts, new : NewTexts]
  /\ old = SplitLines(texts.old) /\ new = SplitLines(texts.new)

\* The line numbers are those of the next lines, and the tables the beginnings
\* of the texts; with it the spelling and the counts are inductive.
DiffInv ==
  /\ DiffTyped
  /\ TablesCut
  /\ oldLineNo = i + 1 /\ newLineNo = j + 1
  /\ summary.unchanged + summary.deletions = i
  /\ summary.unchanged + summary.additions = j
  /\ summary.additions + summary.deletions + summary.unchanged = Len(lines)
  /\ Spells(OldNo, old, i)
  /\ Spells(NewNo, new, j)

\* What is read of a text after one more line of the diff, which is either
\* not about it or its next line.
LEMMA OneMoreOld ==
  ASSUME lines \in Seq(DiffLine), i \in Nat, Spells(OldNo, old, i),
         NEW entry \in DiffLine, lines' = Append(lines, entry), old' = old,
         \/ entry.old = 0 /\ i' = i
         \/ entry.old = i + 1 /\ i' = i + 1 /\ entry.text = old[i + 1]
  PROVE  Spells(OldNo, old, i)'
<1>1. /\ DOMAIN lines = 1 .. Len(lines) /\ Len(lines) \in Nat
      /\ DOMAIN lines' = 1 .. Len(lines) + 1
      /\ \A k \in 1 .. Len(lines) : lines'[k] = lines[k] /\ lines[k] \in DiffLine
      /\ lines'[Len(lines) + 1] = entry
  BY AppendProperties, ElementOfSeq
<1>2. ASSUME NEW k \in DOMAIN lines', lines'[k].old # 0
      PROVE  lines'[k].old \in 1 .. i' /\ lines'[k].text = old[lines'[k].old]
  <2>1. CASE k \in 1 .. Len(lines)
    <3>1. lines[k].old \in 1 .. i /\ lines[k].text = old[lines[k].old]
      BY <2>1, <1>2, <1>1 DEF Spells, OldNo
    <3> QED BY <3>1, <2>1, <1>1
  <2>2. CASE k = Len(lines) + 1
    BY <2>2, <1>2, <1>1
  <2> QED BY <2>1, <2>2, <1>1
<1>3. ASSUME NEW k \in DOMAIN lines', NEW l \in DOMAIN lines', k < l,
             lines'[k].old # 0, lines'[l].old # 0
      PROVE  lines'[k].old < lines'[l].old
  <2>1. k \in 1 .. Len(lines) /\ lines'[k] = lines[k]
    BY <1>1, <1>3
  <2>2. lines[k].old \in 1 .. i
    BY <2>1, <1>3, <1>1 DEF Spells, OldNo
  <2>3. CASE l \in 1 .. Len(lines)
    BY <2>3, <2>1, <1>3, <1>1 DEF Spells, OldNo
  <2>4. CASE l = Len(lines) + 1
    BY <2>4, <2>1, <2>2, <1>3, <1>1
  <2> QED BY <2>3, <2>4, <1>1
<1>4. ASSUME NEW m \in 1 .. i'
      PROVE  \E k \in DOMAIN lines' : lines'[k].old = m
  <2>1. CASE m \in 1 .. i
    <3>1. PICK k \in DOMAIN lines : lines[k].old = m
      BY <2>1 DEF Spells, OldNo
    <3> QED BY <3>1, <1>1
  <2>2. CASE m = i + 1 /\ i' = i + 1
    BY <2>2, <1>1
  <2> QED BY <2>1, <2>2
<1> QED BY <1>2, <1>3, <1>4 DEF Spells, OldNo

LEMMA OneMoreNew ==
  ASSUME lines \in Seq(DiffLine), j \in Nat, Spells(NewNo, new, j),
         NEW entry \in DiffLine, lines' = Append(lines, entry), new' = new,
         \/ entry.new = 0 /\ j' = j
         \/ entry.new = j + 1 /\ j' = j + 1 /\ entry.text = new[j + 1]
  PROVE  Spells(NewNo, new, j)'
<1>1. /\ DOMAIN lines = 1 .. Len(lines) /\ Len(lines) \in Nat
      /\ DOMAIN lines' = 1 .. Len(lines) + 1
      /\ \A k \in 1 .. Len(lines) : lines'[k] = lines[k] /\ lines[k] \in DiffLine
      /\ lines'[Len(lines) + 1] = entry
  BY AppendProperties, ElementOfSeq
<1>2. ASSUME NEW k \in DOMAIN lines', lines'[k].new # 0
      PROVE  lines'[k].new \in 1 .. j' /\ lines'[k].text = new[lines'[k].new]
  <2>1. CASE k \in 1 .. Len(lines)
    <3>1. lines[k].new \in 1 .. j /\ lines[k].text = new[lines[k].new]
      BY <2>1, <1>2, <1>1 DEF Spells, NewNo
    <3> QED BY <3>1, <2>1, <1>1
  <2>2. CASE k = Len(lines) + 1
    BY <2>2, <1>2, <1>1
  <2> QED BY <2>1, <2>2, <1>1
<1>3. ASSUME NEW k \in DOMAIN lines', NEW l \in DOMAIN lines', k < l,
             lines'[k].new # 0, lines'[l].new # 0
      PROVE  lines'[k].new < lines'[l].new
  <2>1. k \in 1 .. Len(lines) /\ lines'[k] = lines[k]
    BY <1>1, <1>3
  <2>2. lines[k].new \in 1 .. j
    BY <2>1, <1>3, <1>1 DEF Spells, NewNo
  <2>3. CASE l \in 1 .. Len(lines)
    BY <2>3, <2>1, <1>3, <1>1 DEF Spells, NewNo
  <2>4. CASE l = Len(lines) + 1
    BY <2>4, <2>1, <2>2, <1>3, <1>1
  <2> QED BY <2>3, <2>4, <1>1
<1>4. ASSUME NEW m \in 1 .. j'
      PROVE  \E k \in DOMAIN lines' : lines'[k].new = m
  <2>1. CASE m \in 1 .. j
    <3>1. PICK k \in DOMAIN lines : lines[k].new = m
      BY <2>1 DEF Spells, NewNo
    <3> QED BY <3>1, <1>1
  <2>2. CASE m = j + 1 /\ j' = j + 1
    BY <2>2, <1>1
  <2> QED BY <2>1, <2>2
<1> QED BY <1>2, <1>3, <1>4 DEF Spells, NewNo

LEMMA DiffInitInv == DiffInit => DiffInv
<1> SUFFICES ASSUME DiffInit PROVE DiffInv
  OBVIOUS
<1>1. old \in Seq(Contents) /\ new \in Seq(Contents)
  <2>1. ASSUME NEW text \in OldTexts \union NewTexts
        PROVE  SplitLines(text) \in Seq(Contents)
    <3>1. text \in Seq(Contents) /\ Len(text) \in Nat /\ TableSize \in Nat
      BY LineDiffAssumption
    <3>2. ASSUME NEW n \in 0 .. Len(text) PROVE SubSeq(text, 1, n) \in Seq(Contents)
      BY <3>1, SubSeqProperties
    <3> QED BY <3>1, <3>2 DEF SplitLines
  <2> QED BY <2>1 DEF DiffInit
<1>2. DiffTyped
  BY <1>1, LineDiffAssumption DEF DiffInit, DiffTyped
<1>3. TablesCut
  BY DEF DiffInit, TablesCut
<1> QED BY <1>2, <1>3 DEF DiffInit, DiffInv, Spells, OldNo, NewNo

LEMMA TablesStay ==
  ASSUME DiffInv, UNCHANGED <<texts, old, new>>
  PROVE  TablesCut'
BY DEF DiffInv, TablesCut

\* A turn that adds a line.
LEMMA AddedLine ==
  ASSUME DiffInv, NEW entry \in DiffLine, Room, lines' = Append(lines, entry),
         UNCHANGED <<old, new>>
  PROVE  /\ lines' \in Seq(DiffLine) /\ Len(lines') = Len(lines) + 1
         /\ Len(lines') <= Capacity
  BY LineDiffAssumption, AppendProperties DEF DiffInv, DiffTyped, Room, DiffLine

LEMMA KeepInv == DiffInv /\ Keep => DiffInv'
<1> SUFFICES ASSUME DiffInv, Keep PROVE DiffInv'
  OBVIOUS
<1>1. i \in Nat /\ j \in Nat /\ i < Len(old) /\ j < Len(new) /\ lines \in Seq(DiffLine)
  BY DEF DiffInv, DiffTyped, Keep, Same, DiffLine
<1> DEFINE entry == Line("EQUAL", old[i + 1], oldLineNo, newLineNo)
<1>2. entry \in DiffLine /\ entry.old = i + 1 /\ entry.new = j + 1
      /\ entry.text = old[i + 1] /\ entry.text = new[j + 1]
  <2>1. /\ oldLineNo = i + 1 /\ newLineNo = j + 1
        /\ old[i + 1] \in Contents /\ old[i + 1] = new[j + 1]
    <3>1. oldLineNo = i + 1 /\ newLineNo = j + 1 /\ old \in Seq(Contents)
      BY DEF DiffInv, DiffTyped
    <3>2. old[i + 1] = new[j + 1]
      BY DEF Keep, Same
    <3>3. i + 1 \in 1 .. Len(old)
      BY <1>1, <3>1
    <3> QED BY <3>1, <3>2, <3>3, ElementOfSeq
  <2> QED BY <1>1, <2>1 DEF Line, DiffLine
<1>3. /\ lines' = Append(lines, entry) /\ old' = old /\ new' = new /\ until' = until
      /\ i' = i + 1 /\ j' = j + 1
      /\ oldLineNo' = oldLineNo + 1 /\ newLineNo' = newLineNo + 1
      /\ Room
  BY DEF Keep, Comparing
<1>4. lines' \in Seq(DiffLine) /\ Len(lines') = Len(lines) + 1 /\ Len(lines') <= Capacity
  BY <1>2, <1>3, AddedLine
<1>5. Spells(OldNo, old, i)' /\ Spells(NewNo, new, j)'
  BY <1>1, <1>2, <1>3, OneMoreOld, OneMoreNew DEF DiffInv
<1>6. /\ summary' \in [additions : Nat, deletions : Nat, unchanged : Nat]
      /\ summary'.unchanged = summary.unchanged + 1
      /\ summary'.additions = summary.additions
      /\ summary'.deletions = summary.deletions
  <2>1. summary \in [additions : Nat, deletions : Nat, unchanged : Nat]
    BY DEF DiffInv, DiffTyped
  <2> QED BY <2>1 DEF Keep
<1>9. TablesCut'
  BY TablesStay DEF Keep
<1>7. DiffTyped'
  <2>1. /\ oldLineNo' \in Nat /\ newLineNo' \in Nat
        /\ i' \in 0 .. Len(old') /\ j' \in 0 .. Len(new') /\ until' \in 0 .. Len(new')
        /\ old' \in Seq(Contents) /\ new' \in Seq(Contents)
    BY <1>1, <1>3 DEF DiffInv, DiffTyped
  <2> QED BY <1>4, <1>6, <1>9, <2>1 DEF DiffTyped, DiffLine, TablesCut
<1>8. /\ oldLineNo' = i' + 1 /\ newLineNo' = j' + 1
      /\ summary'.unchanged + summary'.deletions = i'
      /\ summary'.unchanged + summary'.additions = j'
      /\ summary'.additions + summary'.deletions + summary'.unchanged = Len(lines')
  <2>1. PICK a \in Nat, d \in Nat, u \in Nat :
          a = summary.additions /\ d = summary.deletions /\ u = summary.unchanged
    BY DEF DiffInv, DiffTyped
  <2>2. /\ oldLineNo = i + 1 /\ newLineNo = j + 1 /\ Len(lines) \in Nat
        /\ u + d = i /\ u + a = j /\ a + d + u = Len(lines)
    BY <1>1, <2>1 DEF DiffInv
  <2>3. /\ summary'.additions = a /\ summary'.deletions = d
        /\ summary'.unchanged = u + 1 /\ Len(lines') = Len(lines) + 1
    BY <1>4, <1>6, <2>1
  <2> QED BY <1>1, <1>3, <2>2, <2>3
<1> QED BY <1>5, <1>7, <1>8, <1>9 DEF DiffInv

LEMMA LookAheadInv == DiffInv /\ LookAhead => DiffInv'
<1> SUFFICES ASSUME DiffInv, LookAhead PROVE DiffInv'
  OBVIOUS
<1>1. until' \in 0 .. Len(new)
  BY DEF DiffInv, DiffTyped, LookAhead, Matches, Ahead
<1>2. TablesCut'
  BY TablesStay DEF LookAhead
<1> QED BY <1>1, <1>2 DEF DiffInv, DiffTyped, LookAhead, Spells, OldNo, NewNo

\* Both actions that insert: j is not yet the end of the new text.
LEMMA InsertInv == DiffInv /\ Room /\ j < Len(new) /\ Insert => DiffInv'
<1> SUFFICES ASSUME DiffInv, Room, j < Len(new), Insert PROVE DiffInv'
  OBVIOUS
<1>1. i \in Nat /\ j \in Nat /\ lines \in Seq(DiffLine)
  BY DEF DiffInv, DiffTyped, DiffLine
<1> DEFINE entry == Line("INSERT", new[j + 1], 0, newLineNo)
<1>2. entry \in DiffLine /\ entry.old = 0 /\ entry.new = j + 1 /\ entry.text = new[j + 1]
  BY <1>1, ElementOfSeq DEF DiffInv, DiffTyped, Line, DiffLine
<1>3. /\ lines' = Append(lines, entry) /\ old' = old /\ new' = new /\ until' = until
      /\ i' = i /\ j' = j + 1
      /\ oldLineNo' = oldLineNo /\ newLineNo' = newLineNo + 1
  BY DEF Insert
<1>4. lines' \in Seq(DiffLine) /\ Len(lines') = Len(lines) + 1 /\ Len(lines') <= Capacity
  BY <1>2, <1>3, AddedLine
<1>5. Spells(OldNo, old, i)' /\ Spells(NewNo, new, j)'
  BY <1>1, <1>2, <1>3, OneMoreOld, OneMoreNew DEF DiffInv
<1>6. /\ summary' \in [additions : Nat, deletions : Nat, unchanged : Nat]
      /\ summary'.unchanged = summary.unchanged
      /\ summary'.additions = summary.additions + 1
      /\ summary'.deletions = summary.deletions
  <2>1. summary \in [additions : Nat, deletions : Nat, unchanged : Nat]
    BY DEF DiffInv, DiffTyped
  <2> QED BY <2>1 DEF Insert
<1>9. TablesCut'
  BY TablesStay DEF Insert
<1>7. DiffTyped'
  <2>1. /\ oldLineNo' \in Nat /\ newLineNo' \in Nat
        /\ i' \in 0 .. Len(old') /\ j' \in 0 .. Len(new') /\ until' \in 0 .. Len(new')
        /\ old' \in Seq(Contents) /\ new' \in Seq(Contents)
    BY <1>1, <1>3 DEF DiffInv, DiffTyped
  <2> QED BY <1>4, <1>6, <1>9, <2>1 DEF DiffTyped, DiffLine, TablesCut
<1>8. /\ oldLineNo' = i' + 1 /\ newLineNo' = j' + 1
      /\ summary'.unchanged + summary'.deletions = i'
      /\ summary'.unchanged + summary'.additions = j'
      /\ summary'.additions + summary'.deletions + summary'.unchanged = Len(lines')
  <2>1. PICK a \in Nat, d \in Nat, u \in Nat :
          a = summary.additions /\ d = summary.deletions /\ u = summary.unchanged
    BY DEF DiffInv, DiffTyped
  <2>2. /\ oldLineNo = i + 1 /\ newLineNo = j + 1 /\ Len(lines) \in Nat
        /\ u + d = i /\ u + a = j /\ a + d + u = Len(lines)
    BY <1>1, <2>1 DEF DiffInv
  <2>3. /\ summary'.additions = a + 1 /\ summary'.deletions = d
        /\ summary'.unchanged = u /\ Len(lines') = Len(lines) + 1
    BY <1>4, <1>6, <2>1
  <2> QED BY <1>1, <1>3, <2>2, <2>3
<1> QED BY <1>5, <1>7, <1>8, <1>9 DEF DiffInv

LEMMA DeleteInv == DiffInv /\ Delete => DiffInv'
<1> SUFFICES ASSUME DiffInv, Delete PROVE DiffInv'
  OBVIOUS
<1>1. i \in Nat /\ j \in Nat /\ i < Len(old) /\ lines \in Seq(DiffLine)
  BY DEF DiffInv, DiffTyped, Delete, DiffLine
<1> DEFINE entry == Line("DELETE", old[i + 1], oldLineNo, 0)
<1>2. entry \in DiffLine /\ entry.old = i + 1 /\ entry.new = 0 /\ entry.text = old[i + 1]
  BY <1>1, ElementOfSeq DEF DiffInv, DiffTyped, Line, DiffLine
<1>3. /\ lines' = Append(lines, entry) /\ old' = old /\ new' = new /\ until' = until
      /\ i' = i + 1 /\ j' = j
      /\ oldLineNo' = oldLineNo + 1 /\ newLineNo' = newLineNo
      /\ Room
  BY DEF Delete, Comparing
<1>4. lines' \in Seq(DiffLine) /\ Len(lines') = Len(lines) + 1 /\ Len(lines') <= Capacity
  BY <1>2, <1>3, AddedLine
<1>5. Spells(OldNo, old, i)' /\ Spells(NewNo, new, j)'
  BY <1>1, <1>2, <1>3, OneMoreOld, OneMoreNew DEF DiffInv
<1>6. /\ summary' \in [additions : Nat, deletions : Nat, unchanged : Nat]
      /\ summary'.unchanged = summary.unchanged
      /\ summary'.additions = summary.additions
      /\ summary'.deletions = summary.deletions + 1
  <2>1. summary \in [additions : Nat, deletions : Nat, unchanged : Nat]
    BY DEF DiffInv, DiffTyped
  <2> QED BY <2>1 DEF Delete
<1>9. TablesCut'
  BY TablesStay DEF Delete
<1>7. DiffTyped'
  <2>1. /\ oldLineNo' \in Nat /\ newLineNo' \in Nat
        /\ i' \in 0 .. Len(old') /\ j' \in 0 .. Len(new') /\ until' \in 0 .. Len(new')
        /\ old' \in Seq(Contents) /\ new' \in Seq(Contents)
    BY <1>1, <1>3 DEF DiffInv, DiffTyped
  <2> QED BY <1>4, <1>6, <1>9, <2>1 DEF DiffTyped, DiffLine, TablesCut
<1>8. /\ oldLineNo' = i' + 1 /\ newLineNo' = j' + 1
      /\ summary'.unchanged + summary'.deletions = i'
      /\ summary'.unchanged + summary'.additions = j'
      /\ summary'.additions + summary'.deletions + summary'.unchanged = Len(lines')
  <2>1. PICK a \in Nat, d \in Nat, u \in Nat :
          a = summary.additions /\ d = summary.deletions /\ u = summary.unchanged
    BY DEF DiffInv, DiffTyped
  <2>2. /\ oldLineNo = i + 1 /\ newLineNo = j + 1 /\ Len(lines) \in Nat
        /\ u + d = i /\ u + a = j /\ a + d + u = Len(lines)
    BY <1>1, <2>1 DEF DiffInv
  <2>3. /\ summary'.additions = a /\ summary'.deletions = d + 1
        /\ summary'.unchanged = u /\ Len(lines') = Len(lines) + 1
    BY <1>4, <1>6, <2>1
  <2> QED BY <1>1, <1>3, <2>2, <2>3
<1> QED BY <1>5, <1>7, <1>8, <1>9 DEF DiffInv

LEMMA DiffNextInv == DiffInv /\ [DiffNext]_diffVars => DiffInv'
<1> SUFFICES ASSUME DiffInv, [DiffNext]_diffVars PROVE DiffInv'
  OBVIOUS
<1>1. CASE Keep
  BY <1>1, KeepInv
<1>2. CASE LookAhead
  BY <1>2, LookAheadInv
<1>3. CASE InsertAhead
  BY <1>3, InsertInv DEF InsertAhead, Inserting, DiffInv, DiffTyped
<1>4. CASE Delete
  BY <1>4, DeleteInv
<1>5. CASE InsertRest
  BY <1>5, InsertInv DEF InsertRest, Comparing, DiffInv, DiffTyped
<1>6. CASE UNCHANGED diffVars
  BY <1>6, TablesStay DEF diffVars, DiffInv, DiffTyped, Spells, OldNo, NewNo
<1> QED BY <1>1, <1>2, <1>3, <1>4, <1>5, <1>6 DEF DiffNext

LEMMA Invariant == DiffSpec => []DiffInv
BY DiffInitInv, DiffNextInv, PTL DEF DiffSpec

\* The diff stays within its buffer and its indices within the texts.
THEOREM DiffTypeOK == DiffSpec => []DiffTyped
<1>1. DiffInv => DiffTyped
  BY DEF DiffInv
<1> QED BY Invariant, <1>1, PTL

\* The table of a text is its first lines.
LEMMA TableIs ==
  ASSUME NEW text \in OldTexts \union NewTexts
  PROVE  /\ text \in Seq(Contents) /\ Len(text) \in Nat
         /\ Len(SplitLines(text)) = LinesLookedAt(text)
         /\ \A k \in 1 .. Len(SplitLines(text)) : k \in 1 .. Len(text) /\ SplitLines(text)[k] = text[k]
         /\ Len(text) <= TableSize => SplitLines(text) = text
<1> DEFINE n == LinesLookedAt(text)
           cut == IF Len(text) < TableSize THEN Len(text) ELSE TableSize
<1>1. text \in Seq(Contents) /\ Len(text) \in Nat /\ TableSize \in Nat
  BY LineDiffAssumption
<1>2. n = cut /\ n \in 0 .. Len(text) /\ (Len(text) <= TableSize => n = Len(text))
  BY <1>1 DEF LinesLookedAt
<1>3. SplitLines(text) = SubSeq(text, 1, n)
  BY <1>2 DEF SplitLines
<1> HIDE DEF n, cut
<1>4. /\ 0 \in Nat /\ n \in Nat /\ n <= Len(text) /\ 0 + 1 = 1 /\ n - 0 = n
      /\ \A k \in 1 .. n : 0 + k = k /\ k \in 1 .. Len(text)
  BY <1>1, <1>2
<1>5. SubSeq(text, 1, n) \in Seq(Contents) /\ Len(SubSeq(text, 1, n)) = n
  BY <1>1, <1>2, SubSeqProperties
<1>6. \A k \in 1 .. n : SubSeq(text, 1, n)[k] = text[k]
  <2>1. \A k \in 1 .. n - 0 : SubSeq(text, 0 + 1, n)[k] = text[0 + k]
    BY ONLY <1>1, <1>4, StretchAt
  <2> QED BY <2>1, <1>4
<1>7. ASSUME Len(text) <= TableSize PROVE SubSeq(text, 1, n) = text
  <2>1. n = Len(text)
    BY <1>2, <1>7
  <2> QED BY <2>1, <1>1, <1>5, <1>6, SeqEqual
<1> QED BY <1>1, <1>3, <1>4, <1>5, <1>6, <1>7 DEF n

\* Whatever the texts, the columns of the diff are the texts, with the right
\* numbers and counts, and only a table or a buffer that is full cuts it short.
THEOREM DiffIsBothTexts == DiffSpec => []DiffSpellsTexts
<1>1. DiffInv => DiffSpellsTexts
  <2> SUFFICES ASSUME DiffInv PROVE DiffSpellsTexts
    OBVIOUS
  <2>1. DiffDone /\ Room => i = Len(old) /\ j = Len(new)
    BY DEF DiffInv, DiffTyped, DiffDone, Comparing, Inserting, Room
  <2>2. texts.old \in OldTexts /\ texts.new \in NewTexts /\ i \in 0 .. Len(old) /\ j \in 0 .. Len(new)
    BY DEF DiffInv, DiffTyped
  <2>3. /\ Len(old) = LinesLookedAt(texts.old) /\ Len(new) = LinesLookedAt(texts.new)
        /\ \A k \in 1 .. Len(old) : old[k] = texts.old[k]
        /\ \A k \in 1 .. Len(new) : new[k] = texts.new[k]
    BY <2>2, TableIs DEF DiffInv, TablesCut
  <2>4. Len(old) \in Nat /\ Len(new) \in Nat
    BY DEF DiffInv, DiffTyped
  <2>5. (\A m \in 1 .. i : m \in 1 .. Len(old)) /\ (\A m \in 1 .. j : m \in 1 .. Len(new))
    BY <2>2, <2>4
  <2>6. Spells(OldNo, old, i) => Spells(OldNo, texts.old, i)
    BY <2>3, <2>5 DEF Spells, OldNo
  <2>7. Spells(NewNo, new, j) => Spells(NewNo, texts.new, j)
    BY <2>3, <2>5 DEF Spells, NewNo
  <2> QED BY <2>1, <2>3, <2>6, <2>7 DEF DiffInv, DiffSpellsTexts
<1> QED BY Invariant, <1>1, PTL

----------------------------------------------------------------------------
(* Inserted blocks.                                                        *)

\* BlockAdded, of the tables.
BlockInTables(p, n) ==
  /\ Len(new) = Len(old) + n
  /\ SubSeq(new, 1, p) = SubSeq(old, 1, p)
  /\ SubSeq(new, p + n + 1, Len(new)) = SubSeq(old, p + 1, Len(old))

\* On the way through a text with n lines inserted after line p, nothing is
\* deleted, the new text is never more than n lines ahead, and up to line p it
\* is not ahead at all.
OnTheWay(p, n) ==
  /\ summary.deletions = 0
  /\ i <= j /\ j <= i + n /\ until <= i + n
  /\ i < p => i = j /\ until <= j

SeenInv == \A p \in 0 .. Len(old), n \in 0 .. Ahead : BlockInTables(p, n) => OnTheWay(p, n)

\* Where the lines of the old text are in the new one.
LEMMA BlockLines ==
  ASSUME DiffTyped, NEW p \in 0 .. Len(old), NEW n \in 0 .. Ahead, BlockInTables(p, n)
  PROVE  /\ Len(new) = Len(old) + n
         /\ \A k \in 1 .. p : new[k] = old[k]
         /\ \A k \in p + 1 .. Len(old) : new[k + n] = old[k]
<1>1. /\ old \in Seq(Contents) /\ new \in Seq(Contents) /\ Len(old) \in Nat
      /\ Len(new) = Len(old) + n /\ n \in Nat /\ p \in Nat /\ p <= Len(old)
  BY DEF DiffTyped, BlockInTables, Ahead
<1>2. ASSUME NEW k \in 1 .. p PROVE new[k] = old[k]
  <2>1. /\ 0 \in Nat /\ p \in Nat /\ p <= Len(new) /\ p <= Len(old) /\ k \in 1 .. p - 0
        /\ 0 + 1 = 1 /\ 0 + k = k
    BY <1>1
  <2>2. SubSeq(new, 0 + 1, p)[k] = new[0 + k]
    BY ONLY <1>1, <2>1, StretchAt
  <2>3. SubSeq(old, 0 + 1, p)[k] = old[0 + k]
    BY ONLY <1>1, <2>1, StretchAt
  <2> QED BY <2>1, <2>2, <2>3 DEF BlockInTables
<1>3. ASSUME NEW k \in p + 1 .. Len(old) PROVE new[k + n] = old[k]
  <2>1. /\ p + n \in Nat /\ p \in Nat /\ Len(new) \in Nat /\ Len(old) \in Nat
        /\ Len(new) <= Len(new) /\ Len(old) <= Len(old)
        /\ k - p \in 1 .. Len(new) - (p + n) /\ k - p \in 1 .. Len(old) - p
        /\ p + n + (k - p) = k + n /\ p + (k - p) = k
    BY <1>1
  <2>2. \A d \in 1 .. Len(new) - (p + n) : SubSeq(new, p + n + 1, Len(new))[d] = new[p + n + d]
    BY ONLY <1>1, <2>1, StretchAt
  <2>3. \A d \in 1 .. Len(old) - p : SubSeq(old, p + 1, Len(old))[d] = old[p + d]
    BY ONLY <1>1, <2>1, StretchAt
  <2>4. /\ SubSeq(new, p + n + 1, Len(new))[k - p] = new[k + n]
        /\ SubSeq(old, p + 1, Len(old))[k - p] = old[k]
    BY ONLY <2>1, <2>2, <2>3
  <2> QED BY <2>4 DEF BlockInTables
<1> QED BY <1>1, <1>2, <1>3

\* What the current lines are then: before the block the same, behind it a
\* match as far ahead as the block is still long.
LEMMA BlockAhead ==
  ASSUME DiffInv, NEW p \in 0 .. Len(old), NEW n \in 0 .. Ahead,
         BlockInTables(p, n), OnTheWay(p, n), i < Len(old)
  PROVE  /\ j <= i + n /\ i + n < Len(new)
         /\ i < p => Same
         /\ p <= i => Same \/ i + n \in Matches
<1>1. /\ i \in Nat /\ j \in Nat /\ n \in Nat /\ p \in Nat /\ Len(old) \in Nat /\ n <= 4
      /\ Len(new) = Len(old) + n /\ i <= j /\ j <= i + n
  <2>1. DiffTyped
    BY DEF DiffInv
  <2>2. Len(new) = Len(old) + n
    BY <2>1, BlockLines
  <2>3. /\ i \in Nat /\ j \in Nat /\ Len(old) \in Nat /\ n \in Nat /\ n <= 4 /\ p \in Nat
    BY <2>1 DEF DiffTyped, Ahead
  <2> QED BY <2>2, <2>3 DEF OnTheWay
<1>2. CASE i < p
  <2>1. i = j /\ i + 1 \in 1 .. p
    BY <1>1, <1>2 DEF OnTheWay
  <2>2. new[i + 1] = old[i + 1]
    BY <2>1, BlockLines DEF DiffInv
  <2> QED BY <1>1, <1>2, <2>1, <2>2 DEF Same
<1>3. CASE p <= i
  <2>1. i + 1 \in p + 1 .. Len(old)
    BY <1>1, <1>3
  <2>2. new[(i + 1) + n] = old[i + 1]
    BY <2>1, BlockLines DEF DiffInv
  <2>3. (i + 1) + n = (i + n) + 1
    BY <1>1
  <2>4. CASE j = i + n
    BY <2>2, <2>3, <2>4, <1>1, <1>3 DEF Same
  <2>5. CASE j < i + n
    BY <2>2, <2>3, <2>5, <1>1, <1>3 DEF Matches, Ahead
  <2> QED BY <2>4, <2>5, <1>1, <1>3
<1> QED BY <1>1, <1>2, <1>3

LEMMA SeenNext == DiffInv /\ SeenInv /\ [DiffNext]_diffVars => SeenInv'
<1> SUFFICES ASSUME DiffInv, SeenInv, [DiffNext]_diffVars,
                    NEW p \in 0 .. Len(old'), NEW n \in 0 .. Ahead, BlockInTables(p, n)'
             PROVE  OnTheWay(p, n)'
  BY DEF SeenInv
<1>1. old' = old /\ new' = new
  BY DEF DiffNext, diffVars, Keep, LookAhead, InsertAhead, Delete, InsertRest, Insert
<1>2. /\ p \in 0 .. Len(old) /\ BlockInTables(p, n) /\ OnTheWay(p, n)
  BY <1>1 DEF BlockInTables, SeenInv
<1>3. /\ i \in Nat /\ j \in Nat /\ until \in Nat /\ n \in Nat /\ p \in Nat /\ p <= Len(old)
      /\ Len(old) \in Nat /\ i <= Len(old) /\ Len(new) = Len(old) + n /\ j <= Len(new)
      /\ summary \in [additions : Nat, deletions : Nat, unchanged : Nat]
  <2>1. /\ i \in Nat /\ j \in Nat /\ until \in Nat /\ n \in Nat
        /\ summary \in [additions : Nat, deletions : Nat, unchanged : Nat]
        /\ i \in 0 .. Len(old) /\ j \in 0 .. Len(new)
    BY DEF DiffInv, DiffTyped, Ahead
  <2>2. Len(new) = Len(old) + n /\ Len(old) \in Nat
    BY <1>2, BlockLines DEF DiffInv, DiffTyped
  <2> QED BY ONLY <2>1, <2>2, <1>2
<1>4. /\ summary.deletions = 0 /\ i <= j /\ j <= i + n /\ until <= i + n
      /\ i < p => i = j /\ until <= j
  BY <1>2 DEF OnTheWay
<1>5. CASE Keep
  <2>1. /\ i' = i + 1 /\ j' = j + 1 /\ until' = until /\ summary'.deletions = 0
    BY <1>5, <1>3, <1>4 DEF Keep
  <2> QED BY <2>1, <1>3, <1>4 DEF OnTheWay
<1>6. CASE LookAhead
  <2>1. PICK k \in Matches : (\A l \in Matches : k <= l) /\ until' = k
    BY <1>6 DEF LookAhead
  <2>2. i < Len(old) /\ ~ Same /\ k \in Nat
    BY <1>6, <2>1, <1>3 DEF LookAhead, Matches, Ahead
  <2>3. p <= i /\ i + n \in Matches
    BY <2>2, <1>2, <1>3, BlockAhead
  <2>4. k <= i + n
    BY <2>1, <2>3
  <2>5. i' = i /\ j' = j /\ summary' = summary
    BY <1>6 DEF LookAhead
  <2> QED BY <2>1, <2>2, <2>3, <2>4, <2>5, <1>3, <1>4 DEF OnTheWay
<1>7. CASE InsertAhead
  <2>1. i' = i /\ j' = j + 1 /\ until' = until /\ summary'.deletions = 0 /\ j < until
    BY <1>7, <1>3, <1>4 DEF InsertAhead, Insert, Inserting
  <2> QED BY <2>1, <1>3, <1>4 DEF OnTheWay
<1>8. CASE Delete
  <2>1. i < Len(old) /\ ~ Same /\ Matches = {}
    BY <1>8 DEF Delete
  <2>2. i < p \/ p <= i
    BY <1>3
  <2> QED BY <2>1, <2>2, <1>2, BlockAhead
<1>9. CASE InsertRest
  <2>1. /\ i' = i /\ j' = j + 1 /\ until' = until /\ summary'.deletions = 0
        /\ i = Len(old) /\ j < Len(new)
    BY <1>9, <1>3, <1>4 DEF InsertRest, Insert, Comparing
  <2> QED BY <2>1, <1>3, <1>4 DEF OnTheWay
<1>10. CASE UNCHANGED diffVars
  BY <1>10, <1>2 DEF diffVars, OnTheWay
<1> QED BY <1>5, <1>6, <1>7, <1>8, <1>9, <1>10 DEF DiffNext

\* A block of up to four inserted lines is shown as just that, in texts of any
\* length that fits the tables, wherever the block is and whatever lines it
\* repeats.
THEOREM BlocksAreSeen == DiffSpec => []InsertionsSeen
<1>1. DiffInit => SeenInv
  BY DEF DiffInit, SeenInv, OnTheWay, Ahead
<1>2. DiffInv /\ SeenInv => InsertionsSeen
  <2> SUFFICES ASSUME DiffInv, SeenInv, DiffDone, Room, Len(texts.new) <= TableSize,
                      NEW p \in 0 .. Len(texts.old), NEW n \in 0 .. Ahead, BlockAdded(p, n)
               PROVE  summary.deletions = 0 /\ summary.additions = n
    BY DEF InsertionsSeen
  <2>5. old = texts.old /\ new = texts.new
    <3>1. texts.old \in OldTexts /\ texts.new \in NewTexts
      BY DEF DiffInv, DiffTyped
    <3>2. Len(texts.old) \in Nat /\ Len(texts.new) \in Nat /\ TableSize \in Nat
      BY <3>1, TableIs, LineDiffAssumption
    <3>3. Len(texts.new) = Len(texts.old) + n /\ n \in Nat
      BY DEF BlockAdded, Ahead
    <3>4. Len(texts.old) <= TableSize
      BY <3>2, <3>3
    <3> QED BY <3>1, <3>4, TableIs DEF DiffInv, TablesCut
  <2>6. p \in 0 .. Len(old) /\ BlockInTables(p, n)
    BY <2>5 DEF BlockAdded, BlockInTables
  <2>1. summary.deletions = 0
    BY <2>6 DEF SeenInv, OnTheWay
  <2>2. /\ i = Len(old) /\ j = Len(new) /\ Len(new) = Len(old) + n /\ n \in Nat
        /\ i \in Nat /\ summary \in [additions : Nat, deletions : Nat, unchanged : Nat]
    BY <2>6, BlockLines DEF DiffInv, DiffTyped, DiffDone, Comparing, Inserting, Room, Ahead
  <2>3. summary.unchanged + summary.deletions = i /\ summary.unchanged + summary.additions = j
    BY DEF DiffInv
  <2>4. PICK a \in Nat, u \in Nat : a = summary.additions /\ u = summary.unchanged
    BY <2>2
  <2> QED BY <2>1, <2>2, <2>3, <2>4
<1> QED BY Invariant, <1>1, SeenNext, <1>2, PTL DEF DiffSpec

----------------------------------------------------------------------------
(* The lexer (js_lexer.h).                                                 *)

LEMMA MaxOf ==
  ASSUME NEW n \in Nat, NEW S \in SUBSET (0 .. n), S # {}
  PROVE  Max(S) \in S /\ Max(S) \in Int /\ \A m \in S : m <= Max(S)
<1>1. \E x \in S : \A m \in S : x >= m
  <2>1. PICK x \in S : \A m \in S : m <= x
    BY GreatestOf
  <2>2. \A m \in S : x >= m
    <3>1. \A m \in S : m \in Int
      OBVIOUS
    <3> QED BY <2>1, <3>1
  <2> QED BY <2>2
<1>2. Max(S) \in S /\ \A m \in S : Max(S) >= m
  BY <1>1 DEF Max
<1>3. \A m \in S : m \in Int
  OBVIOUS
<1> HIDE DEF Max
<1> QED BY <1>2, <1>3

LineAt(n) == 1 + Cardinality(LinesBefore(n))
ColumnAt(n) == IF LinesBefore(n) = {} THEN n + 1 ELSE n - Max(LinesBefore(n))
FeedsIn(n, end) == {m \in n .. end - 1 : Char(m) = Newline}

\* Lines and columns from one place to a later one: what Emit adds up.
LEMMA Onward ==
  ASSUME NEW n \in Nat, NEW end \in Nat, n <= end
  PROVE  /\ LineAt(n) \in Nat /\ ColumnAt(n) \in Int
         /\ LineAt(end) = LineAt(n) + Cardinality(FeedsIn(n, end))
         /\ FeedsIn(n, end) = {} => ColumnAt(end) = ColumnAt(n) + (end - n)
         /\ FeedsIn(n, end) # {} => ColumnAt(end) = end - Max(FeedsIn(n, end))
<1> DEFINE feeds == FeedsIn(n, end)
           before == LinesBefore(n)
           all == LinesBefore(end)
<1>1. /\ before \subseteq 0 .. n - 1 /\ feeds \subseteq n .. end - 1
      /\ all = before \union feeds /\ before \intersect feeds = {}
      /\ before \subseteq 0 .. n /\ feeds \subseteq 0 .. end /\ all \subseteq 0 .. end
  BY DEF LinesBefore, FeedsIn
<1>2. IsFiniteSet(before) /\ IsFiniteSet(feeds)
  <2>1. IsFiniteSet(0 .. n) /\ IsFiniteSet(0 .. end)
    BY FS_Interval
  <2> QED BY <2>1, <1>1, FS_Subset
<1>3. Cardinality(before) \in Nat /\ Cardinality(feeds) \in Nat
  BY <1>2, FS_CardinalityType
<1> HIDE DEF feeds, before, all
<1>4. Cardinality(all) = Cardinality(before) + Cardinality(feeds)
  <2>1. Cardinality(before \intersect feeds) = 0
    BY <1>1, FS_EmptySet
  <2>2. Cardinality(before \union feeds)
          = Cardinality(before) + Cardinality(feeds) - Cardinality(before \intersect feeds)
    BY <1>2, FS_Union
  <2> QED BY <2>1, <2>2, <1>1, <1>3
<1>5. /\ before # {} => Max(before) \in before /\ Max(before) \in Int /\ \A m \in before : m <= Max(before)
      /\ feeds # {} => Max(feeds) \in feeds /\ Max(feeds) \in Int /\ \A m \in feeds : m <= Max(feeds)
      /\ all # {} => Max(all) \in all /\ Max(all) \in Int /\ \A m \in all : m <= Max(all)
  BY <1>1, MaxOf
<1>6. CASE feeds = {}
  <2>1. all = before
    BY <1>1, <1>6
  <2>2. ColumnAt(end) = ColumnAt(n) + (end - n)
    <3>1. CASE before = {}
      BY <2>1, <3>1 DEF ColumnAt, all, before
    <3>2. CASE before # {}
      <4>1. Max(before) \in Int
        BY <3>2, <1>5, <1>1
      <4>2. ColumnAt(end) = end - Max(before) /\ ColumnAt(n) = n - Max(before)
        BY <2>1, <3>2 DEF ColumnAt, all, before
      <4> QED BY <4>1, <4>2
    <3> QED BY <3>1, <3>2
  <2>3. ColumnAt(n) \in Int
    BY <1>1, <1>5 DEF ColumnAt, before
  <2>4. LineAt(n) \in Nat /\ LineAt(end) = LineAt(n) + Cardinality(feeds)
    BY <1>3, <1>4 DEF LineAt, all, before
  <2> QED BY <2>2, <2>3, <2>4, <1>6 DEF feeds
<1>7. CASE feeds # {}
  <2>1. Max(all) = Max(feeds)
    <3>1. Max(feeds) \in feeds /\ Max(feeds) \in n .. end - 1 /\ Max(feeds) \in all
      BY <1>1, <1>5, <1>7
    <3>2. \A m \in all : m <= Max(feeds)
      <4>1. \A m \in before : m <= Max(feeds)
        BY <1>1, <3>1
      <4> QED BY <4>1, <1>1, <1>5, <1>7
    <3>3. Max(all) \in all /\ Max(feeds) <= Max(all) /\ Max(all) \in Int
      BY <3>1, <1>5, <1>1
    <3> QED BY <3>1, <3>2, <3>3
  <2>2. ColumnAt(end) = end - Max(feeds)
    <3>1. all # {}
      BY <1>1, <1>7
    <3> QED BY <2>1, <3>1 DEF ColumnAt, all
  <2>3. ColumnAt(n) \in Int
    BY <1>1, <1>5 DEF ColumnAt, before
  <2>4. LineAt(n) \in Nat /\ LineAt(end) = LineAt(n) + Cardinality(feeds)
    BY <1>3, <1>4 DEF LineAt, all, before
  <2> QED BY <2>2, <2>3, <2>4, <1>7 DEF feeds
<1> QED BY <1>6, <1>7

TokenTypes == {"Whitespace", "Comment", "StringLiteral", "NumericLiteral", "Keyword",
               "Identifier", "Punctuator"}
Token == [type : TokenTypes, from : Nat, length : Nat, line : Nat, column : Int]

\* Token t runs up to end, and its place is the code's.
Placed(t, end) ==
  /\ t.length > 0 /\ t.from + t.length = end
  /\ ~ Continued => t.line = LineAt(end) /\ t.column = ColumnAt(t.from)

\* The line and column the lexer counts are those of the place it has reached;
\* with it the tiling is inductive.
LexerInv ==
  /\ code \in Seq(Characters)
  /\ at \in 0 .. CodeEnd /\ line \in Nat /\ col \in Int
  /\ tokens \in Seq(Token) /\ Len(tokens) <= MaxTokens
  /\ ~ Continued => line = LineAt(at) /\ col = ColumnAt(at)
  /\ tokens = << >> => at = 0
  /\ tokens # << >> => tokens[1].from = 0
  /\ \A k \in DOMAIN tokens :
       Placed(tokens[k], IF k = Len(tokens) THEN at ELSE tokens[k + 1].from)

\* Any token that ends behind where it begins, with the line feeds in it,
\* keeps the tiling.
LEMMA EmitInv ==
  ASSUME LexerInv, code' = code, Lexing, NEW type \in TokenTypes,
         NEW end \in at + 1 .. CodeEnd, NEW breaks \in SUBSET FeedsIn(at, end),
         ~ Continued => breaks = FeedsIn(at, end),
         Emit(type, end, breaks)
  PROVE  LexerInv'
<1> DEFINE n == Len(tokens)
           t == [type |-> type, from |-> at, length |-> end - at, line |-> line', column |-> col]
<1>1. /\ at \in Nat /\ end \in Nat /\ at < end /\ end <= CodeEnd /\ line \in Nat /\ col \in Int
      /\ tokens \in Seq(Token) /\ n \in Nat /\ n < MaxTokens /\ MaxTokens \in Nat /\ CodeEnd \in Nat
  BY JsLexerAssumption DEF LexerInv, Lexing, CodeEnd
<1>2. /\ Cardinality(breaks) \in Nat /\ (breaks # {} => Max(breaks) \in Int)
  <2>1. breaks \subseteq 0 .. end
    BY <1>1 DEF FeedsIn
  <2>2. IsFiniteSet(breaks)
    <3>1. IsFiniteSet(0 .. end)
      BY <1>1, FS_Interval
    <3> QED BY <2>1, <3>1, FS_Subset
  <2>4. breaks # {} => Max(breaks) \in Int
    BY <2>1, <1>1, MaxOf
  <2> QED BY <2>2, <2>4, FS_CardinalityType
<1>3. /\ line' = line + Cardinality(breaks) /\ at' = end
      /\ col' = IF breaks = {} THEN col + (end - at) ELSE end - Max(breaks)
      /\ tokens' = Append(tokens, t)
  BY DEF Emit
<1>4. /\ line' \in Nat /\ col' \in Int
  BY <1>1, <1>2, <1>3
<1>5. t \in Token /\ t.from = at /\ t.length = end - at /\ t.line = line' /\ t.column = col
  BY <1>1, <1>4 DEF Token
<1>6. ~ Continued => line' = LineAt(end) /\ col' = ColumnAt(end)
  <2> SUFFICES ASSUME ~ Continued PROVE line' = LineAt(end) /\ col' = ColumnAt(end)
    OBVIOUS
  <2>1. breaks = FeedsIn(at, end) /\ line = LineAt(at) /\ col = ColumnAt(at)
    BY DEF LexerInv
  <2>2. at <= end
    BY <1>1
  <2>3. /\ LineAt(end) = LineAt(at) + Cardinality(FeedsIn(at, end))
        /\ FeedsIn(at, end) = {} => ColumnAt(end) = ColumnAt(at) + (end - at)
        /\ FeedsIn(at, end) # {} => ColumnAt(end) = end - Max(FeedsIn(at, end))
    BY <2>2, <1>1, Onward
  <2> QED BY <2>1, <2>3, <1>3
<1> HIDE DEF t
<1>7. /\ tokens' \in Seq(Token) /\ Len(tokens') = n + 1 /\ tokens'[n + 1] = t
      /\ DOMAIN tokens' = 1 .. n + 1 /\ DOMAIN tokens = 1 .. n
      /\ \A k \in 1 .. n : tokens'[k] = tokens[k]
  BY <1>1, <1>3, <1>5, AppendProperties
<1>8. /\ \A m : LineAt(m)' = LineAt(m') /\ ColumnAt(m)' = ColumnAt(m')
      /\ Continued' = Continued /\ CodeEnd' = CodeEnd
  BY DEF LineAt, ColumnAt, LinesBefore, Char, Continued, CodeEnd
<1>9. \A u, e : Placed(u, e)' = Placed(u', e')
  BY <1>8 DEF Placed
<1>10. Placed(t, end)
  <2>1. ~ Continued => t.line = LineAt(end) /\ t.column = ColumnAt(t.from)
    BY <1>5, <1>6 DEF LexerInv
  <2>2. t.length > 0 /\ t.from + t.length = end
    BY <1>1, <1>5
  <2> QED BY <2>1, <2>2 DEF Placed
<1>11. ASSUME NEW k \in DOMAIN tokens'
       PROVE  Placed(tokens'[k], IF k = Len(tokens') THEN at' ELSE tokens'[k + 1].from)
  <2>1. CASE k = n + 1
    BY <2>1, <1>3, <1>7, <1>10
  <2>2. CASE k \in 1 .. n
    <3>1. Placed(tokens[k], IF k = n THEN at ELSE tokens[k + 1].from)
      BY <2>2, <1>7 DEF LexerInv
    <3>2. CASE k = n
      BY <3>1, <3>2, <2>2, <1>1, <1>5, <1>7
    <3>3. CASE k < n
      <4>1. k + 1 \in 1 .. n /\ k # n /\ k # n + 1
        BY <2>2, <3>3, <1>1
      <4> QED BY <3>1, <4>1, <2>2, <1>7
    <3> QED BY <3>2, <3>3, <2>2, <1>1
  <2> QED BY <2>1, <2>2, <1>1, <1>7
<1>12. tokens' # << >> /\ tokens'[1].from = 0
  <2>1. CASE n = 0
    <3>1. tokens = << >>
      BY <2>1, <1>1, EmptySeq
    <3>2. at = 0
      BY <3>1 DEF LexerInv
    <3>3. tokens'[1] = t /\ tokens' # << >>
      BY <2>1, <1>7, EmptySeq
    <3> QED BY <3>2, <3>3, <1>5
  <2>2. CASE n > 0
    <3>1. tokens # << >> /\ 1 \in 1 .. n
      BY <2>2, <1>1
    <3>2. tokens[1].from = 0
      BY <3>1 DEF LexerInv
    <3>3. tokens'[1] = tokens[1] /\ tokens' # << >>
      BY <3>1, <1>1, <1>7, EmptySeq
    <3> QED BY <3>2, <3>3
  <2> QED BY <2>1, <2>2, <1>1
<1>13. /\ code' \in Seq(Characters) /\ at' \in 0 .. CodeEnd' /\ Len(tokens') <= MaxTokens
  BY <1>1, <1>3, <1>7, <1>8 DEF LexerInv
<1>14. ~ Continued' => line' = LineAt(at)' /\ col' = ColumnAt(at)'
  BY <1>3, <1>6, <1>8
<1>15. \A k \in DOMAIN tokens' :
         Placed(tokens[k], IF k = Len(tokens) THEN at ELSE tokens[k + 1].from)'
  BY <1>9, <1>11
<1> QED BY <1>4, <1>7, <1>12, <1>13, <1>14, <1>15 DEF LexerInv

\* The scans end at the first place that stops them, or at the code's end.
LEMMA PastIs ==
  ASSUME CodeEnd \in Nat, NEW n \in 0 .. CodeEnd, NEW set
  PROVE  /\ Past(n, set) \in n .. CodeEnd
         /\ \A m \in n .. Past(n, set) - 1 : Char(m) \in set
         /\ Past(n, set) < CodeEnd => Char(Past(n, set)) \notin set
<1> DEFINE S == {m \in n .. CodeEnd : m = CodeEnd \/ Char(m) \notin set}
<1>1. S \in SUBSET Nat /\ CodeEnd \in S
  OBVIOUS
<1>2. Min(S) \in S /\ \A m \in S : Min(S) <= m
  BY <1>1, MinOf
<1>3. Past(n, set) = Min(S)
  BY DEF Past
<1> HIDE DEF Min, Past
<1>4. ASSUME NEW m \in n .. Past(n, set) - 1 PROVE Char(m) \in set
  <2>1. m \in n .. CodeEnd /\ m # CodeEnd /\ m \notin S
    BY <1>2, <1>3
  <2> QED BY <2>1
<1> QED BY <1>2, <1>3, <1>4

LEMMA ToIs ==
  ASSUME CodeEnd \in Nat, NEW n \in 0 .. CodeEnd, NEW set
  PROVE  /\ To(n, set) \in n .. CodeEnd
         /\ \A m \in n .. To(n, set) - 1 : Char(m) \notin set
         /\ To(n, set) < CodeEnd => Char(To(n, set)) \in set
<1> DEFINE S == {m \in n .. CodeEnd : m = CodeEnd \/ Char(m) \in set}
<1>1. S \in SUBSET Nat /\ CodeEnd \in S
  OBVIOUS
<1>2. Min(S) \in S /\ \A m \in S : Min(S) <= m
  BY <1>1, MinOf
<1>3. To(n, set) = Min(S)
  BY DEF To
<1> HIDE DEF Min, To
<1>4. ASSUME NEW m \in n .. To(n, set) - 1 PROVE Char(m) \notin set
  <2>1. m \in n .. CodeEnd /\ m # CodeEnd /\ m \notin S
    BY <1>2, <1>3
  <2> QED BY <2>1
<1> QED BY <1>2, <1>3, <1>4

LEMMA BlockEndIs ==
  ASSUME CodeEnd \in Nat, NEW n \in Nat, n + 1 < CodeEnd
  PROVE  BlockEnd(n) \in n + 2 .. CodeEnd
<1> DEFINE S == {m \in n + 2 .. CodeEnd : m + 1 >= CodeEnd \/ (Is(m, "*") /\ Is(m + 1, "/"))}
           last == Min(S)
<1>1. S \in SUBSET Nat /\ CodeEnd \in S
  OBVIOUS
<1>2. last \in S
  BY <1>1, MinOf
<1>3. BlockEnd(n) = IF last + 1 < CodeEnd THEN last + 2 ELSE last
  BY DEF BlockEnd
<1>4. last \in n + 2 .. CodeEnd
  BY <1>2
<1> HIDE DEF last
<1> QED BY <1>3, <1>4

LEMMA StringEndIs ==
  ASSUME CodeEnd \in Nat, NEW n \in Nat, n < CodeEnd
  PROVE  StringEnd(n) \in n + 1 .. CodeEnd
<1> DEFINE closing == {m \in n + 1 .. CodeEnd - 1 : Char(m) = Char(n) /\ ~ Escaped(n, m)}
<1>1. closing \in SUBSET Nat /\ closing \subseteq n + 1 .. CodeEnd - 1
  OBVIOUS
<1>2. StringEnd(n) = IF closing = {} THEN CodeEnd ELSE Min(closing) + 1
  BY DEF StringEnd
<1> HIDE DEF closing
<1>3. closing # {} => Min(closing) \in closing
  BY <1>1, MinOf
<1>4. closing # {} => Min(closing) \in n + 1 .. CodeEnd - 1
  BY <1>1, <1>3
<1> QED BY <1>2, <1>4

\* Where no line goes on behind a backslash, no line feed in a quoted text is
\* escaped.
LEMMA NoneEscaped ==
  ASSUME CodeEnd \in Nat, ~ Continued, NEW n \in Nat, NEW m \in n + 1 .. CodeEnd - 1,
         Char(m) = Newline
  PROVE  ~ Escaped(n, m)
<1> DEFINE S == {k \in n .. m - 1 : k = n \/ Char(k) # "\\"}
<1>1. m \in Nat /\ m - 1 \in Nat /\ n <= m - 1
  OBVIOUS
<1>2. Char(m - 1) # "\\"
  <2>1. m - 1 \in 0 .. CodeEnd - 2 /\ (m - 1) + 1 = m
    BY <1>1
  <2>2. ~ (Char(m - 1) = "\\" /\ Char((m - 1) + 1) = Newline)
    BY <2>1 DEF Continued
  <2> QED BY <2>1, <2>2
<1>3. m - 1 \in S /\ S \subseteq 0 .. m - 1 /\ \A k \in S : k <= m - 1
  BY <1>1, <1>2
<1>4. Max(S) \in S /\ Max(S) \in Int /\ \A k \in S : k <= Max(S)
  BY <1>1, <1>3, MaxOf
<1>5. Max(S) = m - 1
  <2>1. Max(S) <= m - 1 /\ m - 1 <= Max(S)
    BY <1>3, <1>4
  <2> QED BY <2>1, <1>1, <1>4
<1>6. Escaped(n, m) <=> ((m - 1) - Max(S)) % 2 = 1
  BY DEF Escaped
<1>7. (m - 1) - Max(S) = 0
  BY <1>5, <1>1
<1> HIDE DEF S
<1> QED BY <1>6, <1>7

LEMMA LexerNextInv == LexerInv /\ [LexerNext]_<<code, lexerVars>> => LexerInv'
<1> SUFFICES ASSUME LexerInv, [LexerNext]_<<code, lexerVars>> PROVE LexerInv'
  OBVIOUS
<1>1. CodeEnd \in Nat /\ at \in Nat /\ at \in 0 .. CodeEnd
  BY DEF LexerInv, CodeEnd
<1>2. Lexing => at < CodeEnd
  BY DEF Lexing
<1>3. \A set : Newline \notin set =>
        /\ FeedsIn(at, Past(at, set)) = {}
        /\ (Lexing /\ Char(at) \in set => Past(at, set) \in at + 1 .. CodeEnd)
  <2> SUFFICES ASSUME NEW set, Newline \notin set
               PROVE  /\ FeedsIn(at, Past(at, set)) = {}
                      /\ (Lexing /\ Char(at) \in set => Past(at, set) \in at + 1 .. CodeEnd)
    OBVIOUS
  <2> DEFINE end == Past(at, set)
  <2>1. /\ end \in at .. CodeEnd
        /\ \A m \in at .. end - 1 : Char(m) \in set
        /\ end < CodeEnd => Char(end) \notin set
    BY <1>1, PastIs
  <2> HIDE DEF end
  <2>2. FeedsIn(at, end) = {}
    BY <2>1 DEF FeedsIn
  <2>3. Lexing /\ Char(at) \in set => end # at
    BY <2>1, <1>2
  <2> QED BY <2>1, <2>2, <2>3, <1>1 DEF end
<1>4. CASE LexBlank /\ UNCHANGED code
  <2> DEFINE set == Blanks \union {Newline}
             end == Past(at, set)
  <2>1. /\ end \in at .. CodeEnd /\ (end < CodeEnd => Char(end) \notin set)
    BY <1>1, PastIs
  <2>2. Lexing /\ Char(at) \in set /\ Emit("Whitespace", end, BreaksTo(end))
    BY <1>4 DEF LexBlank
  <2>3. end # at
    BY <2>1, <2>2, <1>2
  <2> HIDE DEF set, end
  <2>4. end \in at + 1 .. CodeEnd
    BY <2>1, <2>3, <1>1
  <2>5. BreaksTo(end) = FeedsIn(at, end)
    BY DEF BreaksTo, FeedsIn
  <2> QED BY <2>2, <2>4, <2>5, <1>4, EmitInv DEF TokenTypes
<1>5. CASE LexLineComment /\ UNCHANGED code
  <2> DEFINE end == To(at, {Newline})
  <2>1. /\ end \in at .. CodeEnd /\ (end < CodeEnd => Char(end) \in {Newline})
        /\ \A m \in at .. end - 1 : Char(m) \notin {Newline}
    BY <1>1, ToIs
  <2>2. Lexing /\ Char(at) = "/" /\ Emit("Comment", end, {})
    BY <1>5 DEF LexLineComment, AtComment
  <2> HIDE DEF end
  <2>3. end # at
    BY <2>1, <2>2, <1>2 DEF Newline
  <2>4. end \in at + 1 .. CodeEnd
    BY <2>1, <2>3, <1>1
  <2>5. FeedsIn(at, end) = {}
    BY <2>1 DEF FeedsIn
  <2> QED BY <2>2, <2>4, <2>5, <1>5, EmitInv DEF TokenTypes
<1>6. CASE LexBlockComment /\ UNCHANGED code
  <2> DEFINE end == BlockEnd(at)
  <2>1. Lexing /\ at + 1 < CodeEnd /\ Emit("Comment", end, BreaksTo(end))
    BY <1>6 DEF LexBlockComment, AtComment, Is
  <2>2. end \in at + 2 .. CodeEnd
    BY <2>1, <1>1, BlockEndIs
  <2> HIDE DEF end
  <2>3. end \in at + 1 .. CodeEnd
    BY <2>2, <1>1
  <2>4. BreaksTo(end) = FeedsIn(at, end)
    BY DEF BreaksTo, FeedsIn
  <2> QED BY <2>1, <2>3, <2>4, <1>6, EmitInv DEF TokenTypes
<1>7. CASE LexString /\ UNCHANGED code
  <2> DEFINE end == StringEnd(at)
             breaks == {m \in BreaksTo(end) : ~ Escaped(at, m)}
  <2>1. Lexing /\ Char(at) \in Quotes /\ Emit("StringLiteral", end, breaks)
    BY <1>7 DEF LexString
  <2>2. end \in at + 1 .. CodeEnd
    BY <2>1, <1>1, <1>2, StringEndIs
  <2>3. breaks \subseteq FeedsIn(at, end)
    BY DEF BreaksTo, FeedsIn
  <2>4. Char(at) # Newline
    BY <2>1, CodeTextAssumption
  <2>5. ~ Continued => FeedsIn(at, end) \subseteq breaks
    <3> SUFFICES ASSUME ~ Continued, NEW m \in FeedsIn(at, end) PROVE m \in breaks
      OBVIOUS
    <3>1. m \in at .. end - 1 /\ Char(m) = Newline /\ m \in BreaksTo(end)
      BY DEF FeedsIn, BreaksTo
    <3> HIDE DEF end
    <3>2. m \in at + 1 .. CodeEnd - 1
      BY <3>1, <2>2, <2>4, <1>1
    <3>3. ~ Escaped(at, m)
      BY <3>1, <3>2, <1>1, NoneEscaped
    <3> QED BY <3>1, <3>3
  <2> HIDE DEF end, breaks
  <2> QED BY <2>1, <2>2, <2>3, <2>5, <1>7, EmitInv DEF TokenTypes
<1>8. CASE LexNumber /\ UNCHANGED code
  <2> DEFINE set == Digits \union NumberSigns
             end == Past(at, set)
  <2>1. Lexing /\ Char(at) \in set /\ Emit("NumericLiteral", end, {})
    BY <1>8 DEF LexNumber
  <2>2. Newline \notin set
    BY CodeTextAssumption
  <2>3. end \in at + 1 .. CodeEnd /\ FeedsIn(at, end) = {}
    BY <2>1, <2>2, <1>3
  <2> HIDE DEF end
  <2> QED BY <2>1, <2>3, <1>8, EmitInv DEF TokenTypes
<1>9. CASE LexWord /\ UNCHANGED code
  <2> DEFINE set == Letters \union Digits
             end == Past(at, set)
             type == IF SubSeq(code, at + 1, end) \in Keywords THEN "Keyword" ELSE "Identifier"
  <2>1. Lexing /\ Char(at) \in set /\ Emit(type, end, {}) /\ type \in TokenTypes
    BY <1>9 DEF LexWord, TokenTypes
  <2>2. Newline \notin set
    BY CodeTextAssumption
  <2>3. end \in at + 1 .. CodeEnd /\ FeedsIn(at, end) = {}
    BY <2>1, <2>2, <1>3
  <2> HIDE DEF end, type
  <2> QED BY <2>1, <2>3, <1>9, EmitInv
<1>10. CASE LexPunctuator /\ UNCHANGED code
  <2>1. Lexing /\ Char(at) # Newline /\ Emit("Punctuator", at + 1, {})
    BY <1>10 DEF LexPunctuator
  <2>2. at + 1 \in at + 1 .. CodeEnd /\ FeedsIn(at, at + 1) = {}
    BY <2>1, <1>1, <1>2 DEF FeedsIn
  <2> QED BY <2>1, <2>2, <1>10, EmitInv DEF TokenTypes
<1>11. CASE UNCHANGED <<code, lexerVars>>
  <2>1. code' = code /\ at' = at /\ line' = line /\ col' = col /\ tokens' = tokens
    BY <1>11 DEF lexerVars
  <2>2. (Continued' <=> Continued) /\ CodeEnd' = CodeEnd
    BY <2>1 DEF Continued, Char, CodeEnd
  <2>3. LineAt(at)' = LineAt(at) /\ ColumnAt(at)' = ColumnAt(at)
    BY <2>1 DEF LineAt, ColumnAt, LinesBefore, Char
  <2>4. \A t, n : Placed(t, n)' <=> Placed(t, n)
    BY <2>1 DEF Placed, LineAt, ColumnAt, LinesBefore, Char, Continued, CodeEnd
  <2> QED BY <2>1, <2>2, <2>3, <2>4 DEF LexerInv
<1> QED BY <1>4, <1>5, <1>6, <1>7, <1>8, <1>9, <1>10, <1>11 DEF LexerNext

LEMMA LexerInitInv == code \in Codes /\ LexerInit => LexerInv
<1> SUFFICES ASSUME code \in Codes, LexerInit PROVE LexerInv
  OBVIOUS
<1>1. code \in Seq(Characters) /\ CodeEnd \in Nat
  BY CodeTextAssumption DEF CodeEnd
<1>2. LinesBefore(0) = {}
  BY DEF LinesBefore
<1>3. LineAt(0) = 1 /\ ColumnAt(0) = 1
  BY <1>2, FS_EmptySet DEF LineAt, ColumnAt
<1> QED BY <1>1, <1>3, JsLexerAssumption DEF LexerInit, LexerInv

\* Whatever the code, its tokens tile it and carry their places, the code cut
\* short only where the page's room ends (js_lexer.h).
THEOREM TokensTileCode == LexerSpec => []TokensTile
<1>1. LexerInv => TokensTile
  <2> SUFFICES ASSUME LexerInv PROVE TokensTile
    OBVIOUS
  <2>1. ASSUME NEW k \in DOMAIN tokens
        PROVE  LET t == tokens[k]
                   end == t.from + t.length
                   before == LinesBefore(t.from)
               IN /\ t.length > 0
                  /\ end = IF k = Len(tokens) THEN at ELSE tokens[k + 1].from
                  /\ k = 1 => t.from = 0
                  /\ ~ Continued =>
                       /\ t.line = 1 + Cardinality(LinesBefore(end))
                       /\ t.column = IF before = {} THEN t.from + 1 ELSE t.from - Max(before)
    <3>1. Placed(tokens[k], IF k = Len(tokens) THEN at ELSE tokens[k + 1].from)
      BY DEF LexerInv
    <3>2. k = 1 => tokens[k].from = 0
      <4>1. tokens # << >>
        BY EmptySeq
      <4> QED BY <4>1 DEF LexerInv
    <3> QED BY <3>1, <3>2 DEF Placed, LineAt, ColumnAt
  <2>2. ~ Lexing => at = CodeEnd \/ Len(tokens) = MaxTokens
    BY JsLexerAssumption DEF LexerInv, Lexing, CodeEnd
  <2> QED BY <2>1, <2>2 DEF TokensTile
<1> QED BY LexerInitInv, LexerNextInv, <1>1, PTL DEF LexerSpec

----------------------------------------------------------------------------
(* The highlighter's loops end where the lexer's scans do.                 *)

LEMMA ToOnly ==
  ASSUME CodeEnd \in Nat, NEW n \in 0 .. CodeEnd, NEW set, NEW v \in n .. CodeEnd,
         \A m \in n .. v - 1 : Char(m) \notin set, v = CodeEnd \/ Char(v) \in set
  PROVE  To(n, set) = v
<1> DEFINE w == To(n, set)
<1>1. /\ w \in n .. CodeEnd
      /\ \A m \in n .. w - 1 : Char(m) \notin set
      /\ w < CodeEnd => Char(w) \in set
  BY ToIs
<1> HIDE DEF w
<1>2. ~ (w < v)
  <2>1. w < v => w \in n .. v - 1 /\ w < CodeEnd
    BY <1>1
  <2> QED BY <2>1, <1>1
<1>3. ~ (v < w)
  <2>1. v < w => v \in n .. w - 1 /\ v # CodeEnd
    BY <1>1
  <2> QED BY <2>1, <1>1
<1> QED BY <1>1, <1>2, <1>3 DEF w

LEMMA PastOnly ==
  ASSUME CodeEnd \in Nat, NEW n \in 0 .. CodeEnd, NEW set, NEW v \in n .. CodeEnd,
         \A m \in n .. v - 1 : Char(m) \in set, v = CodeEnd \/ Char(v) \notin set
  PROVE  Past(n, set) = v
<1> DEFINE w == Past(n, set)
<1>1. /\ w \in n .. CodeEnd
      /\ \A m \in n .. w - 1 : Char(m) \in set
      /\ w < CodeEnd => Char(w) \notin set
  BY PastIs
<1> HIDE DEF w
<1>2. ~ (w < v)
  <2>1. w < v => w \in n .. v - 1 /\ w < CodeEnd
    BY <1>1
  <2> QED BY <2>1, <1>1
<1>3. ~ (v < w)
  <2>1. v < w => v \in n .. w - 1 /\ v # CodeEnd
    BY <1>1
  <2> QED BY <2>1, <1>1
<1> QED BY <1>1, <1>2, <1>3 DEF w

LEMMA LineFromIs ==
  ASSUME CodeEnd \in Nat, NEW n \in 0 .. CodeEnd
  PROVE  LineFrom[n] = To(n, {Newline})
<1> DEFINE N == CodeEnd
           stop == {m \in 0 .. N : m = N \/ Is(m, Newline)}
           ends == [m \in 0 .. N |-> m]
<1>1. stop \in SUBSET (0 .. N) /\ N \in stop
  OBVIOUS
<1>2. \A f : [m \in 0 .. N |-> IF m \in stop THEN ends[m] ELSE f[m + 1]]
             = [m \in 0 .. N |-> IF m = N \/ Is(m, Newline) THEN m ELSE f[m + 1]]
  OBVIOUS
<1>3. \A m \in 0 .. N : LineFrom[m] = IF m \in stop THEN ends[m] ELSE LineFrom[m + 1]
  <2>1. \E f : f = [m \in 0 .. N |-> IF m = N \/ Is(m, Newline) THEN m ELSE f[m + 1]]
    <3> HIDE DEF stop, ends
    <3>1. \E f : f = [m \in 0 .. N |-> IF m \in stop THEN ends[m] ELSE f[m + 1]]
      BY <1>1, Advance
    <3> QED BY <3>1, <1>2
  <2>2. LineFrom = [m \in 0 .. N |-> IF m = N \/ Is(m, Newline) THEN m ELSE LineFrom[m + 1]]
    BY <2>1 DEF LineFrom
  <2> HIDE DEF stop, ends, LineFrom
  <2> QED BY <2>2, <1>2
<1>4. PICK v \in n .. N : /\ v \in stop
                          /\ \A m \in n .. v - 1 : m \notin stop
                          /\ LineFrom[n] = ends[v]
  <2>1. N \in Nat /\ n \in 0 .. N
    OBVIOUS
  <2> HIDE DEF stop, ends, LineFrom, N
  <2>2. \A m \in 0 .. N :
          \E z \in m .. N : /\ z \in stop
                            /\ \A w \in m .. z - 1 : w \notin stop
                            /\ LineFrom[m] = ends[z]
    BY ONLY <2>1, <1>1, <1>3, AdvanceTo
  <2> QED BY ONLY <2>1, <2>2
<1>5. To(n, {Newline}) = v
  <2>1. v = N \/ Char(v) \in {Newline}
    BY <1>4 DEF Is
  <2>2. \A m \in n .. v - 1 : Char(m) \notin {Newline}
    BY <1>4 DEF Is
  <2> QED BY <2>1, <2>2, ToOnly
<1> QED BY <1>4, <1>5

LEMMA RunIs ==
  ASSUME CodeEnd \in Nat, NEW n \in 0 .. CodeEnd, NEW set
  PROVE  Run(n, set) = Past(n, set)
<1> DEFINE N == CodeEnd
           stop == {m \in 0 .. N : ~ (m < N /\ Char(m) \in set)}
           ends == [m \in 0 .. N |-> m]
           from == CHOOSE f : f = [m \in 0 .. N |-> IF m < N /\ Char(m) \in set THEN f[m + 1] ELSE m]
<1>1. stop \in SUBSET (0 .. N) /\ N \in stop
  OBVIOUS
<1>2. \A f : [m \in 0 .. N |-> IF m \in stop THEN ends[m] ELSE f[m + 1]]
             = [m \in 0 .. N |-> IF m < N /\ Char(m) \in set THEN f[m + 1] ELSE m]
  OBVIOUS
<1>3. Run(n, set) = from[n]
  BY DEF Run
<1>4. \A m \in 0 .. N : from[m] = IF m \in stop THEN ends[m] ELSE from[m + 1]
  <2>1. \E f : f = [m \in 0 .. N |-> IF m < N /\ Char(m) \in set THEN f[m + 1] ELSE m]
    <3> HIDE DEF stop, ends
    <3>1. \E f : f = [m \in 0 .. N |-> IF m \in stop THEN ends[m] ELSE f[m + 1]]
      BY <1>1, Advance
    <3> QED BY <3>1, <1>2
  <2>2. from = [m \in 0 .. N |-> IF m < N /\ Char(m) \in set THEN from[m + 1] ELSE m]
    BY <2>1
  <2> HIDE DEF from
  <2> QED BY <2>2
<1>5. PICK v \in n .. N : /\ v \in stop
                          /\ \A m \in n .. v - 1 : m \notin stop
                          /\ from[n] = ends[v]
  <2>1. N \in Nat /\ n \in 0 .. N
    OBVIOUS
  <2> HIDE DEF stop, ends, from, N
  <2>2. /\ stop \in SUBSET (0 .. N) /\ N \in stop
        /\ \A m \in 0 .. N : from[m] = IF m \in stop THEN ends[m] ELSE from[m + 1]
    BY ONLY <1>1, <1>4
  <2>3. \A m \in 0 .. N :
          \E v \in m .. N : /\ v \in stop
                            /\ \A k \in m .. v - 1 : k \notin stop
                            /\ from[m] = ends[v]
    BY ONLY <2>1, <2>2, AdvanceTo
  <2> QED BY ONLY <2>1, <2>3
<1>6. Past(n, set) = v
  <2>1. v = N \/ Char(v) \notin set
    BY <1>5
  <2>2. \A m \in n .. v - 1 : Char(m) \in set
    BY <1>5
  <2> QED BY <2>1, <2>2, PastOnly
<1> HIDE DEF from
<1> QED BY <1>3, <1>5, <1>6

LEMMA BlockFromIs ==
  ASSUME CodeEnd \in Nat, NEW n \in Nat, n + 1 < CodeEnd
  PROVE  BlockFrom[n + 2] = BlockEnd(n)
<1> DEFINE N == CodeEnd
           Closing(m) == Is(m, "*") /\ Is(m + 1, "/")
           stop == {m \in 0 .. N : m + 1 >= N \/ Closing(m)}
           ends == [m \in 0 .. N |-> IF m + 1 >= N THEN m ELSE m + 2]
<1>1. stop \in SUBSET (0 .. N) /\ N \in stop
  OBVIOUS
<1>2. \A f : [m \in 0 .. N |-> IF m \in stop THEN ends[m] ELSE f[m + 1]]
             = [m \in 0 .. N |-> IF m + 1 >= N THEN m ELSE IF Closing(m) THEN m + 2 ELSE f[m + 1]]
  OBVIOUS
<1>3. \A m \in 0 .. N : BlockFrom[m] = IF m \in stop THEN ends[m] ELSE BlockFrom[m + 1]
  <2>1. \E f : f = [m \in 0 .. N |-> IF m + 1 >= N THEN m ELSE IF Closing(m) THEN m + 2 ELSE f[m + 1]]
    <3> HIDE DEF stop, ends
    <3>1. \E f : f = [m \in 0 .. N |-> IF m \in stop THEN ends[m] ELSE f[m + 1]]
      BY <1>1, Advance
    <3> QED BY <3>1, <1>2
  <2>2. BlockFrom = [m \in 0 .. N |-> IF m + 1 >= N THEN m ELSE IF Closing(m) THEN m + 2
                                     ELSE BlockFrom[m + 1]]
    BY <2>1 DEF BlockFrom
  <2> HIDE DEF stop, ends, BlockFrom
  <2> QED BY <2>2, <1>2
<1>4. \A k \in 0 .. N :
        \E v \in k .. N : /\ v \in stop
                          /\ \A m \in k .. v - 1 : m \notin stop
                          /\ BlockFrom[k] = ends[v]
  <2>1. N \in Nat
    OBVIOUS
  <2> HIDE DEF N, stop, ends, BlockFrom
  <2> QED BY ONLY <2>1, <1>1, <1>3, AdvanceTo
<1>5. n + 2 \in 0 .. N
  OBVIOUS
<1>6. PICK v \in n + 2 .. N : /\ v \in stop
                              /\ \A m \in n + 2 .. v - 1 : m \notin stop
                              /\ BlockFrom[n + 2] = ends[v]
  <2> HIDE DEF N, stop, ends, BlockFrom
  <2> QED BY <1>4, <1>5
<1>7. Min({m \in n + 2 .. N : m + 1 >= N \/ Closing(m)}) = v
  <2> DEFINE T == {m \in n + 2 .. N : m + 1 >= N \/ Closing(m)}
  <2>1. v \in T /\ T \in SUBSET Nat /\ \A m \in T : ~ (m < v)
    BY <1>6
  <2>2. Min(T) \in T /\ \A m \in T : Min(T) <= m
    <3> HIDE DEF T
    <3> QED BY <2>1, MinOf
  <2> HIDE DEF T
  <2>3. Min(T) <= v /\ ~ (Min(T) < v) /\ Min(T) \in Nat /\ v \in Nat
    BY <2>1, <2>2
  <2>4. Min(T) = v
    BY <2>3
  <2> QED BY <2>4 DEF T
<1>8. BlockEnd(n) = IF v + 1 < N THEN v + 2 ELSE v
  BY <1>7 DEF BlockEnd
<1> QED BY <1>6, <1>8

\* Behind a character that is no backslash nothing is escaped; behind one that
\* is, what follows is escaped if it is not.
LEMMA EscapedNext ==
  ASSUME NEW q \in Nat, NEW m \in Nat, q <= m
  PROVE  Escaped(q, m + 1) <=> m # q /\ Char(m) = "\\" /\ ~ Escaped(q, m)
<1> DEFINE Before(k) == {l \in q .. k - 1 : l = q \/ Char(l) # "\\"}
           x == Max(Before(m + 1))
           y == Max(Before(m))
<1>1. /\ Before(m + 1) \subseteq 0 .. m /\ q \in Before(m + 1)
      /\ Before(m) \subseteq 0 .. m /\ (q < m => q \in Before(m))
      /\ \A l \in Before(m + 1) : l = m \/ l \in Before(m)
      /\ \A l \in Before(m) : l \in Before(m + 1) /\ l < m
      /\ m \in Before(m + 1) <=> m = q \/ Char(m) # "\\"
  OBVIOUS
<1>2. x \in Before(m + 1) /\ x \in Int /\ \A l \in Before(m + 1) : l <= x
  <2> HIDE DEF Before
  <2> QED BY <1>1, MaxOf
<1>3. q < m => y \in Before(m) /\ y \in Int /\ \A l \in Before(m) : l <= y
  <2> HIDE DEF Before
  <2> QED BY <1>1, MaxOf
<1>4. /\ Escaped(q, m + 1) <=> (m - x) % 2 = 1
      /\ Escaped(q, m) <=> (m - 1 - y) % 2 = 1
  <2>1. /\ Escaped(q, m + 1) <=> ((m + 1) - 1 - x) % 2 = 1
        /\ Escaped(q, m) <=> (m - 1 - y) % 2 = 1
    <3> HIDE DEF Max
    <3> QED BY DEF Escaped
  <2>2. (m + 1) - 1 = m
    OBVIOUS
  <2> QED BY <2>1, <2>2
<1> HIDE DEF Before, x, y
<1>5. CASE m = q \/ Char(m) # "\\"
  <2>1. x = m
    BY <1>1, <1>2, <1>5
  <2>2. (m - x) % 2 = 0
    BY <2>1
  <2> QED BY <1>4, <1>5, <2>2
<1>6. CASE m # q /\ Char(m) = "\\"
  <2>1. q < m
    BY <1>6
  <2>2. x = y
    <3>1. x <= y /\ y <= x
      BY <1>1, <1>2, <1>3, <1>6, <2>1
    <3> QED BY <3>1, <1>2, <1>3, <2>1
  <2>3. y \in Nat /\ y < m
    BY <1>1, <1>3, <2>1
  <2>4. (m - y) % 2 = 1 <=> ~ ((m - 1 - y) % 2 = 1)
    <3> DEFINE d == m - 1 - y
    <3>1. d \in Nat /\ m - y = d + 1
      BY <2>3
    <3> HIDE DEF d
    <3>2. (d + 1) % 2 = 1 <=> ~ (d % 2 = 1)
      BY <3>1
    <3> QED BY <3>1, <3>2 DEF d
  <2> QED BY <1>4, <1>6, <2>2, <2>4
<1> QED BY <1>5, <1>6

LEMMA QuotedIs ==
  ASSUME CodeEnd \in Nat, NEW q \in Nat, q < CodeEnd, Char(q) # "\\"
  PROVE  Quoted(Char(q), q + 1) = StringEnd(q)
<1> DEFINE N == CodeEnd
           quote == Char(q)
           skips == {m \in 0 .. N : Char(m) = "\\" /\ m + 1 < N}
           stop == {m \in 0 .. N : m = N \/ Char(m) = quote}
           ends == [m \in 0 .. N |-> IF m = N THEN m ELSE m + 1]
           next == [m \in 0 .. N |-> IF m \in skips THEN m + 2 ELSE m + 1]
           from == CHOOSE f : f = [m \in 0 .. N |->
                     IF m = N THEN m
                     ELSE IF Char(m) = quote THEN m + 1
                     ELSE IF Char(m) = "\\" /\ m + 1 < N THEN f[m + 2]
                     ELSE f[m + 1]]
           Closing(n) == {m \in n .. N - 1 : Char(m) = quote /\ ~ Escaped(q, m)}
           EndFrom(n) == IF Closing(n) = {} THEN N ELSE Min(Closing(n)) + 1
           S == {n \in 0 .. N : q < n /\ ~ Escaped(q, n) => from[n] = EndFrom(n)}
<1>1. /\ stop \in SUBSET (0 .. N) /\ N \in stop
      /\ \A m \in (0 .. N) \ stop : next[m] \in m + 1 .. N
  <2>1. stop \in SUBSET (0 .. N) /\ N \in stop
    OBVIOUS
  <2>2. ASSUME NEW m \in (0 .. N) \ stop PROVE next[m] \in m + 1 .. N
    <3>1. m \in 0 .. N /\ m # N
      OBVIOUS
    <3>2. next[m] = IF m \in skips THEN m + 2 ELSE m + 1
      BY <3>1
    <3>3. m \in skips => m + 1 < N
      OBVIOUS
    <3> QED BY <3>1, <3>2, <3>3
  <2> QED BY <2>1, <2>2
<1>2. from = [m \in 0 .. N |-> IF m = N THEN m
                               ELSE IF Char(m) = quote THEN m + 1
                               ELSE IF Char(m) = "\\" /\ m + 1 < N THEN from[m + 2]
                               ELSE from[m + 1]]
  <2>1. \E f : f = [m \in 0 .. N |-> IF m \in stop THEN ends[m] ELSE f[next[m]]]
    <3>1. N \in Nat
      OBVIOUS
    <3> HIDE DEF N, stop, ends, next, from
    <3> QED BY <1>1, <3>1, Loop
  <2>2. \A f : [m \in 0 .. N |-> IF m \in stop THEN ends[m] ELSE f[next[m]]]
               = [m \in 0 .. N |-> IF m = N THEN m
                                   ELSE IF Char(m) = quote THEN m + 1
                                   ELSE IF Char(m) = "\\" /\ m + 1 < N THEN f[m + 2]
                                   ELSE f[m + 1]]
    OBVIOUS
  <2>3. \E f : f = [m \in 0 .. N |-> IF m = N THEN m
                                     ELSE IF Char(m) = quote THEN m + 1
                                     ELSE IF Char(m) = "\\" /\ m + 1 < N THEN f[m + 2]
                                     ELSE f[m + 1]]
    BY <2>1, <2>2
  <2> QED BY <2>3
<1>3. Quoted(quote, q + 1) = from[q + 1]
  BY DEF Quoted
<1> HIDE DEF from
<1>4. \A n \in Nat : q < n => (Escaped(q, n + 1) <=> Char(n) = "\\" /\ ~ Escaped(q, n))
  BY EscapedNext
<1>5. ASSUME NEW n \in 0 .. N, \A m \in n + 1 .. N : m \in S, q < n, ~ Escaped(q, n)
      PROVE  from[n] = EndFrom(n)
  <2>1. from[n] = IF n = N THEN n
                  ELSE IF Char(n) = quote THEN n + 1
                  ELSE IF Char(n) = "\\" /\ n + 1 < N THEN from[n + 2]
                  ELSE from[n + 1]
    BY <1>2
  <2>2. CASE n = N
    <3>1. Closing(n) = {}
      BY <2>2
    <3> HIDE DEF Closing
    <3> QED BY <2>1, <2>2, <3>1
  <2>3. CASE n # N /\ Char(n) = quote
    <3>1. n \in Closing(n) /\ Closing(n) \in SUBSET Nat /\ \A m \in Closing(n) : n <= m
      BY <1>5, <2>3
    <3> HIDE DEF Closing
    <3>2. Min(Closing(n)) \in Closing(n) /\ Min(Closing(n)) <= n
      BY <3>1, MinOf
    <3>3. Min(Closing(n)) = n
      <4>1. Min(Closing(n)) \in Nat /\ n <= Min(Closing(n))
        BY <3>1, <3>2
      <4> QED BY <4>1, <3>2
    <3> QED BY <2>1, <2>3, <3>1, <3>3
  <2>4. CASE n # N /\ Char(n) # quote /\ Char(n) = "\\" /\ n + 1 < N
    <3>1. Escaped(q, n + 1)
      BY <1>4, <1>5, <2>4
    <3>2. ~ Escaped(q, n + 2)
      <4>1. n + 1 \in Nat /\ q < n + 1 /\ (n + 1) + 1 = n + 2
        BY <1>5
      <4>2. Escaped(q, (n + 1) + 1) <=> Char(n + 1) = "\\" /\ ~ Escaped(q, n + 1)
        BY <4>1, <1>4
      <4> QED BY <4>1, <4>2, <3>1
    <3>3. n + 2 \in n + 1 .. N /\ q < n + 2
      BY <2>4, <1>5
    <3>4. from[n] = EndFrom(n + 2)
      <4>1. n + 2 \in S
        BY <3>3, <1>5
      <4> QED BY <4>1, <3>2, <3>3, <2>1, <2>4
    <3>5. Closing(n) = Closing(n + 2)
      <4>1. n \notin Closing(n) /\ n + 1 \notin Closing(n)
        BY <2>4, <3>1
      <4>2. \A m \in n .. N - 1 : m = n \/ m = n + 1 \/ m \in n + 2 .. N - 1
        OBVIOUS
      <4> QED BY <4>1, <4>2
    <3> HIDE DEF Closing
    <3> QED BY <3>4, <3>5
  <2>5. CASE n # N /\ Char(n) # quote /\ ~ (Char(n) = "\\" /\ n + 1 < N)
    <3>1. n + 1 \in n + 1 .. N /\ q < n + 1 /\ from[n] = from[n + 1]
      BY <2>1, <2>5, <1>5
    <3>2. Closing(n) = Closing(n + 1)
      <4>1. n \notin Closing(n)
        BY <2>5
      <4>2. \A m \in n .. N - 1 : m = n \/ m \in n + 1 .. N - 1
        OBVIOUS
      <4> QED BY <4>1, <4>2
    <3>3. CASE Char(n) # "\\"
      <4>1. ~ Escaped(q, n + 1)
        BY <3>3, <1>4, <1>5
      <4>2. n + 1 \in S
        BY <3>1, <1>5
      <4>3. from[n + 1] = EndFrom(n + 1)
        BY <3>1, <4>1, <4>2
      <4> HIDE DEF Closing
      <4> QED BY <3>1, <3>2, <4>3
    <3>4. CASE n + 1 = N
      <4>1. from[n + 1] = N /\ Closing(n + 1) = {}
        BY <3>4, <1>2
      <4> HIDE DEF Closing
      <4> QED BY <3>1, <3>2, <4>1
    <3> QED BY <3>1, <3>3, <3>4, <2>5
  <2> QED BY <2>2, <2>3, <2>4, <2>5
<1>6. \A n \in 0 .. N : n \in S
  <2>1. ASSUME NEW n \in 0 .. N, \A m \in n + 1 .. N : m \in S PROVE n \in S
    <3> HIDE DEF Closing
    <3> QED BY <2>1, <1>5
  <2> HIDE DEF S
  <2> QED BY <2>1, Downward
<1>7. ~ Escaped(q, q + 1)
  BY EscapedNext
<1>8. from[q + 1] = EndFrom(q + 1)
  <2>1. q + 1 \in 0 .. N
    OBVIOUS
  <2> HIDE DEF Closing
  <2> QED BY <2>1, <1>6, <1>7
<1>9. StringEnd(q) = EndFrom(q + 1)
  <2> HIDE DEF Min
  <2> QED BY DEF StringEnd
<1> QED BY <1>3, <1>8, <1>9

----------------------------------------------------------------------------
(* What both scanners cut (syntax_highlighter.h and js_lexer.h).           *)

Sign(n) ==
  /\ Char(n) \notin Blanks \union {Newline} \union Quotes \union Digits \union Letters
  /\ ~ (Is(n, "/") /\ (Is(n + 1, "/") \/ Is(n + 1, "*")))

\* Token t ends where what its first characters begin does.
Cut(t) ==
  LET from == t.from
      end == t.from + t.length
  IN \/ t.type = "Whitespace" /\ \A m \in from .. end - 1 : Char(m) \in Blanks \union {Newline}
     \/ t.type = "Comment" /\ Is(from, "/") /\ Is(from + 1, "/") /\ end = To(from, {Newline})
     \/ t.type = "Comment" /\ Is(from, "/") /\ Is(from + 1, "*") /\ end = BlockEnd(from)
     \/ t.type = "StringLiteral" /\ Char(from) \in Quotes /\ end = StringEnd(from)
     \/ /\ t.type = "NumericLiteral" /\ Char(from) \in Digits
        /\ end = Past(from, Digits \union NumberSigns)
     \/ /\ t.type \in {"Keyword", "Identifier"} /\ Char(from) \in Letters
        /\ end = Past(from, Letters \union Digits)
     \/ t.type = "Punctuator" /\ Sign(from) /\ end = from + 1

CutInv == \A k \in DOMAIN tokens : Cut(tokens[k])

LEMMA EmitCut ==
  ASSUME LexerInv, LexerInv', CutInv, code' = code, NEW type, NEW end \in Nat, NEW breaks,
         Emit(type, end, breaks),
         \A t : t.type = type /\ t.from = at /\ t.from + t.length = end => Cut(t)
  PROVE  CutInv'
<1> DEFINE t == [type |-> type, from |-> at, length |-> end - at, line |-> line', column |-> col]
           n == Len(tokens)
<1>1. tokens \in Seq(Token) /\ tokens' \in Seq(Token) /\ at \in Nat /\ n \in Nat
  BY DEF LexerInv, CodeEnd
<1>2. tokens' = Append(tokens, t)
  BY DEF Emit
<1>3. Cut(t)
  <2>1. t.type = type /\ t.from = at /\ t.length = end - at
    OBVIOUS
  <2>2. t.from + t.length = end
    BY <2>1, <1>1
  <2> HIDE DEF t
  <2> QED BY <2>1, <2>2
<1> HIDE DEF t
<1>4. /\ DOMAIN tokens' = 1 .. n + 1 /\ DOMAIN tokens = 1 .. n
      /\ tokens'[n + 1] = t /\ \A k \in 1 .. n : tokens'[k] = tokens[k]
  BY <1>1, <1>2
<1>5. \A u : Cut(u)' = Cut(u')
  BY DEF Cut, Sign, Is, Char, To, Past, BlockEnd, StringEnd, Escaped, CodeEnd
<1>6. \A k \in 1 .. n + 1 : Cut(tokens'[k])
  BY <1>1, <1>3, <1>4 DEF CutInv
<1> QED BY <1>4, <1>5, <1>6 DEF CutInv


LEMMA LexerCuts ==
  ASSUME LexerInv, CutInv, LexerNext
  PROVE  CutInv'
<1>1. CodeEnd \in Nat /\ at \in Nat /\ at \in 0 .. CodeEnd /\ code' = code /\ LexerInv'
  BY LexerNextInv DEF LexerInv, CodeEnd, LexerNext
<1>2. Lexing => at < CodeEnd
  BY DEF Lexing
<1>3. CASE LexBlank
  <2> DEFINE set == Blanks \union {Newline}
             end == Past(at, set)
  <2>1. end \in at .. CodeEnd /\ \A m \in at .. end - 1 : Char(m) \in set
    BY <1>1, PastIs
  <2>2. Emit("Whitespace", end, BreaksTo(end))
    BY <1>3 DEF LexBlank
  <2> HIDE DEF end
  <2>3. ASSUME NEW t, t.type = "Whitespace", t.from = at, t.from + t.length = end PROVE Cut(t)
    BY <2>1, <2>3 DEF Cut
  <2>4. end \in Nat
    BY <1>1, <2>1
  <2> QED BY <2>2, <2>3, <2>4, <1>1, EmitCut
<1>4. CASE LexLineComment
  <2> DEFINE end == To(at, {Newline})
  <2>1. Lexing /\ Is(at, "/") /\ Is(at + 1, "/") /\ Emit("Comment", end, {})
    BY <1>2, <1>4 DEF LexLineComment, AtComment, Is
  <2>2. end \in Nat
    BY <1>1, ToIs
  <2> HIDE DEF end
  <2>3. ASSUME NEW t, t.type = "Comment", t.from = at, t.from + t.length = end PROVE Cut(t)
    BY <2>1, <2>3 DEF Cut, end
  <2> QED BY <2>1, <2>2, <2>3, <1>1, EmitCut
<1>5. CASE LexBlockComment
  <2> DEFINE end == BlockEnd(at)
  <2>1. Lexing /\ Is(at, "/") /\ Is(at + 1, "*") /\ at + 1 < CodeEnd
        /\ Emit("Comment", end, BreaksTo(end))
    BY <1>2, <1>5 DEF LexBlockComment, AtComment, Is
  <2>2. end \in Nat
    BY <2>1, <1>1, BlockEndIs
  <2> HIDE DEF end
  <2>3. ASSUME NEW t, t.type = "Comment", t.from = at, t.from + t.length = end PROVE Cut(t)
    BY <2>1, <2>3 DEF Cut, end
  <2> QED BY <2>1, <2>2, <2>3, <1>1, EmitCut
<1>6. CASE LexString
  <2> DEFINE end == StringEnd(at)
             breaks == {m \in BreaksTo(end) : ~ Escaped(at, m)}
  <2>1. Lexing /\ Char(at) \in Quotes /\ Emit("StringLiteral", end, breaks)
    BY <1>6 DEF LexString
  <2>2. end \in Nat
    BY <2>1, <1>1, <1>2, StringEndIs
  <2> HIDE DEF end, breaks
  <2>3. ASSUME NEW t, t.type = "StringLiteral", t.from = at, t.from + t.length = end PROVE Cut(t)
    BY <2>1, <2>3 DEF Cut, end
  <2> QED BY <2>1, <2>2, <2>3, <1>1, EmitCut
<1>7. CASE LexNumber
  <2> DEFINE end == Past(at, Digits \union NumberSigns)
  <2>1. Char(at) \in Digits /\ Emit("NumericLiteral", end, {})
    BY <1>7 DEF LexNumber
  <2>2. end \in Nat
    BY <1>1, PastIs
  <2> HIDE DEF end
  <2>3. ASSUME NEW t, t.type = "NumericLiteral", t.from = at, t.from + t.length = end PROVE Cut(t)
    BY <2>1, <2>3 DEF Cut, end
  <2> QED BY <2>1, <2>2, <2>3, <1>1, EmitCut
<1>8. CASE LexWord
  <2> DEFINE end == Past(at, Letters \union Digits)
             type == IF SubSeq(code, at + 1, end) \in Keywords THEN "Keyword" ELSE "Identifier"
  <2>1. Char(at) \in Letters /\ Emit(type, end, {}) /\ type \in {"Keyword", "Identifier"}
    BY <1>8 DEF LexWord
  <2>2. end \in Nat
    BY <1>1, PastIs
  <2> HIDE DEF end, type
  <2>3. ASSUME NEW t, t.type = type, t.from = at, t.from + t.length = end PROVE Cut(t)
    BY <2>1, <2>3 DEF Cut, end
  <2> QED BY <2>1, <2>2, <2>3, <1>1, EmitCut
<1>9. CASE LexPunctuator
  <2>1. Sign(at) /\ Emit("Punctuator", at + 1, {})
    BY <1>9 DEF LexPunctuator, Sign, AtComment, Is
  <2>2. ASSUME NEW t, t.type = "Punctuator", t.from = at, t.from + t.length = at + 1 PROVE Cut(t)
    BY <2>1, <2>2 DEF Cut
  <2>3. at + 1 \in Nat
    BY <1>1
  <2> QED BY <2>1, <2>2, <2>3, <1>1, EmitCut
<1> QED BY <1>3, <1>4, <1>5, <1>6, <1>7, <1>8, <1>9 DEF LexerNext

----------------------------------------------------------------------------
(* The marks.                                                              *)

MarkTypes == {"COMMENT", "STRING", "NUMBER", "KEYWORD", "IDENTIFIER", "OPERATOR", "PUNCTUATION"}

MarkRecord == [type : MarkTypes, from : Nat, length : Nat, line : Nat, column : Int]

FeedsOf(mark) == Feeds(mark.from, mark.length)

\* A mark of several lines ends on the line that is reached, or that mark n
\* is on.
BehindNow ==
  \E k \in DOMAIN marks :
    FeedsOf(marks[k]) # {} /\ marks[k].line + Cardinality(FeedsOf(marks[k])) = currentLine

\* The highlighter's line is that of the place it has reached; so is its
\* column, but for the rest of the line behind a mark of several lines.
MarksInv ==
  /\ code \in Seq(Characters)
  /\ idx \in 0 .. CodeEnd
  /\ currentLine = LineAt(idx) /\ currentCol \in Int
  /\ BehindNow \/ currentCol = ColumnAt(idx)
  /\ marks \in Seq(MarkRecord) /\ Len(marks) <= MaxMarks
  /\ \A n \in DOMAIN marks : /\ marks[n].line = LineAt(marks[n].from)
                             /\ BehindBlock(n) \/ marks[n].column = ColumnAt(marks[n].from)

LEMMA BehindIs ==
  ASSUME NEW n
  PROVE  BehindBlock(n) <=>
           \E k \in 1 .. n - 1 : /\ FeedsOf(marks[k]) # {}
                                 /\ marks[k].line + Cardinality(FeedsOf(marks[k])) = marks[n].line
BY DEF BehindBlock, FeedsOf

LEMMA MarkInv ==
  ASSUME MarksInv, code' = code, Marking, NEW type \in MarkTypes,
         NEW end \in idx .. CodeEnd, Mark(type, end)
  PROVE  MarksInv'
<1> DEFINE n == Len(marks)
           t == [type |-> type, from |-> idx, length |-> end - idx,
                 line |-> currentLine, column |-> currentCol]
           feeds == FeedsIn(idx, end)
<1>1. /\ idx \in Nat /\ end \in Nat /\ idx <= end /\ end <= CodeEnd /\ CodeEnd \in Nat
      /\ marks \in Seq(MarkRecord) /\ n \in Nat /\ n < MaxMarks /\ MaxMarks \in Nat
      /\ currentLine = LineAt(idx) /\ currentCol \in Int
  BY ScannersAssumption DEF MarksInv, Marking, CodeEnd
<1>2. /\ LineAt(idx) \in Nat /\ ColumnAt(idx) \in Int /\ LineAt(end) \in Nat /\ ColumnAt(end) \in Int
      /\ LineAt(end) = LineAt(idx) + Cardinality(feeds)
      /\ feeds = {} => ColumnAt(end) = ColumnAt(idx) + (end - idx)
  BY <1>1, Onward
<1>3. /\ marks' = Append(marks, t) /\ idx' = end
      /\ currentLine' = currentLine + Cardinality(feeds)
      /\ currentCol' = (IF feeds = {} THEN currentCol ELSE 1) + (end - idx)
  BY DEF Mark, FeedsIn
<1>4. t \in MarkRecord /\ t.from = idx /\ t.from + t.length = end /\ t.line = LineAt(idx)
      /\ t.column = currentCol
  BY <1>1, <1>2 DEF MarkRecord
<1>5. FeedsOf(t) = feeds
  <2>1. t.from = idx /\ t.length = end - idx
    OBVIOUS
  <2> HIDE DEF t
  <2> QED BY <2>1, <1>1 DEF FeedsOf, Feeds, FeedsIn
<1> HIDE DEF t, feeds
<1>6. /\ marks' \in Seq(MarkRecord) /\ Len(marks') = n + 1
      /\ DOMAIN marks' = 1 .. n + 1 /\ DOMAIN marks = 1 .. n
      /\ marks'[n + 1] = t /\ \A k \in 1 .. n : marks'[k] = marks[k]
  BY <1>1, <1>3, <1>4, AppendProperties
<1>7. /\ \A m : LineAt(m)' = LineAt(m') /\ ColumnAt(m)' = ColumnAt(m')
      /\ CodeEnd' = CodeEnd /\ \A u, v : Feeds(u, v)' = Feeds(u', v')
  BY DEF LineAt, ColumnAt, LinesBefore, Char, CodeEnd, Feeds
<1>8. ASSUME NEW k \in 1 .. n + 1
      PROVE  BehindBlock(k)' <=>
               \E l \in 1 .. k - 1 : /\ FeedsOf(marks[l]) # {}
                                     /\ marks[l].line + Cardinality(FeedsOf(marks[l])) = marks'[k].line
  <2>1. \A l \in 1 .. k - 1 : marks'[l] = marks[l]
    BY <1>1, <1>6
  <2>2. BehindBlock(k)' <=>
          \E l \in 1 .. k - 1 : /\ FeedsOf(marks'[l]) # {}
                                /\ marks'[l].line + Cardinality(FeedsOf(marks'[l])) = marks'[k].line
    BY <1>7 DEF BehindBlock, FeedsOf
  <2> QED BY <2>1, <2>2
<1>9. BehindNow' \/ currentCol' = ColumnAt(end)
  <2>1. CASE feeds # {}
    <3>1. FeedsOf(marks'[n + 1]) = feeds
      BY <1>5, <1>6
    <3>2. marks'[n + 1].line + Cardinality(feeds) = currentLine'
      BY <1>1, <1>3, <1>4, <1>6
    <3>3. n + 1 \in DOMAIN marks'
      BY <1>1, <1>6
    <3> QED BY <2>1, <3>1, <3>2, <3>3, <1>7 DEF BehindNow, FeedsOf
  <2>2. CASE feeds = {} /\ BehindNow
    <3>1. currentLine' = currentLine
      <4>1. Cardinality(feeds) = 0
        BY <2>2, FS_EmptySet
      <4> QED BY <4>1, <1>1, <1>2, <1>3
    <3>2. PICK k \in DOMAIN marks : FeedsOf(marks[k]) # {}
                 /\ marks[k].line + Cardinality(FeedsOf(marks[k])) = currentLine
      BY <2>2 DEF BehindNow
    <3>3. k \in DOMAIN marks' /\ marks'[k] = marks[k]
      BY <1>1, <1>6
    <3> QED BY <3>1, <3>2, <3>3, <1>7 DEF BehindNow, FeedsOf
  <2>3. CASE feeds = {} /\ currentCol = ColumnAt(idx)
    BY <2>3, <1>1, <1>2, <1>3
  <2> QED BY <2>1, <2>2, <2>3 DEF MarksInv
<1>10. ASSUME NEW k \in 1 .. n + 1
       PROVE  /\ marks'[k].line = LineAt(marks'[k].from)
              /\ BehindBlock(k)' \/ marks'[k].column = ColumnAt(marks'[k].from)
  <2>1. CASE k = n + 1
    <3>1. marks'[k] = t /\ t.line = LineAt(t.from)
      BY <2>1, <1>4, <1>6
    <3>2. CASE BehindNow
      <4>1. t.line = currentLine /\ 1 .. k - 1 = DOMAIN marks
        BY <2>1, <1>1, <1>4, <1>6
      <4> QED BY <3>1, <3>2, <4>1, <1>8 DEF BehindNow
    <3>3. CASE currentCol = ColumnAt(idx)
      BY <3>1, <3>3, <1>4
    <3> QED BY <3>1, <3>2, <3>3 DEF MarksInv
  <2>2. CASE k \in 1 .. n
    <3>1. marks'[k] = marks[k] /\ k \in DOMAIN marks
      BY <2>2, <1>6
    <3>2. BehindBlock(k) => BehindBlock(k)'
      BY <3>1, <1>8, BehindIs
    <3> QED BY <3>1, <3>2 DEF MarksInv
  <2> QED BY <2>1, <2>2, <1>1
<1>11. currentLine' = LineAt(idx') /\ currentCol' \in Int /\ idx' \in 0 .. CodeEnd
  BY <1>1, <1>2, <1>3
<1>12. code' \in Seq(Characters) /\ Len(marks') <= MaxMarks
  BY <1>1, <1>6 DEF MarksInv
<1>13. /\ (currentLine = LineAt(idx))' /\ (idx \in 0 .. CodeEnd)'
       /\ (BehindNow \/ currentCol = ColumnAt(idx))'
  BY <1>3, <1>7, <1>9, <1>11
<1>14. (\A k \in DOMAIN marks : /\ marks[k].line = LineAt(marks[k].from)
                                /\ BehindBlock(k) \/ marks[k].column = ColumnAt(marks[k].from))'
  BY <1>6, <1>7, <1>10
<1> QED BY <1>6, <1>11, <1>12, <1>13, <1>14 DEF MarksInv

LEMMA BlankInv ==
  ASSUME MarksInv, code' = code, SkipBlank
  PROVE  MarksInv'
<1> DEFINE feeds == FeedsIn(idx, idx + 1)
<1>1. /\ idx \in Nat /\ idx < CodeEnd /\ CodeEnd \in Nat /\ currentLine = LineAt(idx)
      /\ currentCol \in Int
      /\ marks' = marks /\ idx' = idx + 1
      /\ currentLine' = (IF Char(idx) = Newline THEN currentLine + 1 ELSE currentLine)
      /\ currentCol' = (IF Char(idx) = Newline THEN 1 ELSE currentCol + 1)
  BY DEF MarksInv, SkipBlank, Marking, CodeEnd
<1>2. /\ LineAt(idx) \in Nat /\ ColumnAt(idx) \in Int
      /\ LineAt(idx + 1) = LineAt(idx) + Cardinality(feeds)
      /\ feeds = {} => ColumnAt(idx + 1) = ColumnAt(idx) + ((idx + 1) - idx)
      /\ feeds # {} => ColumnAt(idx + 1) = (idx + 1) - Max(feeds)
  <2>1. idx + 1 \in Nat /\ idx <= idx + 1
    BY <1>1
  <2> QED BY <2>1, <1>1, Onward
<1>3. /\ Char(idx) = Newline => feeds = {idx}
      /\ Char(idx) # Newline => feeds = {}
  BY <1>1 DEF FeedsIn
<1> HIDE DEF feeds
<1>4. Char(idx) = Newline => Cardinality(feeds) = 1 /\ ColumnAt(idx + 1) = 1
  <2> SUFFICES ASSUME Char(idx) = Newline PROVE Cardinality(feeds) = 1 /\ ColumnAt(idx + 1) = 1
    OBVIOUS
  <2>1. Cardinality(feeds) = 1
    BY <1>3, FS_Singleton
  <2>2. Max(feeds) \in feeds
    <3>1. feeds # {} /\ feeds \in SUBSET (0 .. idx)
      BY <1>1, <1>3
    <3> QED BY <3>1, <1>1, MaxOf
  <2> QED BY <2>1, <2>2, <1>1, <1>2, <1>3
<1>5. Char(idx) # Newline => Cardinality(feeds) = 0 /\ ColumnAt(idx + 1) = ColumnAt(idx) + 1
  BY <1>1, <1>2, <1>3, FS_EmptySet
<1>6. currentLine' = LineAt(idx') /\ currentCol' \in Int /\ idx' \in 0 .. CodeEnd
  BY <1>1, <1>2, <1>4, <1>5
<1>7. /\ \A m : LineAt(m)' = LineAt(m') /\ ColumnAt(m)' = ColumnAt(m')
      /\ CodeEnd' = CodeEnd /\ \A u, v : Feeds(u, v)' = Feeds(u', v')
  BY DEF LineAt, ColumnAt, LinesBefore, Char, CodeEnd, Feeds
<1>8. BehindNow' \/ currentCol' = ColumnAt(idx')
  <2>1. CASE Char(idx) = Newline
    BY <2>1, <1>1, <1>4
  <2>2. CASE Char(idx) # Newline /\ BehindNow
    BY <2>2, <1>1, <1>7 DEF BehindNow, FeedsOf
  <2>3. CASE Char(idx) # Newline /\ currentCol = ColumnAt(idx)
    BY <2>3, <1>1, <1>5
  <2> QED BY <2>1, <2>2, <2>3 DEF MarksInv
<1>9. \A k : BehindBlock(k)' <=> BehindBlock(k')
  BY <1>1 DEF BehindBlock, Feeds, Char
<1> QED BY <1>1, <1>6, <1>7, <1>8, <1>9 DEF MarksInv

WordMark(n) ==
  IF SubSeq(code, n + 1, Past(n, Letters \union Digits)) \in ShownKeywords
  THEN "KEYWORD" ELSE "IDENTIFIER"

SignMark(n) == IF Char(n) \in Operators THEN "OPERATOR" ELSE "PUNCTUATION"

\* A turn of the highlighter's loop, said with the lexer's ends.
Turn ==
  \/ SkipBlank
  \/ Is(idx, "/") /\ Is(idx + 1, "/") /\ Mark("COMMENT", To(idx, {Newline}))
  \/ Is(idx, "/") /\ Is(idx + 1, "*") /\ Mark("COMMENT", BlockEnd(idx))
  \/ Char(idx) \in Quotes /\ Mark("STRING", StringEnd(idx))
  \/ Char(idx) \in Digits /\ Mark("NUMBER", Past(idx, Digits \union NumberSigns))
  \/ Char(idx) \in Letters /\ Mark(WordMark(idx), Past(idx, Letters \union Digits))
  \/ Sign(idx) /\ Mark(SignMark(idx), idx + 1)

LEMMA HighlighterTurns ==
  ASSUME MarksInv, HighlighterNext
  PROVE  code' = code /\ Marking /\ Turn
<1>1. CodeEnd \in Nat /\ idx \in Nat /\ idx \in 0 .. CodeEnd
  BY DEF MarksInv, CodeEnd
<1>2. code' = code /\ Marking
  BY DEF HighlighterNext, SkipBlank, MarkLineComment, MarkBlockComment, MarkString, MarkNumber,
         MarkWord, MarkSign
<1>3. idx < CodeEnd
  BY <1>2 DEF Marking
<1>4. MarkLineComment => Turn
  <2>1. LineFrom[idx] = To(idx, {Newline})
    BY <1>1, LineFromIs
  <2> QED BY <2>1 DEF MarkLineComment, Turn
<1>5. MarkBlockComment => Turn
  <2> SUFFICES ASSUME MarkBlockComment PROVE Turn
    OBVIOUS
  <2>1. idx + 1 < CodeEnd
    BY DEF MarkBlockComment, Is
  <2>2. BlockFrom[idx + 2] = BlockEnd(idx)
    BY <1>1, <2>1, BlockFromIs
  <2> QED BY <2>2 DEF MarkBlockComment, Turn
<1>6. MarkString => Turn
  <2> SUFFICES ASSUME MarkString PROVE Turn
    OBVIOUS
  <2>1. Char(idx) # "\\"
    BY ScannersAssumption DEF MarkString
  <2>2. Quoted(Char(idx), idx + 1) = StringEnd(idx)
    BY <1>1, <1>3, <2>1, QuotedIs
  <2> QED BY <2>2 DEF MarkString, Turn
<1>7. MarkNumber => Turn
  <2>1. Run(idx, Digits \union NumberSigns) = Past(idx, Digits \union NumberSigns)
    BY <1>1, RunIs
  <2> QED BY <2>1 DEF MarkNumber, Turn
<1>8. MarkWord => Turn
  <2>1. Run(idx, Letters \union Digits) = Past(idx, Letters \union Digits)
    BY <1>1, RunIs
  <2>2. MarkWord => Char(idx) \in Letters /\ Mark(WordMark(idx), Past(idx, Letters \union Digits))
    BY <2>1 DEF MarkWord, WordMark
  <2> QED BY <2>2 DEF Turn
<1>9. MarkSign => Turn
  <2>1. MarkSign => Sign(idx) /\ Mark(SignMark(idx), idx + 1)
    BY DEF MarkSign, Sign, SignMark
  <2> QED BY <2>1 DEF Turn
<1> QED BY <1>2, <1>4, <1>5, <1>6, <1>7, <1>8, <1>9 DEF HighlighterNext, Turn

LEMMA HighlighterInv ==
  ASSUME MarksInv, HighlighterNext
  PROVE  MarksInv'
<1>1. CodeEnd \in Nat /\ idx \in Nat /\ idx < CodeEnd /\ idx \in 0 .. CodeEnd
  BY HighlighterTurns DEF MarksInv, CodeEnd, Marking
<1>2. /\ To(idx, {Newline}) \in idx .. CodeEnd
      /\ Is(idx + 1, "*") => BlockEnd(idx) \in idx .. CodeEnd
      /\ StringEnd(idx) \in idx .. CodeEnd
      /\ \A set : Past(idx, set) \in idx .. CodeEnd
      /\ idx + 1 \in idx .. CodeEnd
  <2>1. Is(idx + 1, "*") => BlockEnd(idx) \in idx + 2 .. CodeEnd
    BY <1>1, BlockEndIs DEF Is
  <2>2. StringEnd(idx) \in idx + 1 .. CodeEnd
    BY <1>1, StringEndIs
  <2> QED BY <2>1, <2>2, <1>1, ToIs, PastIs
<1>3. WordMark(idx) \in MarkTypes /\ SignMark(idx) \in MarkTypes
  BY DEF WordMark, SignMark, MarkTypes
<1>4. code' = code /\ Marking /\ Turn
  BY HighlighterTurns
<1>5. CASE SkipBlank
  BY <1>4, <1>5, BlankInv
<1>6. ASSUME NEW type \in MarkTypes, NEW end \in idx .. CodeEnd, Mark(type, end) PROVE MarksInv'
  BY <1>4, <1>6, MarkInv
<1>7. "COMMENT" \in MarkTypes /\ "STRING" \in MarkTypes /\ "NUMBER" \in MarkTypes
  BY DEF MarkTypes
<1>8. CASE Is(idx, "/") /\ Is(idx + 1, "/") /\ Mark("COMMENT", To(idx, {Newline}))
  BY <1>2, <1>6, <1>7, <1>8
<1>9. CASE Is(idx, "/") /\ Is(idx + 1, "*") /\ Mark("COMMENT", BlockEnd(idx))
  BY <1>2, <1>6, <1>7, <1>9
<1>10. CASE Mark("STRING", StringEnd(idx)) \/ Mark("NUMBER", Past(idx, Digits \union NumberSigns))
  BY <1>2, <1>6, <1>7, <1>10
<1>11. CASE Mark(WordMark(idx), Past(idx, Letters \union Digits)) \/ Mark(SignMark(idx), idx + 1)
  BY <1>2, <1>3, <1>6, <1>11
<1> QED BY <1>4, <1>5, <1>8, <1>9, <1>10, <1>11 DEF Turn

\* The first character says what a token or a mark is.
LEMMA FirstCharacter ==
  ASSUME NEW n
  PROVE  LET c == Char(n)
             blank == Blanks \union {Newline}
         IN /\ ~ Sign(n) <=> \/ c \in blank \/ c \in Quotes \/ c \in Digits \/ c \in Letters
                             \/ Is(n, "/") /\ (Is(n + 1, "/") \/ Is(n + 1, "*"))
            /\ Is(n, "/") => c \notin blank /\ c \notin Quotes /\ c \notin Digits /\ c \notin Letters
            /\ c \in blank => c \notin Quotes /\ c \notin Digits /\ c \notin Letters
            /\ c \in Quotes => c \notin Digits /\ c \notin Letters
            /\ c \in Digits => c \notin Letters
            /\ ~ (Is(n + 1, "/") /\ Is(n + 1, "*"))
BY ScannersAssumption, CodeTextAssumption DEF Sign, Is, Newline

\* A turn at the beginning of a token skips it if it is blank, and makes of it
\* the mark it is shown as otherwise.
LEMMA HighlighterCuts ==
  ASSUME MarksInv, HighlighterNext, NEW t \in Token, Cut(t), t.from = idx, t.length > 0
  PROVE  IF t.type = "Whitespace" THEN SkipBlank
         ELSE Mark(ShownAs(t), t.from + t.length)
<1> DEFINE c == Char(idx)
           end == t.from + t.length
           blank == Blanks \union {Newline}
<1>1. /\ CodeEnd \in Nat /\ idx \in Nat /\ idx < CodeEnd /\ t.length \in Nat /\ end > idx
      /\ code \in Seq(Characters)
  BY HighlighterTurns DEF MarksInv, CodeEnd, Marking, Token
<1>2. Turn
  BY HighlighterTurns
<1>3. SkipBlank => c \in blank
  BY DEF SkipBlank
<1>4. CASE t.type = "Whitespace"
  <2>1. c \in blank
    BY <1>1, <1>4 DEF Cut
  <2> QED BY <2>1, <1>2, <1>4, FirstCharacter DEF Turn
<1>5. CASE t.type = "Comment" /\ Is(idx, "/") /\ Is(idx + 1, "/") /\ end = To(idx, {Newline})
  <2>1. ShownAs(t) = "COMMENT"
    BY <1>5 DEF ShownAs
  <2> QED BY <2>1, <1>2, <1>3, <1>5, FirstCharacter DEF Turn
<1>6. CASE t.type = "Comment" /\ Is(idx, "/") /\ Is(idx + 1, "*") /\ end = BlockEnd(idx)
  <2>1. ShownAs(t) = "COMMENT"
    BY <1>6 DEF ShownAs
  <2> QED BY <2>1, <1>2, <1>3, <1>6, FirstCharacter DEF Turn
<1>7. CASE t.type = "StringLiteral" /\ c \in Quotes /\ end = StringEnd(idx)
  <2>1. ShownAs(t) = "STRING"
    BY <1>7 DEF ShownAs
  <2> QED BY <2>1, <1>2, <1>3, <1>7, FirstCharacter DEF Turn
<1>8. CASE t.type = "NumericLiteral" /\ c \in Digits /\ end = Past(idx, Digits \union NumberSigns)
  <2>1. ShownAs(t) = "NUMBER"
    BY <1>8 DEF ShownAs
  <2> QED BY <2>1, <1>2, <1>3, <1>8, FirstCharacter DEF Turn
<1>9. CASE t.type \in {"Keyword", "Identifier"} /\ c \in Letters /\ end = Past(idx, Letters \union Digits)
  <2>1. ShownAs(t) = WordMark(idx)
    BY <1>9 DEF ShownAs, WordMark
  <2>2. Mark(WordMark(idx), Past(idx, Letters \union Digits))
    BY <1>2, <1>3, <1>9, FirstCharacter DEF Turn
  <2> QED BY <2>1, <2>2, <1>9
<1>10. CASE t.type = "Punctuator" /\ Sign(idx) /\ end = idx + 1
  <2>1. ShownAs(t) = SignMark(idx)
    <3>1. SubSeq(code, idx + 1, idx + 1)[1] = Char(idx)
      <4>1. idx + 1 \in 1 .. Len(code)
        BY <1>1 DEF CodeEnd
      <4>2. \A m \in idx + 1 .. idx + 1 : code[m] \in Characters
        BY <4>1, <1>1, ElementOfSeq
      <4>3. \A m \in 1 .. (idx + 1) - (idx + 1) + 1 :
              SubSeq(code, idx + 1, idx + 1)[m] = code[(idx + 1) + m - 1]
        BY <4>2, <1>1, SubSeqProperties
      <4>4. 1 \in 1 .. (idx + 1) - (idx + 1) + 1 /\ (idx + 1) + 1 - 1 = idx + 1
        BY <1>1
      <4>5. SubSeq(code, idx + 1, idx + 1)[1] = code[(idx + 1) + 1 - 1]
        BY <4>3, <4>4
      <4> QED BY <4>4, <4>5 DEF Char
    <3> QED BY <3>1, <1>10 DEF ShownAs, SignMark
  <2>2. Mark(SignMark(idx), idx + 1)
    BY <1>2, <1>3, <1>10, FirstCharacter DEF Turn
  <2> QED BY <2>1, <2>2, <1>10
<1> QED BY <1>4, <1>5, <1>6, <1>7, <1>8, <1>9, <1>10 DEF Cut

\* Where token k ends.
EndOf(k) == IF k = 0 THEN 0 ELSE tokens[k].from + tokens[k].length

LEMMA EndsOfTokens ==
  ASSUME LexerInv
  PROVE  LET N == Len(tokens) IN
         /\ N \in Nat /\ DOMAIN tokens = 1 .. N /\ EndOf(0) = 0 /\ EndOf(N) = at
         /\ \A k \in 0 .. N - 1 :
              /\ tokens[k + 1] \in Token
              /\ tokens[k + 1].from = EndOf(k) /\ tokens[k + 1].length > 0
              /\ EndOf(k + 1) = EndOf(k) + tokens[k + 1].length
         /\ \A k \in 0 .. N : EndOf(k) \in Nat /\ (k < N => EndOf(k) < at)
<1> DEFINE N == Len(tokens)
<1>1. /\ N \in Nat /\ DOMAIN tokens = 1 .. N /\ at \in Nat /\ EndOf(0) = 0
      /\ \A k \in 1 .. N : tokens[k] \in Token
  BY ElementOfSeq DEF LexerInv, CodeEnd, EndOf
<1>2. /\ tokens = << >> => at = 0
      /\ tokens # << >> => tokens[1].from = 0
      /\ \A k \in DOMAIN tokens : Placed(tokens[k], IF k = N THEN at ELSE tokens[k + 1].from)
      /\ N = 0 => tokens = << >>
      /\ tokens = << >> => N = 0
  BY EmptySeq DEF LexerInv
<1> HIDE DEF N
<1>3. ASSUME NEW k \in 1 .. N
      PROVE  /\ tokens[k].length > 0 /\ EndOf(k) \in Nat
             /\ EndOf(k) = IF k = N THEN at ELSE tokens[k + 1].from
             /\ EndOf(k) = tokens[k].from + tokens[k].length
  <2>1. k \in Nat /\ k # 0 /\ k \in DOMAIN tokens /\ tokens[k] \in Token
    BY <1>1
  <2>2. EndOf(k) = tokens[k].from + tokens[k].length
    BY <2>1 DEF EndOf
  <2> HIDE DEF EndOf
  <2>3. tokens[k].from \in Nat /\ tokens[k].length \in Nat
    BY <2>1 DEF Token
  <2>4. Placed(tokens[k], IF k = N THEN at ELSE tokens[k + 1].from)
    BY <2>1, <1>2
  <2> QED BY <2>2, <2>3, <2>4 DEF Placed
<1>4. ASSUME NEW k \in 0 .. N - 1
      PROVE  tokens[k + 1].from = EndOf(k)
  <2>1. CASE k = 0
    <3>1. tokens # << >>
      BY <1>2, <1>1, <2>1
    <3> QED BY <3>1, <2>1, <1>2, <1>1
  <2>2. CASE k # 0
    <3>1. k \in 1 .. N /\ k # N
      BY <1>1, <2>2
    <3>2. EndOf(k) = tokens[k + 1].from
      BY <3>1, <1>3
    <3> QED BY <3>2
  <2> QED BY <2>1, <2>2
<1>5. EndOf(N) = at
  <2>1. CASE N = 0
    BY <2>1, <1>2, <1>1
  <2>2. CASE N # 0
    <3>1. N \in 1 .. N
      BY <2>2, <1>1
    <3> QED BY <3>1, <1>3
  <2> QED BY <2>1, <2>2
<1>6. ASSUME NEW k \in 0 .. N - 1
      PROVE  /\ tokens[k + 1] \in Token
             /\ tokens[k + 1].from = EndOf(k) /\ tokens[k + 1].length > 0
             /\ EndOf(k + 1) = EndOf(k) + tokens[k + 1].length
  <2>1. k + 1 \in 1 .. N
    BY <1>1
  <2> QED BY <2>1, <1>1, <1>3, <1>4
<1>7. \A k \in 0 .. N : EndOf(k) \in Nat
  <2>1. \A k \in 0 .. N : k = 0 \/ k \in 1 .. N
    BY <1>1
  <2> QED BY <2>1, <1>1, <1>3
<1> DEFINE S == {k \in 0 .. N : k < N => EndOf(k) < at}
<1>8. \A k \in 0 .. N : k \in S
  <2>1. ASSUME NEW k \in 0 .. N, \A m \in k + 1 .. N : m \in S PROVE k \in S
    <3>1. CASE k = N
      BY <3>1, <1>1
    <3>2. CASE k # N
      <4>1. k \in 0 .. N - 1 /\ k + 1 \in k + 1 .. N /\ k + 1 \in 0 .. N
        BY <3>2, <1>1
      <4>2. EndOf(k) < EndOf(k + 1)
        <5>1. tokens[k + 1].length \in Nat /\ tokens[k + 1].length > 0
          BY <4>1, <1>6 DEF Token
        <5> QED BY <5>1, <4>1, <1>6, <1>7
      <4>3. EndOf(k + 1) = at \/ EndOf(k + 1) < at
        BY <4>1, <2>1, <1>1, <1>5
      <4>4. EndOf(k) \in Nat /\ EndOf(k + 1) \in Nat
        BY <4>1, <1>7
      <4> QED BY <4>2, <4>3, <4>4, <1>1
    <3> QED BY <3>1, <3>2
  <2> HIDE DEF S
  <2> QED BY <2>1, <1>1, Downward
<1> QED BY <1>1, <1>5, <1>6, <1>7, <1>8 DEF N

\* Shown is what its recursion says, and grows from token to token.
LEMMA ShownIs ==
  ASSUME NEW T, tokens \in Seq(T)
  PROVE  LET N == Len(tokens) IN
         /\ Shown[0] = << >>
         /\ \A k \in 0 .. N : Shown[k] \in Seq(T)
         /\ \A k \in 0 .. N - 1 :
              Shown[k + 1] = IF tokens[k + 1].type = "Whitespace" THEN Shown[k]
                             ELSE Append(Shown[k], tokens[k + 1])
<1> DEFINE N == Len(tokens)
           V == Seq(T)
           step == [a \in Nat \X V |->
                      IF a[1] \notin 1 .. N \/ tokens[a[1]].type = "Whitespace" THEN a[2]
                      ELSE Append(a[2], tokens[a[1]])]
<1>1. N \in Nat /\ \A k \in 1 .. N : tokens[k] \in T
  BY ElementOfSeq
<1>2. step \in [Nat \X V -> V] /\ << >> \in V
  <2>1. ASSUME NEW n \in Nat, NEW q \in V
        PROVE (IF n \notin 1 .. N \/ tokens[n].type = "Whitespace" THEN q
               ELSE Append(q, tokens[n])) \in V
    BY <1>1, AppendProperties
  <2> QED BY <2>1
<1>3. PICK f \in [0 .. N -> V] : Recursive(f, N, << >>, step)
  <2> HIDE DEF N, step, V
  <2> QED BY <1>1, <1>2, Recursion
<1>4. f[0] = << >>
  BY <1>3 DEF Recursive
<1>5. ASSUME NEW k \in 1 .. N
      PROVE  f[k] = IF tokens[k].type = "Whitespace" THEN f[k - 1]
                    ELSE Append(f[k - 1], tokens[k])
  <2>1. k \in Nat /\ k - 1 \in 0 .. N
    BY <1>1
  <2>2. f[k - 1] \in V
    BY <2>1, <1>3
  <2>3. f[k] = step[<<k, f[k - 1]>>]
    BY <1>3 DEF Recursive
  <2> QED BY <2>1, <2>2, <2>3
<1>6. f = [k \in 0 .. N |-> IF k = 0 THEN << >>
                            ELSE IF tokens[k].type = "Whitespace" THEN f[k - 1]
                            ELSE Append(f[k - 1], tokens[k])]
  <2>1. \A k \in 0 .. N : k = 0 \/ k \in 1 .. N
    BY <1>1
  <2>2. \A k \in 0 .. N : f[k] = IF k = 0 THEN << >>
                                 ELSE IF tokens[k].type = "Whitespace" THEN f[k - 1]
                                 ELSE Append(f[k - 1], tokens[k])
    BY <2>1, <1>4, <1>5
  <2> HIDE DEF V
  <2> QED BY <2>2, <1>3
<1>7. Shown = [k \in 0 .. N |-> IF k = 0 THEN << >>
                                ELSE IF tokens[k].type = "Whitespace" THEN Shown[k - 1]
                                ELSE Append(Shown[k - 1], tokens[k])]
  BY <1>6 DEF Shown
<1> HIDE DEF N, Shown
<1>8. Shown[0] = << >>
  BY <1>1, <1>7
<1>9. ASSUME NEW k \in 0 .. N - 1
      PROVE  Shown[k + 1] = IF tokens[k + 1].type = "Whitespace" THEN Shown[k]
                            ELSE Append(Shown[k], tokens[k + 1])
  <2>1. k + 1 \in 0 .. N /\ k + 1 # 0 /\ (k + 1) - 1 = k
    BY <1>1
  <2> QED BY <2>1, <1>7
<1> DEFINE S == {k \in Nat : k <= N => Shown[k] \in Seq(T)}
<1>10. \A k \in Nat : k \in S
  <2>1. 0 \in S
    BY <1>2, <1>8
  <2>2. ASSUME NEW k \in Nat, k \in S PROVE k + 1 \in S
    <3>1. CASE k + 1 <= N
      <4>1. k \in 0 .. N - 1 /\ k + 1 \in 1 .. N /\ Shown[k] \in Seq(T)
        BY <3>1, <2>2, <1>1
      <4>2. Append(Shown[k], tokens[k + 1]) \in Seq(T)
        BY <4>1, <1>1, AppendProperties
      <4>3. Shown[k + 1] \in Seq(T)
        BY <4>1, <4>2, <1>9
      <4> QED BY <4>3, <2>2
    <3>2. CASE ~ (k + 1 <= N)
      BY <3>2
    <3> QED BY <3>1, <3>2
  <2> HIDE DEF S
  <2> QED BY <2>1, <2>2, Induction
<1>11. \A k \in 0 .. N : Shown[k] \in Seq(T)
  BY <1>1, <1>10
<1> QED BY <1>8, <1>9, <1>11 DEF N

LEMMA ShownGrows ==
  ASSUME tokens \in Seq(Token), NEW k \in 0 .. Len(tokens)
  PROVE  LET all == Shown[Len(tokens)] IN
         /\ Len(Shown[k]) <= Len(all)
         /\ \A n \in 1 .. Len(Shown[k]) : all[n] = Shown[k][n]
<1> DEFINE N == Len(tokens)
           all == Shown[N]
           Part(l) == Len(Shown[l]) <= Len(all) /\ \A n \in 1 .. Len(Shown[l]) : all[n] = Shown[l][n]
           S == {l \in 0 .. N : Part(l)}
<1>1. /\ N \in Nat /\ \A l \in 0 .. N : Shown[l] \in Seq(Token)
      /\ \A l \in 0 .. N - 1 : Shown[l + 1] = IF tokens[l + 1].type = "Whitespace" THEN Shown[l]
                                              ELSE Append(Shown[l], tokens[l + 1])
      /\ \A l \in 1 .. N : tokens[l] \in Token
  BY ShownIs, ElementOfSeq
<1>2. ASSUME NEW l \in 0 .. N, \A m \in l + 1 .. N : m \in S PROVE l \in S
  <2>1. CASE l = N
    <3>1. Len(all) \in Nat
      BY <1>1
    <3> QED BY <2>1, <3>1
  <2>2. CASE l # N
    <3>1. l \in 0 .. N - 1 /\ l + 1 \in l + 1 .. N /\ l + 1 \in 1 .. N /\ l + 1 \in 0 .. N
      BY <2>2, <1>1
    <3>2. Part(l + 1)
      BY <3>1, <1>2
    <3>3. Shown[l] \in Seq(Token) /\ Shown[l + 1] \in Seq(Token) /\ tokens[l + 1] \in Token
          /\ Len(all) \in Nat
      BY <3>1, <1>1
    <3>4. Len(Shown[l]) <= Len(Shown[l + 1])
          /\ \A n \in 1 .. Len(Shown[l]) : Shown[l + 1][n] = Shown[l][n]
      <4>1. CASE Shown[l + 1] = Shown[l]
        BY <4>1, <3>3
      <4>2. CASE Shown[l + 1] = Append(Shown[l], tokens[l + 1])
        BY <4>2, <3>3
      <4> QED BY <4>1, <4>2, <3>1, <1>1
    <3>5. Part(l)
      <4>1. Len(Shown[l]) \in Nat /\ Len(Shown[l + 1]) \in Nat
        BY <3>3
      <4>2. /\ Len(Shown[l + 1]) <= Len(all)
            /\ \A n \in 1 .. Len(Shown[l + 1]) : all[n] = Shown[l + 1][n]
        BY <3>2
      <4>3. \A n \in 1 .. Len(Shown[l]) : n \in 1 .. Len(Shown[l + 1])
        BY ONLY <3>4, <4>1
      <4>4. \A n \in 1 .. Len(Shown[l]) : all[n] = Shown[l][n]
        BY ONLY <3>4, <4>2, <4>3
      <4>5. Len(Shown[l]) <= Len(all)
        BY ONLY <3>3, <3>4, <4>1, <4>2
      <4> QED BY <4>4, <4>5
    <3> QED BY <3>5
  <2> QED BY <2>1, <2>2
<1>3. \A l \in 0 .. N : l \in S
  <2> HIDE DEF S, N
  <2> QED BY <1>1, <1>2, Downward
<1> QED BY <1>3

\* Every turn goes on, and leaves the marks there are.
LEMMA TurnMoves ==
  ASSUME MarksInv, HighlighterNext
  PROVE  /\ idx' > idx
         /\ Len(marks') >= Len(marks) /\ \A n \in 1 .. Len(marks) : marks'[n] = marks[n]
<1>1. CodeEnd \in Nat /\ idx \in Nat /\ idx < CodeEnd /\ idx \in 0 .. CodeEnd
      /\ marks \in Seq(MarkRecord) /\ marks' \in Seq(MarkRecord)
  BY HighlighterTurns, HighlighterInv DEF MarksInv, CodeEnd, Marking
<1>2. code' = code /\ Marking /\ Turn
  BY HighlighterTurns
<1>3. ASSUME NEW type, NEW end, Mark(type, end)
      PROVE  /\ idx' = end
             /\ Len(marks') >= Len(marks) /\ \A n \in 1 .. Len(marks) : marks'[n] = marks[n]
  <2>1. PICK m : marks' = Append(marks, m) /\ idx' = end
    BY <1>3 DEF Mark
  <2> QED BY <2>1, <1>1
<1>4. CASE SkipBlank
  BY <1>1, <1>4 DEF SkipBlank
<1>5. CASE Is(idx, "/") /\ Is(idx + 1, "/") /\ Mark("COMMENT", To(idx, {Newline}))
  <2> DEFINE end == To(idx, {Newline})
  <2>1. end \in idx .. CodeEnd /\ (end = CodeEnd \/ Char(end) \in {Newline})
    BY <1>1, ToIs
  <2>2. Char(idx) # Newline
    BY <1>5 DEF Is, Newline
  <2> HIDE DEF end
  <2>3. end > idx
    BY <2>1, <2>2, <1>1
  <2> QED BY <2>3, <1>3, <1>5 DEF end
<1>6. CASE Is(idx, "/") /\ Is(idx + 1, "*") /\ Mark("COMMENT", BlockEnd(idx))
  <2>1. BlockEnd(idx) \in idx + 2 .. CodeEnd
    BY <1>1, <1>6, BlockEndIs DEF Is
  <2> QED BY <2>1, <1>1, <1>3, <1>6
<1>7. CASE Char(idx) \in Quotes /\ Mark("STRING", StringEnd(idx))
  <2>1. StringEnd(idx) \in idx + 1 .. CodeEnd
    BY <1>1, StringEndIs
  <2> QED BY <2>1, <1>1, <1>3, <1>7
<1>8. ASSUME NEW set, Char(idx) \in set PROVE Past(idx, set) > idx
  BY <1>1, <1>8, PastIs
<1>9. CASE Char(idx) \in Digits /\ Mark("NUMBER", Past(idx, Digits \union NumberSigns))
  BY <1>3, <1>8, <1>9
<1>10. CASE Char(idx) \in Letters /\ Mark(WordMark(idx), Past(idx, Letters \union Digits))
  BY <1>3, <1>8, <1>10
<1>11. CASE Sign(idx) /\ Mark(SignMark(idx), idx + 1)
  BY <1>1, <1>3, <1>11
<1> QED BY <1>2, <1>4, <1>5, <1>6, <1>7, <1>9, <1>10, <1>11 DEF Turn

MarkOf(t, m) == m.from = t.from /\ m.length = t.length /\ m.type = ShownAs(t)

\* The highlighter has the first k tokens behind it: it is at the end of the
\* last, in the blanks behind it, or beyond all that the lexer had room for.
Matched(k) ==
  /\ Len(Shown[k]) <= Len(marks)
  /\ \A n \in 1 .. Len(Shown[k]) : MarkOf(Shown[k][n], marks[n])
  /\ \/ Len(marks) = Len(Shown[k]) /\ idx = EndOf(k)
     \/ /\ Len(marks) = Len(Shown[k])
        /\ k < Len(tokens) /\ tokens[k + 1].type = "Whitespace"
        /\ EndOf(k) < idx /\ idx < EndOf(k + 1)
     \/ k = Len(tokens) /\ idx > at

MatchInv ==
  /\ Lexing => idx = 0 /\ marks = << >>
  /\ \E k \in 0 .. Len(tokens) : Matched(k)

\* Nothing is marked while the lexer is at work.
LEMMA MatchStart ==
  tokens \in Seq(Token) /\ idx = 0 /\ marks = << >> => \E k \in 0 .. Len(tokens) : Matched(k)
<1> SUFFICES ASSUME tokens \in Seq(Token), idx = 0, marks = << >>
             PROVE  \E k \in 0 .. Len(tokens) : Matched(k)
  OBVIOUS
<1>1. Shown[0] = << >> /\ Len(tokens) \in Nat /\ Len(<< >>) = 0
  BY ShownIs
<1>2. Matched(0)
  BY <1>1 DEF Matched, EndOf
<1> QED BY <1>1, <1>2

LEMMA MatchStartNext ==
  (tokens \in Seq(Token) /\ idx = 0 /\ marks = << >>)' => (\E k \in 0 .. Len(tokens) : Matched(k))'
BY MatchStart, PTL

LEMMA BlankToken ==
  ASSUME NEW t \in Token, Cut(t), t.type = "Whitespace"
  PROVE  \A m \in t.from .. t.from + t.length - 1 : Char(m) \in Blanks \union {Newline}
<1>1. t.type \notin {"Comment", "StringLiteral", "NumericLiteral", "Keyword", "Identifier", "Punctuator"}
  OBVIOUS
<1>2. ASSUME NEW m \in t.from .. t.from + t.length - 1 PROVE Char(m) \in Blanks \union {Newline}
  BY <1>1, SMTT(30) DEF Cut, Token
<1> QED BY <1>2

LEMMA MarkIs ==
  ASSUME NEW type, NEW end, Mark(type, end)
  PROVE  /\ marks' = Append(marks, [type |-> type, from |-> idx, length |-> end - idx,
                                     line |-> currentLine, column |-> currentCol])
         /\ idx' = end
BY DEF Mark

\* One turn of the highlighter's loop.
LEMMA MatchNext ==
  ASSUME LexerInv, CutInv, MarksInv, ~ Lexing, HighlighterNext, UNCHANGED lexerVars,
         NEW k \in 0 .. Len(tokens), Matched(k)
  PROVE  MatchInv'
<1> DEFINE N == Len(tokens)
           start == EndOf(k)
           t == tokens[k + 1]
<1>1. /\ code' = code /\ tokens' = tokens /\ at' = at /\ N \in Nat /\ ~ Lexing'
      /\ marks \in Seq(MarkRecord) /\ marks' \in Seq(MarkRecord) /\ Len(marks) \in Nat
      /\ Len(marks') \in Nat /\ idx \in Nat /\ idx' \in Nat /\ at \in Nat
  BY HighlighterTurns, HighlighterInv
     DEF lexerVars, Lexing, CodeEnd, LexerInv, MarksInv
<1>2. Shown' = Shown /\ (\A u, v : MarkOf(u, v)' <=> MarkOf(u', v')) /\ \A l : EndOf(l)' = EndOf(l')
  BY <1>1 DEF Shown, MarkOf, ShownAs, EndOf
<1>3. /\ idx' > idx
      /\ Len(marks') >= Len(marks) /\ \A n \in 1 .. Len(marks) : marks'[n] = marks[n]
  BY TurnMoves
<1>4. /\ EndOf(N) = at /\ start \in Nat
      /\ \A l \in 0 .. N - 1 :
           /\ tokens[l + 1] \in Token
           /\ tokens[l + 1].from = EndOf(l) /\ tokens[l + 1].length > 0
           /\ EndOf(l + 1) = EndOf(l) + tokens[l + 1].length
  BY EndsOfTokens
<1>5. /\ \A l \in 0 .. N : Shown[l] \in Seq(Token)
      /\ \A l \in 0 .. N - 1 : Shown[l + 1] = IF tokens[l + 1].type = "Whitespace" THEN Shown[l]
                                              ELSE Append(Shown[l], tokens[l + 1])
  BY ShownIs DEF LexerInv
<1>6. Len(Shown[k]) \in Nat
  BY <1>5
<1>7. \A n \in 1 .. Len(Shown[k]) : MarkOf(Shown[k][n], marks'[n])
  BY <1>1, <1>3, <1>6 DEF Matched
<1>8. ASSUME NEW l \in 0 .. N,
             Len(Shown[l]) <= Len(marks'),
             \A n \in 1 .. Len(Shown[l]) : MarkOf(Shown[l][n], marks'[n]),
             \/ Len(marks') = Len(Shown[l]) /\ idx' = EndOf(l)
             \/ /\ Len(marks') = Len(Shown[l])
                /\ l < N /\ tokens[l + 1].type = "Whitespace"
                /\ EndOf(l) < idx' /\ idx' < EndOf(l + 1)
             \/ l = N /\ idx' > at
      PROVE  MatchInv'
  <2>1. Matched(l)'
    BY <1>1, <1>2, <1>8 DEF Matched
  <2> QED BY <2>1, <1>1, <1>8 DEF MatchInv
<1> DEFINE blank == Blanks \union {Newline}
\* In the blanks: one more is skipped.
<1>9. ASSUME k < N, t.type = "Whitespace", start <= idx, idx < EndOf(k + 1), SkipBlank,
             Len(marks) = Len(Shown[k])
      PROVE  MatchInv'
  <2>1. /\ k \in 0 .. N - 1 /\ k + 1 \in 0 .. N /\ idx' = idx + 1 /\ marks' = marks
        /\ Shown[k + 1] = Shown[k]
    BY <1>1, <1>5, <1>9 DEF SkipBlank
  <2>2. EndOf(k + 1) \in Nat
    BY <2>1, EndsOfTokens
  <2>3. CASE idx' = EndOf(k + 1)
    BY <2>1, <2>3, <1>6, <1>7, <1>8, <1>9
  <2>4. CASE idx' < EndOf(k + 1)
    <3>1. start < idx'
      BY <2>1, <1>1, <1>4, <1>9
    <3> QED BY <3>1, <2>1, <2>4, <1>6, <1>7, <1>8, <1>9
  <2> QED BY <2>1, <2>2, <2>3, <2>4, <1>1, <1>9
<1>10. CASE Len(marks) = Len(Shown[k]) /\ idx = start /\ k < N
  <2>1. /\ k \in 0 .. N - 1 /\ k + 1 \in 0 .. N /\ t \in Token /\ t.from = idx /\ t.length > 0
        /\ EndOf(k + 1) = t.from + t.length /\ k + 1 \in DOMAIN tokens
    BY <1>1, <1>4, <1>10, EndsOfTokens
  <2>2. IF t.type = "Whitespace" THEN SkipBlank ELSE Mark(ShownAs(t), t.from + t.length)
    <3>1. Cut(t)
      BY <2>1 DEF CutInv
    <3> HIDE DEF t
    <3> QED BY <3>1, <2>1, HighlighterCuts
  <2>3. CASE t.type = "Whitespace"
    <3>1. idx < EndOf(k + 1) /\ start <= idx
      BY <2>1, <1>1, <1>10 DEF Token
    <3> QED BY <3>1, <2>2, <2>3, <1>9, <1>10
  <2>4. CASE t.type # "Whitespace"
    <3> DEFINE type == ShownAs(t)
               end == t.from + t.length
               m == [type |-> type, from |-> idx, length |-> end - idx,
                     line |-> currentLine, column |-> currentCol]
    <3>1. marks' = Append(marks, m) /\ idx' = EndOf(k + 1)
      <4>1. Mark(type, end) /\ EndOf(k + 1) = end
        BY <2>1, <2>2, <2>4
      <4> HIDE DEF type, end
      <4> QED BY <4>1, MarkIs
    <3>2. MarkOf(t, m)
      <4>1. end - idx = t.length
        BY <2>1, <1>1 DEF Token
      <4> HIDE DEF t
      <4> QED BY <2>1, <4>1 DEF MarkOf
    <3> HIDE DEF m
    <3>3. Shown[k + 1] = Append(Shown[k], t)
      BY <2>1, <2>4, <1>5
    <3>4. Shown[k] \in Seq(Token)
      BY <1>5
    <3> HIDE DEF t, start
    <3>5. /\ Len(Shown[k + 1]) = Len(marks')
          /\ \A n \in 1 .. Len(Shown[k + 1]) : MarkOf(Shown[k + 1][n], marks'[n])
      <4>1. /\ Len(Shown[k + 1]) = Len(Shown[k]) + 1 /\ Len(marks') = Len(marks) + 1
            /\ Shown[k + 1][Len(Shown[k]) + 1] = t /\ marks'[Len(marks) + 1] = m
            /\ \A n \in 1 .. Len(Shown[k]) : Shown[k + 1][n] = Shown[k][n]
        BY <3>1, <3>3, <3>4, <1>1
      <4>2. \A n \in 1 .. Len(Shown[k]) + 1 : n \in 1 .. Len(Shown[k]) \/ n = Len(Shown[k]) + 1
        BY <1>6
      <4> QED BY <4>1, <4>2, <3>2, <1>7, <1>10
    <3>6. Len(Shown[k + 1]) <= Len(marks')
      BY <3>5, <1>1
    <3> QED BY <3>1, <3>5, <3>6, <2>1, <1>8
  <2> QED BY <2>3, <2>4
<1>11. CASE Len(marks) = Len(Shown[k]) /\ idx = start /\ k = N
  <2>1. idx' > at /\ Len(Shown[k]) <= Len(marks')
    BY <1>1, <1>3, <1>4, <1>6, <1>11
  <2> QED BY <2>1, <1>7, <1>8, <1>11
<1>12. CASE /\ Len(marks) = Len(Shown[k])
            /\ k < N /\ t.type = "Whitespace" /\ start < idx /\ idx < EndOf(k + 1)
  <2>1. /\ k \in 0 .. N - 1 /\ t \in Token /\ t.from = start /\ EndOf(k + 1) = t.from + t.length
        /\ k + 1 \in DOMAIN tokens
    BY <1>1, <1>4, <1>12, EndsOfTokens
  <2>2. Char(idx) \in blank
    <3>1. Cut(t)
      BY <2>1 DEF CutInv
    <3>2. idx \in t.from .. t.from + t.length - 1
      BY <2>1, <1>1, <1>4, <1>12 DEF Token
    <3>3. t.type = "Whitespace"
      BY <1>12
    <3> HIDE DEF t
    <3>4. \A m \in t.from .. t.from + t.length - 1 : Char(m) \in Blanks \union {Newline}
      BY <2>1, <3>1, <3>3, BlankToken
    <3> QED BY <3>2, <3>4
  <2>3. SkipBlank
    BY <2>2, HighlighterTurns, FirstCharacter DEF Turn
  <2>4. start <= idx
    BY <1>1, <1>4, <1>12
  <2> QED BY <2>3, <2>4, <1>9, <1>12
<1>13. CASE k = N /\ idx > at
  <2>1. idx' > at /\ Len(Shown[k]) <= Len(marks')
    BY <1>1, <1>3, <1>6, <1>13 DEF Matched
  <2> QED BY <2>1, <1>7, <1>8, <1>13
<1>14. k < N \/ k = N
  BY <1>1
<1> QED BY <1>10, <1>11, <1>12, <1>13, <1>14 DEF Matched

ScannersInv == LexerInv /\ CutInv /\ MarksInv /\ MatchInv

\* Each says the same of the same state.
LEMMA CutKept ==
  ASSUME CutInv, code' = code, tokens' = tokens
  PROVE  CutInv'
<1>1. \A u : Cut(u)' = Cut(u')
  BY DEF Cut, Sign, Is, Char, To, Past, BlockEnd, StringEnd, Escaped, CodeEnd
<1> QED BY <1>1 DEF CutInv

LEMMA MarksKept ==
  ASSUME MarksInv, code' = code, UNCHANGED highlighterVars
  PROVE  MarksInv'
<1>1. idx' = idx /\ currentLine' = currentLine /\ currentCol' = currentCol /\ marks' = marks
  BY DEF highlighterVars
<1>2. /\ \A n : LineAt(n)' = LineAt(n') /\ ColumnAt(n)' = ColumnAt(n')
      /\ CodeEnd' = CodeEnd /\ \A u, v : Feeds(u, v)' = Feeds(u', v')
  BY DEF LineAt, ColumnAt, LinesBefore, Char, CodeEnd, Feeds
<1>3. BehindNow' <=> BehindNow
  BY <1>1, <1>2 DEF BehindNow, FeedsOf
<1>4. \A n : BehindBlock(n)' <=> BehindBlock(n')
  BY <1>1 DEF BehindBlock, Feeds, Char
<1> QED BY <1>1, <1>2, <1>3, <1>4 DEF MarksInv

LEMMA MatchKept ==
  ASSUME MatchInv, UNCHANGED scannerVars
  PROVE  MatchInv'
<1>1. code' = code /\ tokens' = tokens /\ at' = at /\ idx' = idx /\ marks' = marks
  BY DEF scannerVars, lexerVars, highlighterVars
<1>2. /\ Shown' = Shown /\ (\A u, v : MarkOf(u, v)' <=> MarkOf(u', v')) /\ \A l : EndOf(l)' = EndOf(l')
      /\ Lexing' = Lexing
  BY <1>1 DEF Shown, MarkOf, ShownAs, EndOf, Lexing, CodeEnd
<1>3. PICK k \in 0 .. Len(tokens) : Matched(k)
  BY DEF MatchInv
<1>4. Matched(k)'
  BY <1>1, <1>2, <1>3 DEF Matched
<1> QED BY <1>1, <1>2, <1>3, <1>4 DEF MatchInv

LEMMA ScannersInitInv == ScannersInit => ScannersInv
<1> SUFFICES ASSUME ScannersInit PROVE ScannersInv
  OBVIOUS
<1>1. LexerInv
  BY LexerInitInv DEF ScannersInit
<1>2. CutInv
  BY DEF ScannersInit, LexerInit, CutInv
<1>3. MarksInv
  <2>1. LinesBefore(0) = {}
    BY DEF LinesBefore
  <2>2. LineAt(0) = 1 /\ ColumnAt(0) = 1
    BY <2>1, FS_EmptySet DEF LineAt, ColumnAt
  <2>3. code \in Seq(Characters) /\ 0 \in 0 .. CodeEnd
    BY <1>1 DEF LexerInv, CodeEnd
  <2>4. << >> \in Seq(MarkRecord) /\ Len(<< >>) = 0 /\ DOMAIN << >> = {} /\ 0 <= MaxMarks
    BY ScannersAssumption
  <2> QED BY <2>2, <2>3, <2>4 DEF ScannersInit, HighlighterInit, MarksInv
<1>4. MatchInv
  BY <1>1, MatchStart DEF ScannersInit, HighlighterInit, MatchInv, LexerInv
<1> QED BY <1>1, <1>2, <1>3, <1>4 DEF ScannersInv

LEMMA ScannersNextInv == ScannersInv /\ [ScannersNext]_scannerVars => ScannersInv'
<1> SUFFICES ASSUME ScannersInv, [ScannersNext]_scannerVars PROVE ScannersInv'
  OBVIOUS
<1>1. LexerInv /\ CutInv /\ MarksInv /\ MatchInv
  BY DEF ScannersInv
<1>2. CASE LexerNext /\ UNCHANGED highlighterVars
  <2>1. LexerInv' /\ CutInv'
    BY <1>1, <1>2, LexerNextInv, LexerCuts
  <2>2. Lexing /\ code' = code
    BY <1>2 DEF LexerNext, LexBlank, LexLineComment, LexBlockComment, LexString, LexNumber,
                LexWord, LexPunctuator
  <2>3. MarksInv'
    BY <1>1, <1>2, <2>2, MarksKept
  <2>4. MatchInv'
    <3>1. idx' = 0 /\ marks' = << >> /\ tokens' \in Seq(Token)
      BY <1>1, <1>2, <2>1, <2>2 DEF MatchInv, highlighterVars, LexerInv
    <3> QED BY <3>1, MatchStartNext DEF MatchInv
  <2> QED BY <2>1, <2>3, <2>4 DEF ScannersInv
<1>3. CASE ~ Lexing /\ HighlighterNext /\ UNCHANGED lexerVars
  <2>1. code' = code
    BY <1>1, <1>3, HighlighterTurns
  <2>2. LexerInv'
    BY <1>1, <1>3, <2>1, LexerNextInv
  <2>3. CutInv'
    BY <1>1, <1>3, <2>1, CutKept DEF lexerVars
  <2>4. MarksInv'
    BY <1>1, <1>3, HighlighterInv
  <2>5. PICK k \in 0 .. Len(tokens) : Matched(k)
    BY <1>1 DEF MatchInv
  <2>6. MatchInv'
    BY <1>1, <1>3, <2>5, MatchNext
  <2> QED BY <2>2, <2>3, <2>4, <2>6 DEF ScannersInv
<1>4. CASE UNCHANGED scannerVars
  <2>1. code' = code /\ tokens' = tokens /\ UNCHANGED lexerVars /\ UNCHANGED highlighterVars
    BY <1>4 DEF scannerVars, lexerVars, highlighterVars
  <2>2. LexerInv'
    BY <1>1, <2>1, LexerNextInv
  <2> QED BY <1>1, <1>4, <2>1, <2>2, CutKept, MarksKept, MatchKept DEF ScannersInv
<1> QED BY <1>2, <1>3, <1>4 DEF ScannersNext

\* A shown token is one of the tokens.
LEMMA ShownTokens ==
  ASSUME tokens \in Seq(Token), NEW k \in 0 .. Len(tokens), NEW n \in 1 .. Len(Shown[k])
  PROVE  \E l \in DOMAIN tokens : Shown[k][n] = tokens[l]
<1> DEFINE T == {tokens[l] : l \in DOMAIN tokens}
<1>1. tokens \in Seq(T)
  OBVIOUS
<1>2. Shown[k] \in Seq(T)
  <2> HIDE DEF T
  <2> QED BY <1>1, ShownIs
<1>3. Shown[k][n] \in T
  <2> HIDE DEF T
  <2> QED BY <1>2, ElementOfSeq
<1> QED BY <1>3

\* The line a token begins on, from the one it ends on.
LEMMA TokenLine ==
  ASSUME NEW t \in Token, NEW end, Placed(t, end), ~ Continued
  PROVE  /\ LineAt(t.from) = t.line - Cardinality(Feeds(t.from, t.length))
         /\ t.column = ColumnAt(t.from)
<1>1. t.from \in Nat /\ t.length \in Nat
  BY DEF Token
<1>2. end = t.from + t.length /\ t.line = LineAt(end) /\ t.column = ColumnAt(t.from)
  BY DEF Placed
<1>3. FeedsIn(t.from, end) = Feeds(t.from, t.length)
  <2>1. end - 1 = t.from + t.length - 1
    BY <1>1, <1>2
  <2>2. t.from .. end - 1 = t.from .. t.from + t.length - 1
    BY <2>1
  <2>3. \A m : m \in FeedsIn(t.from, end) <=> m \in Feeds(t.from, t.length)
    BY <2>2, Zenon DEF FeedsIn, Feeds
  <2> QED BY <2>3 DEF FeedsIn, Feeds
<1>4. IsFiniteSet(Feeds(t.from, t.length))
  <2>1. t.from \in Int /\ t.from + t.length - 1 \in Int
    BY <1>1
  <2>2. IsFiniteSet(t.from .. t.from + t.length - 1)
    BY <2>1, FS_Interval
  <2> QED BY <2>2, FS_Subset DEF Feeds
<1>5. Cardinality(Feeds(t.from, t.length)) \in Nat
  BY <1>4, FS_CardinalityType
<1>6. LineAt(t.from) \in Nat /\ LineAt(end) = LineAt(t.from) + Cardinality(Feeds(t.from, t.length))
  <2>1. end \in Nat /\ t.from <= end
    BY <1>1, <1>2
  <2> QED BY <2>1, <1>1, <1>3, Onward
<1> QED BY <1>2, <1>5, <1>6

LEMMA MatchAgrees == ScannersInv => ScannersAgree
<1> SUFFICES ASSUME ScannersInv, Scanned PROVE ScannersAgree
  BY DEF ScannersAgree
<1> DEFINE N == Len(tokens)
           shown == Shown[N]
           common == Min({Len(shown), Len(marks)})
<1>1. /\ LexerInv /\ MarksInv /\ tokens \in Seq(Token) /\ marks \in Seq(MarkRecord)
      /\ N \in Nat /\ Len(marks) \in Nat /\ N \in 0 .. N
  BY DEF ScannersInv, LexerInv, MarksInv
<1>2. shown \in Seq(Token) /\ Len(shown) \in Nat
  BY <1>1, ShownIs
<1>3. PICK k \in 0 .. N : Matched(k)
  BY DEF ScannersInv, MatchInv
<1>4. /\ Shown[k] \in Seq(Token) /\ Len(Shown[k]) <= Len(shown)
      /\ \A n \in 1 .. Len(Shown[k]) : shown[n] = Shown[k][n]
  BY <1>1, ShownIs, ShownGrows
<1>5. common \in Nat /\ common <= Len(shown) /\ common <= Len(marks)
  <2> DEFINE a == Len(shown)
             b == Len(marks)
  <2>1. a \in Nat /\ b \in Nat
    BY <1>1, <1>2
  <2> HIDE DEF a, b
  <2>2. Min({a, b}) \in Nat /\ Min({a, b}) <= a /\ Min({a, b}) <= b
    <3>1. a \in Int /\ b \in Int
      BY <2>1
    <3>2. Min({a, b}) = IF a <= b THEN a ELSE b
      BY ONLY <3>1, MinOfTwo
    <3> QED BY ONLY <2>1, <3>2
  <2> QED BY <2>2 DEF a, b
<1>6. common <= Len(Shown[k])
  <2>1. k = N \/ Len(marks) = Len(Shown[k])
    BY <1>3 DEF Matched
  <2> HIDE DEF common
  <2> QED BY <2>1, <1>5
<1> HIDE DEF common
<1>7. ASSUME NEW n \in 1 .. common
      PROVE  LET t == shown[n]
                 m == marks[n]
             IN /\ m.from = t.from /\ m.length = t.length
                /\ m.type = ShownAs(t)
                /\ ~ Continued =>
                     /\ m.line = t.line - Cardinality(Feeds(t.from, t.length))
                     /\ BehindBlock(n) \/ m.column = t.column
  <2> DEFINE t == shown[n]
             m == marks[n]
  <2>1. n \in 1 .. Len(Shown[k]) /\ n \in 1 .. Len(shown) /\ n \in DOMAIN marks
    BY <1>1, <1>2, <1>4, <1>5, <1>6
  <2>2. m.from = t.from /\ m.length = t.length /\ m.type = ShownAs(t)
    BY <2>1, <1>3, <1>4 DEF Matched, MarkOf
  <2>3. PICK l \in DOMAIN tokens : t = tokens[l]
    BY <2>1, <1>1, ShownTokens
  <2>4. t \in Token
    BY <2>1, <1>2, ElementOfSeq
  <2>5. Placed(t, IF l = N THEN at ELSE tokens[l + 1].from)
    BY <1>1, <2>3 DEF LexerInv
  <2>6. m.line = LineAt(m.from) /\ (BehindBlock(n) \/ m.column = ColumnAt(m.from))
    BY <2>1, <1>1 DEF MarksInv
  <2> HIDE DEF t, m
  <2>7. ~ Continued => /\ LineAt(t.from) = t.line - Cardinality(Feeds(t.from, t.length))
                       /\ t.column = ColumnAt(t.from)
    BY <2>4, <2>5, TokenLine
  <2>8. ~ Continued => /\ m.line = t.line - Cardinality(Feeds(t.from, t.length))
                       /\ BehindBlock(n) \/ m.column = t.column
    BY <2>2, <2>6, <2>7
  <2> QED BY <2>2, <2>8 DEF t, m
<1>8. N < MaxTokens /\ Len(marks) < MaxMarks => Len(shown) = Len(marks)
  <2> SUFFICES ASSUME N < MaxTokens, Len(marks) < MaxMarks PROVE Len(shown) = Len(marks)
    OBVIOUS
  <2>1. at = CodeEnd /\ idx = CodeEnd /\ CodeEnd \in Nat
    BY <1>1 DEF Scanned, Lexing, Marking, LexerInv, MarksInv, CodeEnd
  <2>2. /\ EndOf(k) \in Nat /\ (k < N => EndOf(k) < at /\ EndOf(k + 1) <= at /\ EndOf(k + 1) \in Nat)
    <3>1. \A l \in 0 .. N : EndOf(l) \in Nat /\ (l < N => EndOf(l) < at)
      BY <1>1, EndsOfTokens
    <3>2. EndOf(N) = at
      BY <1>1, EndsOfTokens
    <3>3. CASE k < N
      <4>1. k + 1 \in 0 .. N /\ (k + 1 < N \/ k + 1 = N)
        BY <3>3, <1>1
      <4> QED BY <4>1, <3>1, <3>2, <2>1
    <3> QED BY <3>1, <3>3
  <2>3. ~ (k = N /\ idx > at) /\ k \in 0 .. N
    BY <2>1
  <2>4. Len(marks) = Len(Shown[k])
    BY <2>3, <1>3 DEF Matched
  <2>5. k = N
    <3>1. CASE k < N
      <4>1. idx # EndOf(k) /\ ~ (idx < EndOf(k + 1))
        BY <3>1, <2>1, <2>2
      <4> QED BY <4>1, <2>3, <1>3 DEF Matched
    <3> QED BY <3>1, <1>1
  <2> QED BY <2>4, <2>5
<1> QED BY <1>7, <1>8 DEF ScannersAgree, common

\* The lexer and the highlighter, written apart, cut any code into the same
\* pieces and place them alike (js_lexer.h, syntax_highlighter.h).
THEOREM ScannersAlike == ScannersSpec => []ScannersAgree
BY ScannersInitInv, ScannersNextInv, MatchAgrees, PTL DEF ScannersSpec

----------------------------------------------------------------------------
(* The headers of a response (network.h).                                  *)

\* What a line that is sent looks like: a name, ...
Words == Symbols \ {CR, LF}

LEMMA NameIs ==
  ASSUME NEW name \in Seq(Symbols \ {CR, LF, Colon})
  PROVE  /\ name \in Seq(Words) /\ Len(name) \in Nat
         /\ \A n \in 1 .. Len(name) : name[n] # Colon
<1>1. Len(name) \in Nat /\ \A n \in 1 .. Len(name) : name[n] \in Symbols \ {CR, LF, Colon}
  BY ElementOfSeq
<1>2. name \in Seq(Words)
  BY DEF Words
<1> QED BY <1>1, <1>2

\* ... and for a header the colon, the blanks and the value.
MadeOf(C, name, pad, value) ==
  /\ C \in Seq(Words) /\ Len(C) = Len(name) + 1 + Len(pad) + Len(value)
  /\ Len(name) \in Nat /\ Len(pad) \in Nat /\ Len(value) \in Nat
  /\ \A n \in 1 .. Len(name) : C[n] = name[n]
  /\ C[Len(name) + 1] = Colon
  /\ \A n \in 1 .. Len(pad) : C[Len(name) + 1 + n] = Blank
  /\ \A n \in 1 .. Len(value) : C[Len(name) + 1 + Len(pad) + n] = value[n]

LEMMA HeaderIs ==
  ASSUME NEW name \in Seq(Words), NEW pad \in Seq({Blank}), NEW value \in Seq(Words),
         NEW u, u = <<Colon>> \o pad, NEW v, v = u \o value, NEW C, C = name \o v
  PROVE  MadeOf(C, name, pad, value)
<1>1. {CR, LF, Colon, Blank} \subseteq Symbols /\ Colon \in Words /\ Blank \in Words
  BY HeadAssumption DEF Words, CR, LF, Colon, Blank
<1>3. pad \in Seq(Words) /\ Len(pad) \in Nat /\ \A n \in 1 .. Len(pad) : pad[n] = Blank
  <2>1. Len(pad) \in Nat /\ \A n \in 1 .. Len(pad) : pad[n] \in {Blank}
    BY ElementOfSeq
  <2> QED BY <1>1, <2>1
<1>4. Len(name) \in Nat /\ Len(value) \in Nat
  OBVIOUS
<1>5. /\ u \in Seq(Words) /\ Len(u) = 1 + Len(pad)
      /\ u[1] = Colon /\ \A n \in 1 .. Len(pad) : u[1 + n] = pad[n]
  BY <1>1, <1>3, MarkFirst
<1>6. /\ v \in Seq(Words) /\ Len(v) = 1 + Len(pad) + Len(value)
      /\ \A n \in 1 .. 1 + Len(pad) : v[n] = u[n]
      /\ \A n \in 1 .. Len(value) : v[1 + Len(pad) + n] = value[n]
  <2>1. /\ v \in Seq(Words) /\ Len(v) = Len(u) + Len(value)
        /\ \A n \in 1 .. Len(u) : v[n] = u[n]
        /\ \A n \in 1 .. Len(value) : v[Len(u) + n] = value[n]
    BY <1>5, Joined
  <2> QED BY <2>1, <1>5
<1>7. /\ C \in Seq(Words) /\ Len(C) = Len(name) + Len(v)
      /\ \A n \in 1 .. Len(name) : C[n] = name[n]
      /\ \A n \in 1 .. Len(v) : C[Len(name) + n] = v[n]
  BY <1>6, Joined
<1>8. C[Len(name) + 1] = Colon
  <2>1. 1 \in 1 .. Len(v) /\ 1 \in 1 .. 1 + Len(pad)
    BY <1>3, <1>4, <1>6
  <2> QED BY <2>1, <1>5, <1>6, <1>7
<1>9. ASSUME NEW n \in 1 .. Len(pad) PROVE C[Len(name) + 1 + n] = Blank
  <2>1. Len(name) + 1 + n = Len(name) + (1 + n) /\ 1 + n \in 1 .. Len(v) /\ 1 + n \in 1 .. 1 + Len(pad)
    BY <1>3, <1>4, <1>6
  <2>2. C[Len(name) + 1 + n] = v[1 + n] /\ v[1 + n] = u[1 + n] /\ u[1 + n] = pad[n]
    BY <2>1, <1>5, <1>6, <1>7
  <2> QED BY <2>2, <1>3
<1>10. ASSUME NEW n \in 1 .. Len(value) PROVE C[Len(name) + 1 + Len(pad) + n] = value[n]
  <2>1. Len(name) + 1 + Len(pad) + n = Len(name) + (1 + Len(pad) + n) /\ 1 + Len(pad) + n \in 1 .. Len(v)
    BY <1>3, <1>4, <1>6
  <2>2. C[Len(name) + 1 + Len(pad) + n] = v[1 + Len(pad) + n]
    BY <2>1, <1>7
  <2> QED BY <2>2, <1>6
<1>11. Len(C) = Len(name) + 1 + Len(pad) + Len(value)
  BY <1>3, <1>4, <1>6, <1>7
<1> QED BY <1>3, <1>4, <1>7, <1>8, <1>9, <1>10, <1>11 DEF MadeOf

LEMMA WordsPlain ==
  ASSUME NEW s \in Seq(Words), NEW n \in 1 .. Len(s)
  PROVE  s[n] # CR /\ s[n] # LF
<1>1. s[n] \in Words
  BY ElementOfSeq
<1> QED BY <1>1 DEF Words

LEMMA LineIs ==
  ASSUME NEW item \in SentLine, NEW C, C = SentContent(item)
  PROVE  /\ item.name \in Seq(Words) /\ item.value \in Seq(Words)
         /\ item.end \in {<<LF>>, <<CR, LF>>, << >>} /\ item.end \in Seq(Symbols)
         /\ C \in Seq(Words) /\ Len(C) \in Nat \ {0}
         /\ Len(item.name) \in Nat /\ Len(item.name) <= Len(C)
         /\ \A n \in 1 .. Len(item.name) : C[n] = item.name[n] /\ C[n] # Colon
         /\ ~ item.colon => Len(C) = Len(item.name)
         /\ item.colon => /\ \E pad : MadeOf(C, item.name, pad, item.value)
                          /\ Len(item.value) # 0 => item.value[1] # Blank
<1>1. PICK name \in Seq(Symbols \ {CR, LF, Colon}), pad \in Seq({Blank}),
           value \in Seq(Symbols \ {CR, LF}) :
        name = item.name /\ pad = item.pad /\ value = item.value
  BY DEF SentLine
<1>2. /\ item.colon \/ name # << >>
      /\ value = << >> \/ value[1] # Blank
      /\ item.end \in {<<LF>>, <<CR, LF>>, << >>}
  BY <1>1 DEF SentLine
<1>3. item.end \in Seq(Symbols)
  <2>1. LF \in Symbols /\ CR \in Symbols
    BY HeadAssumption
  <2>2. <<LF>> \in Seq(Symbols) /\ <<CR, LF>> \in Seq(Symbols) /\ << >> \in Seq(Symbols)
    BY <2>1
  <2> QED BY <1>2, <2>2
<1>4. name \in Seq(Words) /\ Len(name) \in Nat /\ \A n \in 1 .. Len(name) : name[n] # Colon
  BY NameIs
<1>5. value \in Seq(Words) /\ Len(value) \in Nat
  BY DEF Words
<1>6. name # << >> => Len(name) # 0
  BY <1>4
<1>7. Len(value) # 0 => value[1] # Blank
  BY <1>2
<1>8. CASE ~ item.colon
  <2>1. C = name \o << >>
    BY <1>1, <1>8 DEF SentContent
  <2>2. C = name
    BY <2>1, <1>4
  <2>3. Len(C) = Len(name) /\ Len(C) \in Nat \ {0} /\ C \in Seq(Words)
        /\ \A n \in 1 .. Len(name) : C[n] = name[n] /\ C[n] # Colon
    BY <2>2, <1>2, <1>4, <1>6, <1>8
  <2>4. /\ name \in Seq(Words) /\ value \in Seq(Words)
        /\ C \in Seq(Words) /\ Len(C) \in Nat \ {0}
        /\ Len(name) \in Nat /\ Len(name) <= Len(C)
        /\ \A n \in 1 .. Len(name) : C[n] = name[n] /\ C[n] # Colon
        /\ Len(C) = Len(name)
    BY <2>3, <1>4, <1>5
  <2> QED BY <2>4, <1>1, <1>2, <1>3, <1>8
<1>9. CASE item.colon
  <2> DEFINE u == <<Colon>> \o pad
             v == u \o value
  <2>1. C = name \o v
    BY <1>1, <1>9 DEF SentContent
  <2>2. MadeOf(C, name, pad, value)
    <3>1. u = <<Colon>> \o pad /\ v = u \o value
      OBVIOUS
    <3> HIDE DEF u, v
    <3>2. name \in Seq(Words) /\ value \in Seq(Words) /\ pad \in Seq({Blank})
      BY <1>4, <1>5
    <3> QED BY <2>1, <3>1, <3>2, HeaderIs
  <2>3. Len(C) \in Nat \ {0} /\ Len(name) <= Len(C)
    BY <2>2 DEF MadeOf
  <2>4. \A n \in 1 .. Len(name) : C[n] = name[n] /\ C[n] # Colon
    BY <2>2, <1>4 DEF MadeOf
  <2>5. C \in Seq(Words) /\ Len(pad) \in Nat
    BY <2>2 DEF MadeOf
  <2> QED BY <2>2, <2>5, <2>3, <2>4, <1>1, <1>2, <1>3, <1>4, <1>5, <1>7, <1>9
<1> QED BY <1>8, <1>9

\* The text of the lines and their headers, one line after the other.
SpeltBy(sent, N, T) ==
  /\ N \in Nat /\ T[0] = sent.status
  /\ \A k \in 0 .. N : T[k] \in Seq(Symbols)
  /\ \A k \in 1 .. N : T[k] = T[k - 1] \o SentContent(sent.lines[k]) \o sent.lines[k].end

LEMMA TextIs ==
  ASSUME NEW sent, WellSent(sent), NEW N, N = Len(sent.lines), NEW T, T = TextTo(sent)
  PROVE  SpeltBy(sent, N, T)
<1> DEFINE V == Seq(Symbols)
           step == [a \in Nat \X V |->
                      IF a[1] \notin 1 .. N THEN a[2]
                      ELSE a[2] \o SentContent(sent.lines[a[1]]) \o sent.lines[a[1]].end]
<1>1. N \in Nat /\ sent.status \in V /\ \A k \in 1 .. N : sent.lines[k] \in SentLine
  BY ElementOfSeq DEF WellSent
<1>11. ASSUME NEW n \in 1 .. N, NEW q \in V
       PROVE  q \o SentContent(sent.lines[n]) \o sent.lines[n].end \in V
  <2>1. SentContent(sent.lines[n]) \in Seq(Words) /\ sent.lines[n].end \in Seq(Symbols)
    BY <1>1, LineIs
  <2>2. SentContent(sent.lines[n]) \in Seq(Symbols)
    BY <2>1 DEF Words
  <2>3. q \o SentContent(sent.lines[n]) \in Seq(Symbols)
    BY <2>2, ConcatProperties
  <2> QED BY <2>1, <2>3, ConcatProperties
<1>2. step \in [Nat \X V -> V]
  <2>1. ASSUME NEW a \in Nat \X V
        PROVE  (IF a[1] \notin 1 .. N THEN a[2]
                ELSE a[2] \o SentContent(sent.lines[a[1]]) \o sent.lines[a[1]].end) \in V
    BY <1>11
  <2> QED BY <2>1
<1>3. PICK f \in [0 .. N -> V] : Recursive(f, N, sent.status, step)
  <2> HIDE DEF step, V
  <2> QED BY <1>1, <1>2, Recursion
<1>4. f[0] = sent.status
  BY <1>3 DEF Recursive
<1>5. ASSUME NEW k \in 1 .. N
      PROVE  f[k] = f[k - 1] \o SentContent(sent.lines[k]) \o sent.lines[k].end
  <2>1. k \in Nat /\ k - 1 \in 0 .. N
    BY <1>1
  <2>2. f[k - 1] \in V
    BY <2>1, <1>3
  <2>3. f[k] = step[<<k, f[k - 1]>>]
    BY <1>3 DEF Recursive
  <2> HIDE DEF V
  <2> QED BY <2>1, <2>2, <2>3
<1>6. f = [k \in 0 .. N |-> IF k = 0 THEN sent.status
                           ELSE f[k - 1] \o SentContent(sent.lines[k]) \o sent.lines[k].end]
  <2>1. \A k \in 0 .. N : k = 0 \/ k \in 1 .. N
    BY <1>1
  <2>2. \A k \in 0 .. N : f[k] = IF k = 0 THEN sent.status
                                 ELSE f[k - 1] \o SentContent(sent.lines[k]) \o sent.lines[k].end
    BY <2>1, <1>4, <1>5
  <2> HIDE DEF V
  <2> QED BY <2>2, <1>3
<1>7. T = [k \in 0 .. N |-> IF k = 0 THEN sent.status
                           ELSE T[k - 1] \o SentContent(sent.lines[k]) \o sent.lines[k].end]
  BY <1>6 DEF TextTo
<1>8. T[0] = sent.status
  BY <1>1, <1>7
<1>9. ASSUME NEW k \in 1 .. N
      PROVE  T[k] = T[k - 1] \o SentContent(sent.lines[k]) \o sent.lines[k].end
  <2>1. k \in 0 .. N /\ k # 0
    BY <1>1
  <2> QED BY <2>1, <1>7
<1> DEFINE S == {k \in Nat : k <= N => T[k] \in V}
<1>10. \A k \in Nat : k \in S
  <2>1. 0 \in S
    BY <1>1, <1>8
  <2>2. ASSUME NEW k \in Nat, k \in S PROVE k + 1 \in S
    <3>1. CASE k + 1 <= N
      <4>1. k + 1 \in 1 .. N /\ T[k] \in V /\ (k + 1) - 1 = k
        BY <3>1, <2>2, <1>1
      <4>2. T[k] \o SentContent(sent.lines[k + 1]) \o sent.lines[k + 1].end \in V
        BY <4>1, <1>11
      <4>4. T[k + 1] \in V
        BY <4>1, <4>2, <1>9
      <4> QED BY <4>4
    <3>2. CASE ~ (k + 1 <= N)
      BY <3>2
    <3> QED BY <3>1, <3>2
  <2> HIDE DEF S
  <2> QED BY <2>1, <2>2, Induction
<1>12. \A k \in 0 .. N : T[k] \in Seq(Symbols)
  BY <1>1, <1>10
<1> QED BY <1>1, <1>8, <1>9, <1>12 DEF SpeltBy

LEMMA HeadersAre ==
  ASSUME NEW sent, WellSent(sent), NEW N, N = Len(sent.lines), NEW A, A = HeadersTo(sent)
  PROVE  /\ A[0] = << >>
         /\ \A k \in 1 .. N : A[k] = IF sent.lines[k].colon
                                    THEN Append(A[k - 1], <<sent.lines[k].name, sent.lines[k].value>>)
                                    ELSE A[k - 1]
<1> DEFINE H == {<<sent.lines[k].name, sent.lines[k].value>> : k \in 1 .. N}
           V == Seq(H)
           step == [a \in Nat \X V |->
                      IF a[1] \in 1 .. N /\ sent.lines[a[1]].colon
                      THEN Append(a[2], <<sent.lines[a[1]].name, sent.lines[a[1]].value>>) ELSE a[2]]
<1>1. N \in Nat
  BY DEF WellSent
<1>2. step \in [Nat \X V -> V] /\ << >> \in V
  <2>1. ASSUME NEW n \in 1 .. N, NEW q \in V
        PROVE  Append(q, <<sent.lines[n].name, sent.lines[n].value>>) \in V
    <3>1. <<sent.lines[n].name, sent.lines[n].value>> \in H
      OBVIOUS
    <3> HIDE DEF H
    <3> QED BY <3>1, AppendProperties
  <2>2. ASSUME NEW a \in Nat \X V
        PROVE  (IF a[1] \in 1 .. N /\ sent.lines[a[1]].colon
                THEN Append(a[2], <<sent.lines[a[1]].name, sent.lines[a[1]].value>>) ELSE a[2]) \in V
    <3> HIDE DEF V
    <3> QED BY <2>1
  <2>3. << >> \in V
    OBVIOUS
  <2> HIDE DEF V
  <2> QED BY <2>2, <2>3
<1>3. PICK f \in [0 .. N -> V] : Recursive(f, N, << >>, step)
  <2> HIDE DEF step, V
  <2> QED BY <1>1, <1>2, Recursion
<1> HIDE DEF V
<1>4. f[0] = << >>
  BY <1>3 DEF Recursive
<1>5. ASSUME NEW k \in 1 .. N
      PROVE  f[k] = IF sent.lines[k].colon
                    THEN Append(f[k - 1], <<sent.lines[k].name, sent.lines[k].value>>) ELSE f[k - 1]
  <2>1. k \in Nat /\ k - 1 \in 0 .. N
    BY <1>1
  <2>2. f[k - 1] \in V
    BY <2>1, <1>3
  <2>3. f[k] = step[<<k, f[k - 1]>>]
    BY <1>3 DEF Recursive
  <2> QED BY <2>1, <2>2, <2>3
<1>6. f = [k \in 0 .. N |-> IF k = 0 THEN << >>
                           ELSE IF sent.lines[k].colon
                                THEN Append(f[k - 1], <<sent.lines[k].name, sent.lines[k].value>>)
                                ELSE f[k - 1]]
  <2>1. \A k \in 0 .. N : k = 0 \/ k \in 1 .. N
    BY <1>1
  <2>2. \A k \in 0 .. N : f[k] = IF k = 0 THEN << >>
                                 ELSE IF sent.lines[k].colon
                                      THEN Append(f[k - 1], <<sent.lines[k].name, sent.lines[k].value>>)
                                      ELSE f[k - 1]
    BY <2>1, <1>4, <1>5
  <2> QED BY <2>2, <1>3
<1>7. A = [k \in 0 .. N |-> IF k = 0 THEN << >>
                           ELSE IF sent.lines[k].colon
                                THEN Append(A[k - 1], <<sent.lines[k].name, sent.lines[k].value>>)
                                ELSE A[k - 1]]
  BY <1>6 DEF HeadersTo
<1>8. A[0] = << >>
  BY <1>1, <1>7
<1>9. ASSUME NEW k \in 1 .. N
      PROVE  A[k] = IF sent.lines[k].colon
                    THEN Append(A[k - 1], <<sent.lines[k].name, sent.lines[k].value>>) ELSE A[k - 1]
  <2>1. k \in 0 .. N /\ k # 0
    BY <1>1
  <2> QED BY <2>1, <1>7
<1> QED BY <1>8, <1>9

\* A line within the text up to its end.
LEMMA LineIn ==
  ASSUME NEW before \in Seq(Symbols), NEW C \in Seq(Symbols), NEW E \in Seq(Symbols),
         NEW upTo, upTo = before \o C \o E
  PROVE  /\ upTo \in Seq(Symbols) /\ Len(before) \in Nat /\ Len(C) \in Nat /\ Len(E) \in Nat
         /\ Len(upTo) = Len(before) + Len(C) + Len(E)
         /\ \A n \in 1 .. Len(before) : upTo[n] = before[n]
         /\ \A n \in 1 .. Len(C) : upTo[Len(before) + n] = C[n]
         /\ \A n \in 1 .. Len(E) : upTo[Len(before) + Len(C) + n] = E[n]
<1>1. PICK part : part = before \o C
  OBVIOUS
<1>2. upTo = part \o E
  BY <1>1
<1>3. /\ part \in Seq(Symbols) /\ Len(part) = Len(before) + Len(C)
      /\ Len(before) \in Nat /\ Len(C) \in Nat
      /\ \A n \in 1 .. Len(before) : part[n] = before[n]
      /\ \A n \in 1 .. Len(C) : part[Len(before) + n] = C[n]
  BY ONLY <1>1, Joined, before \in Seq(Symbols), C \in Seq(Symbols)
<1>4. /\ upTo \in Seq(Symbols) /\ Len(upTo) = Len(part) + Len(E) /\ Len(E) \in Nat
      /\ \A n \in 1 .. Len(part) : upTo[n] = part[n]
      /\ \A n \in 1 .. Len(E) : upTo[Len(part) + n] = E[n]
  <2>1. part \in Seq(Symbols)
    BY <1>3
  <2> QED BY ONLY <2>1, <1>2, Joined, E \in Seq(Symbols)
<1>5. \A n \in 1 .. Len(before) : upTo[n] = before[n]
  BY <1>3, <1>4
<1>6. ASSUME NEW n \in 1 .. Len(C) PROVE upTo[Len(before) + n] = C[n]
  <2>1. Len(before) + n \in 1 .. Len(part)
    BY <1>3
  <2> QED BY <2>1, <1>3, <1>4
<1>7. \A n \in 1 .. Len(E) : upTo[Len(before) + Len(C) + n] = E[n]
  BY <1>3, <1>4
<1>8. Len(upTo) = Len(before) + Len(C) + Len(E)
  BY <1>3, <1>4
<1> QED BY <1>3, <1>4, <1>5, <1>6, <1>7, <1>8

\* What is sent begins with the text of its first lines, whatever their number.
TextOf(sent, N, T, R) ==
  /\ N \in Nat /\ R \in Seq(Symbols)
  /\ Len(R) = Len(T[N]) + Len(sent.rest) /\ Len(sent.rest) \in Nat
  /\ \A n \in 1 .. Len(sent.rest) : R[Len(T[N]) + n] = sent.rest[n]
  /\ \A k \in 0 .. N : /\ T[k] \in Seq(Symbols) /\ Len(T[k]) \in Nat /\ Len(T[k]) <= Len(R)
                      /\ \A n \in 1 .. Len(T[k]) : R[n] = T[k][n]
  /\ \A k \in 1 .. N :
       LET C == SentContent(sent.lines[k])
           E == sent.lines[k].end
       IN /\ Len(T[k]) = Len(T[k - 1]) + Len(C) + Len(E)
          /\ \A n \in 1 .. Len(C) : R[Len(T[k - 1]) + n] = C[n]
          /\ \A n \in 1 .. Len(E) : R[Len(T[k - 1]) + Len(C) + n] = E[n]

LEMMA Beginnings ==
  ASSUME NEW sent, WellSent(sent), NEW N, N = Len(sent.lines), NEW T, T = TextTo(sent),
         NEW R, R = SentText(sent)
  PROVE  TextOf(sent, N, T, R)
<1>1. /\ N \in Nat /\ T[0] = sent.status
      /\ \A k \in 0 .. N : T[k] \in Seq(Symbols)
      /\ \A k \in 1 .. N : T[k] = T[k - 1] \o SentContent(sent.lines[k]) \o sent.lines[k].end
  <2>1. SpeltBy(sent, N, T)
    BY TextIs
  <2> QED BY <2>1 DEF SpeltBy
<1>2. sent.rest \in Seq(Symbols) /\ \A k \in 1 .. N : sent.lines[k] \in SentLine
  BY ElementOfSeq DEF WellSent
<1>3. R = T[N] \o sent.rest
  BY DEF SentText
<1>4. T[N] \in Seq(Symbols)
  BY <1>1
<1>5. /\ R \in Seq(Symbols) /\ Len(R) = Len(T[N]) + Len(sent.rest)
      /\ Len(T[N]) \in Nat /\ Len(sent.rest) \in Nat
      /\ \A n \in 1 .. Len(T[N]) : R[n] = T[N][n]
      /\ \A n \in 1 .. Len(sent.rest) : R[Len(T[N]) + n] = sent.rest[n]
  <2>1. PICK t, r : t = T[N] /\ r = sent.rest
    OBVIOUS
  <2>2. t \in Seq(Symbols) /\ r \in Seq(Symbols) /\ R = t \o r
    BY <2>1, <1>2, <1>3, <1>4
  <2>3. /\ R \in Seq(Symbols) /\ Len(R) = Len(t) + Len(r)
        /\ Len(t) \in Nat /\ Len(r) \in Nat
        /\ \A n \in 1 .. Len(t) : R[n] = t[n]
        /\ \A n \in 1 .. Len(r) : R[Len(t) + n] = r[n]
    BY ONLY <2>2, Joined
  <2> QED BY <2>1, <2>3
<1>6. ASSUME NEW k \in 1 .. N
      PROVE  LET C == SentContent(sent.lines[k])
                 E == sent.lines[k].end
             IN /\ Len(T[k]) = Len(T[k - 1]) + Len(C) + Len(E)
                /\ Len(T[k - 1]) \in Nat /\ Len(C) \in Nat /\ Len(E) \in Nat
                /\ \A n \in 1 .. Len(T[k - 1]) : T[k][n] = T[k - 1][n]
                /\ \A n \in 1 .. Len(C) : T[k][Len(T[k - 1]) + n] = C[n]
                /\ \A n \in 1 .. Len(E) : T[k][Len(T[k - 1]) + Len(C) + n] = E[n]
  <2> DEFINE C == SentContent(sent.lines[k])
             E == sent.lines[k].end
  <2>1. C \in Seq(Symbols) /\ E \in Seq(Symbols)
    <3>1. C \in Seq(Words) /\ E \in Seq(Symbols)
      BY <1>2, LineIs
    <3> QED BY <3>1 DEF Words
  <2>2. T[k] = T[k - 1] \o C \o E /\ T[k - 1] \in Seq(Symbols)
    <3>1. k - 1 \in 0 .. N
      BY <1>1
    <3> QED BY <3>1, <1>1
  <2> HIDE DEF C, E
  <2>3. /\ Len(T[k]) = Len(T[k - 1]) + Len(C) + Len(E)
        /\ Len(T[k - 1]) \in Nat /\ Len(C) \in Nat /\ Len(E) \in Nat
        /\ \A n \in 1 .. Len(T[k - 1]) : T[k][n] = T[k - 1][n]
        /\ \A n \in 1 .. Len(C) : T[k][Len(T[k - 1]) + n] = C[n]
        /\ \A n \in 1 .. Len(E) : T[k][Len(T[k - 1]) + Len(C) + n] = E[n]
    BY ONLY <2>1, <2>2, LineIn
  <2> QED BY <2>3 DEF C, E
<1> DEFINE Begins(k) == /\ Len(T[k]) \in Nat /\ Len(T[k]) <= Len(R)
                        /\ \A n \in 1 .. Len(T[k]) : R[n] = T[k][n]
           S == {k \in 0 .. N : Begins(k)}
<1>7. ASSUME NEW k \in 0 .. N, \A m \in k + 1 .. N : m \in S PROVE k \in S
  <2>1. CASE k = N
    <3>1. Len(T[N]) \in Nat /\ Len(T[N]) <= Len(R) /\ \A n \in 1 .. Len(T[N]) : R[n] = T[N][n]
      <4>1. PICK t \in Nat, r \in Nat : t = Len(T[N]) /\ r = Len(sent.rest)
        BY <1>5
      <4>2. Len(R) = t + r
        BY <4>1, <1>5
      <4>3. t <= Len(R)
        BY <4>2
      <4> QED BY <4>1, <4>3, <1>5
    <3>2. Begins(k)
      BY <2>1, <3>1
    <3> QED BY <3>2
  <2>2. CASE k # N
    <3>1. k + 1 \in 1 .. N /\ k + 1 \in k + 1 .. N /\ (k + 1) - 1 = k
      BY <2>2, <1>1
    <3>2. Begins(k + 1)
      BY <3>1, <1>7
    <3>3. /\ Len(T[k]) \in Nat /\ Len(T[k]) <= Len(T[k + 1])
          /\ \A n \in 1 .. Len(T[k]) : T[k + 1][n] = T[k][n]
      <4> DEFINE h == k + 1
      <4>1. /\ Len(T[h]) = Len(T[h - 1]) + Len(SentContent(sent.lines[h])) + Len(sent.lines[h].end)
            /\ Len(T[h - 1]) \in Nat /\ Len(SentContent(sent.lines[h])) \in Nat
            /\ Len(sent.lines[h].end) \in Nat
            /\ \A n \in 1 .. Len(T[h - 1]) : T[h][n] = T[h - 1][n]
        BY <3>1, <1>6
      <4>2. h - 1 = k /\ h = k + 1
        BY <3>1
      <4> HIDE DEF h
      <4>3. PICK p \in Nat, c \in Nat, e \in Nat :
              /\ p = Len(T[h - 1]) /\ c = Len(SentContent(sent.lines[h]))
              /\ e = Len(sent.lines[h].end) /\ Len(T[h]) = p + c + e
        BY <4>1
      <4>5. p <= p + c + e
        OBVIOUS
      <4>4. p <= Len(T[h])
        BY <4>3, <4>5
      <4> QED BY <4>1, <4>2, <4>3, <4>4
    <3>4. Len(R) \in Nat
      BY <1>5, LenProperties
    <3>5. Begins(k)
      BY <3>2, <3>3, <3>4
    <3> QED BY <3>5
  <2> QED BY <2>1, <2>2
<1>8. \A k \in 0 .. N : k \in S
  <2> HIDE DEF S
  <2> QED BY <1>1, <1>7, Downward
<1>9. \A k \in 0 .. N : Begins(k)
  BY <1>8
<1> HIDE DEF S, Begins
<1>10. ASSUME NEW k \in 1 .. N
       PROVE  LET C == SentContent(sent.lines[k])
                  E == sent.lines[k].end
              IN /\ Len(T[k]) = Len(T[k - 1]) + Len(C) + Len(E)
                 /\ \A n \in 1 .. Len(C) : R[Len(T[k - 1]) + n] = C[n]
                 /\ \A n \in 1 .. Len(E) : R[Len(T[k - 1]) + Len(C) + n] = E[n]
  <2> DEFINE C == SentContent(sent.lines[k])
             E == sent.lines[k].end
             p == Len(T[k - 1])
  <2>1. /\ Len(T[k]) = p + Len(C) + Len(E)
        /\ p \in Nat /\ Len(C) \in Nat /\ Len(E) \in Nat
        /\ \A n \in 1 .. Len(C) : T[k][p + n] = C[n]
        /\ \A n \in 1 .. Len(E) : T[k][p + Len(C) + n] = E[n]
    BY <1>6
  <2>2. \A n \in 1 .. Len(T[k]) : R[n] = T[k][n]
    <3>1. k \in 0 .. N
      BY ONLY <1>1, k \in 1 .. N
    <3>2. Begins(k)
      BY ONLY <3>1, <1>9
    <3> HIDE DEF C, E, p
    <3> QED BY ONLY <3>2 DEF Begins
  <2> HIDE DEF C, E, p
  <2>3. ASSUME NEW n \in 1 .. Len(C) PROVE R[p + n] = C[n]
    <3>1. p + n \in 1 .. Len(T[k])
      BY <2>1
    <3> QED BY <3>1, <2>1, <2>2
  <2>4. ASSUME NEW n \in 1 .. Len(E) PROVE R[p + Len(C) + n] = E[n]
    <3>1. p + Len(C) + n \in 1 .. Len(T[k])
      BY <2>1
    <3> QED BY <3>1, <2>1, <2>2
  <2> QED BY <2>1, <2>3, <2>4 DEF C, E, p
<1>11. \A k \in 0 .. N : /\ T[k] \in Seq(Symbols) /\ Len(T[k]) \in Nat /\ Len(T[k]) <= Len(R)
                        /\ \A n \in 1 .. Len(T[k]) : R[n] = T[k][n]
  BY <1>1, <1>9 DEF Begins
<1> QED BY <1>1, <1>5, <1>10, <1>11 DEF TextOf

\* A line that is sent is found: its end and the next line, ...
EndsAt(p, c, next) ==
  /\ Len(raw) \in Nat /\ p \in Nat /\ c \in Nat /\ next \in Nat /\ p <= c /\ c <= Len(raw)
  /\ \A m \in p .. c - 1 : raw[m + 1] # LF /\ raw[m + 1] # CR
  /\ \/ c = Len(raw) /\ next = c
     \/ c + 1 <= Len(raw) /\ next = c + 1 /\ raw[c + 1] = LF
     \/ c + 2 <= Len(raw) /\ next = c + 2 /\ raw[c + 1] = CR /\ raw[c + 2] = LF

LEMMA EndFound ==
  ASSUME NEW p, NEW c, NEW next, EndsAt(p, c, next)
  PROVE  ContentEnd(p) = c /\ NextLine(p) = next
<1>b. PICK N \in Nat : N = Len(raw)
  BY DEF EndsAt
<1>a. /\ p \in Nat /\ c \in Nat /\ next \in Nat /\ p <= c /\ c <= N
      /\ \A m \in p .. c - 1 : raw[m + 1] # LF /\ raw[m + 1] # CR
      /\ \/ c = N /\ next = c
         \/ c + 1 <= N /\ next = c + 1 /\ raw[c + 1] = LF
         \/ c + 2 <= N /\ next = c + 2 /\ raw[c + 1] = CR /\ raw[c + 2] = LF
  BY <1>b DEF EndsAt
<1> USE <1>b, <1>a
<1>1. CR # LF
  BY DEF CR, LF
<1>2. PICK last \in Nat :
        /\ last >= c /\ last <= N /\ (last = N \/ raw[last + 1] = LF)
        /\ next = IF last < N THEN last + 1 ELSE last
        /\ last = c \/ (last = c + 1 /\ raw[c + 1] = CR)
  <2>1. CASE c = N /\ next = c
    BY <2>1
  <2>2. CASE c + 1 <= N /\ next = c + 1 /\ raw[c + 1] = LF
    BY <2>2
  <2>3. CASE c + 2 <= N /\ next = c + 2 /\ raw[c + 1] = CR /\ raw[c + 2] = LF
    <3>1. (c + 1) + 1 = c + 2 /\ c + 1 \in Nat /\ c + 1 < N
      BY <2>3
    <3> QED BY <2>3, <3>1
  <2> QED BY <2>1, <2>2, <2>3
<1>3. LineEnd(p) = last
  <2> DEFINE S == {m \in p .. Len(raw) : m = Len(raw) \/ SymbolAt(m) = LF}
  <2>1. last \in S
    BY <1>2 DEF SymbolAt
  <2>2. ASSUME NEW m \in S PROVE last <= m
    <3>1. m \in p .. N /\ (m = N \/ raw[m + 1] = LF)
      BY DEF SymbolAt
    <3>2. m \notin p .. c - 1
      BY <3>1
    <3>3. m = c => last = c
      <4>1. last # c => raw[c + 1] = CR /\ c # N
        BY <1>2
      <4> QED BY <4>1, <3>1, <1>1
    <3> QED BY <3>1, <3>2, <3>3, <1>2
  <2>3. S \in SUBSET Nat
    OBVIOUS
  <2>4. Min(S) = last
    <3> HIDE DEF S
    <3> QED BY <2>1, <2>2, <2>3, MinIs
  <2> QED BY <2>4 DEF LineEnd
<1>4. NextLine(p) = next
  BY <1>2, <1>3 DEF NextLine
<1>5. ContentEnd(p) = c
  <2>1. CASE last = c
    <3>1. c > p => c - 1 \in p .. c - 1
      OBVIOUS
    <3>2. c > p => raw[(c - 1) + 1] # CR
      BY <3>1
    <3> QED BY <2>1, <3>2, <1>3 DEF ContentEnd, SymbolAt
  <2>2. CASE last # c
    <3>1. last > p /\ last - 1 = c /\ raw[c + 1] = CR
      BY <2>2, <1>2
    <3> QED BY <3>1, <1>3 DEF ContentEnd, SymbolAt
  <2> QED BY <2>1, <2>2
<1> QED BY <1>4, <1>5

\* ... and its header with its whole name and value.
HeaderIn(p, name, a, b, value, d, from, c) ==
  /\ raw \in Seq(Symbols) /\ name \in Seq(Symbols) /\ value \in Seq(Symbols)
  /\ p \in Nat /\ a \in Nat /\ b \in Nat /\ d \in Nat /\ from \in Nat /\ c \in Nat
  /\ a = Len(name) /\ d = Len(value) /\ from = p + a + 1 + b /\ c = from + d
  /\ c <= Len(raw) /\ ContentEnd(p) = c
  /\ \A n \in 1 .. a : raw[p + n] = name[n] /\ name[n] # Colon
  /\ raw[p + a + 1] = Colon
  /\ \A n \in 1 .. b : raw[p + a + 1 + n] = Blank
  /\ \A n \in 1 .. d : raw[from + n] = value[n]
  /\ d # 0 => value[1] # Blank

LEMMA HeaderFound ==
  ASSUME NEW p, NEW name, NEW a, NEW b, NEW value, NEW d, NEW from, NEW c,
         HeaderIn(p, name, a, b, value, d, from, c)
  PROVE  Colons(p) # {} /\ HeaderAt(p) = <<name, value>>
<1>r. raw \in Seq(Symbols)
  BY DEF HeaderIn
<1>b. PICK N \in Nat : N = Len(raw)
  BY ONLY <1>r
<1>a. /\ raw \in Seq(Symbols) /\ name \in Seq(Symbols) /\ value \in Seq(Symbols)
      /\ p \in Nat /\ a \in Nat /\ b \in Nat /\ d \in Nat /\ from \in Nat /\ c \in Nat
      /\ a = Len(name) /\ d = Len(value) /\ from = p + a + 1 + b /\ c = from + d
      /\ c <= N /\ ContentEnd(p) = c
      /\ \A n \in 1 .. a : raw[p + n] = name[n] /\ name[n] # Colon
      /\ raw[p + a + 1] = Colon
      /\ \A n \in 1 .. b : raw[p + a + 1 + n] = Blank
      /\ \A n \in 1 .. d : raw[from + n] = value[n]
      /\ d # 0 => value[1] # Blank
  BY <1>b DEF HeaderIn
<1> USE <1>b, <1>a
<1>1. Colon # Blank
  BY DEF Colon, Blank
<1>2. Min(Colons(p)) = p + a /\ Colons(p) # {}
  <2>1. p + a \in Colons(p)
    <3>1. p + a \in p .. c - 1
      OBVIOUS
    <3> QED BY <3>1 DEF Colons, SymbolAt
  <2>2. ASSUME NEW m \in Colons(p) PROVE p + a <= m
    <3>1. m \in p .. c - 1 /\ raw[m + 1] = Colon
      BY DEF Colons, SymbolAt
    <3>2. ASSUME m < p + a PROVE FALSE
      <4>1. PICK n \in 1 .. a : p + n = m + 1
        <5>1. m + 1 - p \in 1 .. a /\ p + (m + 1 - p) = m + 1
          BY <3>1, <3>2
        <5> QED BY <5>1
      <4>2. raw[p + n] # Colon
        OBVIOUS
      <4> QED BY <4>1, <4>2, <3>1
    <3> QED BY <3>1, <3>2
  <2>3. Colons(p) \in SUBSET Nat
    BY DEF Colons
  <2>4. p + a \in Nat
    OBVIOUS
  <2> QED BY ONLY <2>1, <2>2, <2>3, MinIs
<1> DEFINE V == {m \in p + a + 1 .. c : m = c \/ SymbolAt(m) # Blank}
<1>3. Min(V) = from
  <2>1. from \in V
    <3>1. CASE d = 0
      BY <3>1
    <3>2. CASE d # 0
      <4>1. from \in p + a + 1 .. c /\ 1 \in 1 .. d
        BY <3>2
      <4>2. raw[from + 1] # Blank
        BY <4>1, <3>2
      <4> QED BY <4>1, <4>2 DEF SymbolAt
    <3> QED BY <3>1, <3>2
  <2>2. ASSUME NEW m \in V PROVE from <= m
    <3>1. m \in p + a + 1 .. c /\ (m = c \/ raw[m + 1] # Blank)
      BY DEF SymbolAt
    <3>2. ASSUME m < from PROVE FALSE
      <4>1. m - (p + a) \in 1 .. b /\ p + a + 1 + (m - (p + a)) = m + 1 /\ m # c
        BY <3>1, <3>2
      <4> QED BY <4>1, <3>1
    <3> QED BY <3>1, <3>2
  <2>3. V \in SUBSET Nat
    OBVIOUS
  <2> HIDE DEF V
  <2> QED BY ONLY <2>1, <2>2, <2>3, MinIs
<1>4. Piece(p, p + a) = name
  <2>1. p + Len(name) <= Len(raw) /\ \A n \in 1 .. Len(name) : raw[p + n] = name[n]
    OBVIOUS
  <2>2. SubSeq(raw, p + 1, p + Len(name)) = name
    BY <2>1, PieceIs
  <2> QED BY <2>2 DEF Piece
<1>5. Piece(from, c) = value
  <2>1. from + Len(value) <= Len(raw) /\ \A n \in 1 .. Len(value) : raw[from + n] = value[n]
    OBVIOUS
  <2>2. SubSeq(raw, from + 1, from + Len(value)) = value
    BY <2>1, PieceIs
  <2> QED BY <2>2 DEF Piece
<1>6. HeaderAt(p) = <<Piece(p, p + a), Piece(from, c)>>
  <2> HIDE DEF V
  <2>1. HeaderAt(p) = <<Piece(p, Min(Colons(p))),
                        Piece(Min({m \in Min(Colons(p)) + 1 .. c : m = c \/ SymbolAt(m) # Blank}), c)>>
    BY DEF HeaderAt
  <2> QED BY <2>1, <1>2, <1>3 DEF V
<1> QED BY <1>2, <1>4, <1>5, <1>6

\* What is read at the end of k lines: the next one, ...
LEMMA LineRead ==
  ASSUME NEW sent, WellSent(sent), raw = SentText(sent), NEW N, N = Len(sent.lines),
         NEW T, T = TextTo(sent), NEW k \in 1 .. N, NEW p, p = Len(T[k - 1])
  PROVE  /\ p < Len(raw) /\ ContentEnd(p) > p /\ NextLine(p) = Len(T[k])
         /\ Colons(p) = {} <=> ~ sent.lines[k].colon
         /\ sent.lines[k].colon => HeaderAt(p) = <<sent.lines[k].name, sent.lines[k].value>>
<1>b. TextOf(sent, N, T, raw)
  BY ONLY WellSent(sent), raw = SentText(sent), N = Len(sent.lines), T = TextTo(sent), Beginnings
<1>1. /\ N \in Nat /\ raw \in Seq(Symbols)
      /\ Len(raw) = Len(T[N]) + Len(sent.rest) /\ Len(sent.rest) \in Nat
      /\ Len(T[k - 1]) \in Nat /\ Len(T[k]) \in Nat /\ Len(T[N]) \in Nat
      /\ Len(T[k]) <= Len(raw)
  <2>1. N \in Nat
    BY <1>b DEF TextOf
  <2>2. k - 1 \in 0 .. N /\ k \in 0 .. N /\ N \in 0 .. N
    BY <2>1
  <2> QED BY <1>b, <2>2 DEF TextOf
<1>2. PICK item \in SentLine : item = sent.lines[k]
  BY ElementOfSeq DEF WellSent
<1>3. PICK C, E : C = SentContent(item) /\ E = item.end
  OBVIOUS
<1>4. /\ C \in Seq(Words) /\ Len(C) \in Nat \ {0}
      /\ item.name \in Seq(Words) /\ item.value \in Seq(Words)
      /\ E \in {<<LF>>, <<CR, LF>>, << >>} /\ Len(item.name) \in Nat
      /\ \A n \in 1 .. Len(item.name) : C[n] = item.name[n] /\ C[n] # Colon
      /\ ~ item.colon => Len(C) = Len(item.name)
      /\ item.colon => /\ \E pad : MadeOf(C, item.name, pad, item.value)
                       /\ Len(item.value) # 0 => item.value[1] # Blank
  BY <1>3, LineIs
<1>5. /\ Len(T[k]) = p + Len(C) + Len(E)
      /\ \A n \in 1 .. Len(C) : raw[p + n] = C[n]
      /\ \A n \in 1 .. Len(E) : raw[p + Len(C) + n] = E[n]
  BY <1>b, <1>2, <1>3 DEF TextOf
<1>6. PICK L \in Nat, q \in Nat, l \in Nat \ {0}, next \in Nat :
        L = Len(raw) /\ q = p /\ l = Len(C) /\ next = Len(T[k])
  BY <1>1, <1>4, LenProperties
<1>7. PICK c \in Nat : c = q + l
  BY <1>6
<1>8. next <= L /\ \A n \in 1 .. l : raw[q + n] = C[n]
  BY <1>1, <1>5, <1>6
<1>9. /\ q < c /\ c <= L /\ q < L
      /\ \/ c = L /\ next = c
         \/ c + 1 <= L /\ next = c + 1 /\ raw[c + 1] = LF
         \/ c + 2 <= L /\ next = c + 2 /\ raw[c + 1] = CR /\ raw[c + 2] = LF
  <2>1. PICK e \in Nat : e = Len(E) /\ next = c + e /\ \A n \in 1 .. e : raw[c + n] = E[n]
    <3>1. Len(E) \in Nat
      BY <1>4
    <3>2. PICK e \in Nat : e = Len(E)
      BY <3>1
    <3> QED BY <3>2, <1>5, <1>6, <1>7
  <2>2. CASE E = << >>
    <3>1. e = 0
      BY <2>1, <2>2
    <3>2. k = N /\ sent.rest = << >>
      BY <1>2, <1>3, <2>2 DEF WellSent
    <3>3. L = next
      <4>1. Len(sent.rest) = 0
        BY <3>2
      <4>2. Len(T[N]) = next
        BY <3>2, <1>6
      <4>3. L = next + 0
        BY <4>1, <4>2, <1>1, <1>6
      <4> QED BY <4>3
    <3> QED BY <3>1, <3>3, <2>1, <1>7
  <2>3. CASE E = <<LF>>
    <3>1. Len(E) = 1 /\ E[1] = LF
      BY <2>3
    <3>2. e = 1 /\ 1 \in 1 .. e
      BY <3>1, <2>1
    <3>3. raw[c + 1] = LF /\ next = c + 1
      BY <3>1, <3>2, <2>1
    <3> QED BY <3>3, <1>7, <1>8
  <2>4. CASE E = <<CR, LF>>
    <3>1. Len(E) = 2 /\ E[1] = CR /\ E[2] = LF
      BY <2>4
    <3>2. e = 2 /\ 1 \in 1 .. e /\ 2 \in 1 .. e
      BY <3>1, <2>1
    <3>3. raw[c + 1] = CR /\ raw[c + 2] = LF /\ next = c + 2
      BY <3>1, <3>2, <2>1
    <3> QED BY <3>3, <1>7, <1>8
  <2> QED BY <2>2, <2>3, <2>4, <1>4
<1>10. ASSUME NEW m \in q .. c - 1 PROVE raw[m + 1] # LF /\ raw[m + 1] # CR
  <2>1. PICK n \in 1 .. l : q + n = m + 1
    <3>1. m + 1 - q \in 1 .. l /\ q + (m + 1 - q) = m + 1
      BY <1>7
    <3> QED BY <3>1
  <2>2. C[n] # LF /\ C[n] # CR
    <3>1. n \in 1 .. Len(C)
      BY <1>6
    <3> QED BY <3>1, <1>4, WordsPlain
  <2> QED BY <2>1, <2>2, <1>8
<1>11. ContentEnd(q) = c /\ NextLine(q) = next
  <2>1. L = Len(raw)
    BY <1>6
  <2>2. q <= c
    BY <1>9
  <2>3. \A m \in q .. c - 1 : raw[m + 1] # LF /\ raw[m + 1] # CR
    BY <1>10
  <2>4. \/ c = L /\ next = c
        \/ c + 1 <= L /\ next = c + 1 /\ raw[c + 1] = LF
        \/ c + 2 <= L /\ next = c + 2 /\ raw[c + 1] = CR /\ raw[c + 2] = LF
    BY <1>9
  <2>5. c <= L
    BY <1>9
  <2>6. L \in Nat /\ q \in Nat /\ c \in Nat /\ next \in Nat
    OBVIOUS
  <2>7. EndsAt(q, c, next)
    BY ONLY <2>1, <2>2, <2>3, <2>4, <2>5, <2>6 DEF EndsAt
  <2> QED BY <2>7, EndFound
<1>12. p < Len(raw) /\ ContentEnd(p) > p /\ NextLine(p) = Len(T[k])
  BY <1>6, <1>9, <1>11
<1>13. PICK name, value : name = item.name /\ value = item.value
  OBVIOUS
<1>14. PICK a \in Nat : a = Len(name)
  BY <1>4, <1>13
<1>15. \A n \in 1 .. a : raw[q + n] = name[n] /\ name[n] # Colon
  <2>1. a <= l
    <3>1. Len(item.name) <= Len(C)
      BY <1>3, LineIs
    <3> QED BY <3>1, <1>6, <1>13, <1>14
  <2> QED BY <2>1, <1>4, <1>8, <1>13, <1>14
<1>16. CASE ~ item.colon
  <2>1. c = q + a
    BY <1>4, <1>6, <1>7, <1>13, <1>14, <1>16
  <2>2. ASSUME NEW m \in Colons(q) PROVE FALSE
    <3>1. m \in q .. c - 1 /\ raw[m + 1] = Colon
      BY <1>11 DEF Colons, SymbolAt
    <3>2. PICK n \in 1 .. a : q + n = m + 1
      <4>1. m + 1 - q \in 1 .. a /\ q + (m + 1 - q) = m + 1
        BY <3>1, <2>1
      <4> QED BY <4>1
    <3> QED BY <3>1, <3>2, <1>15
  <2>3. Colons(p) = {}
    BY <2>2, <1>6
  <2> QED BY <2>3, <1>2, <1>12, <1>16
<1>17. CASE item.colon
  <2>1. PICK pad : MadeOf(C, name, pad, value)
    BY <1>4, <1>13, <1>17
  <2>2. PICK b \in Nat, d \in Nat : b = Len(pad) /\ d = Len(value)
    BY <2>1 DEF MadeOf
  <2>3. /\ l = a + 1 + b + d
        /\ C[a + 1] = Colon
        /\ \A n \in 1 .. b : C[a + 1 + n] = Blank
        /\ \A n \in 1 .. d : C[a + 1 + b + n] = value[n]
        /\ d # 0 => value[1] # Blank
    BY <2>1, <2>2, <1>4, <1>6, <1>13, <1>14, <1>17 DEF MadeOf
  <2>size. l = a + 1 + b + d
    BY <2>3
  <2>4. PICK from \in Nat : from = q + a + 1 + b
    OBVIOUS
  <2>5. c = from + d
    BY <2>3, <2>4, <1>7
  <2>6. raw[q + a + 1] = Colon
    <3>1. a + 1 \in 1 .. l /\ q + (a + 1) = q + a + 1
      BY <2>size
    <3> QED BY <3>1, <2>3, <1>8
  <2>7. ASSUME NEW n \in 1 .. b PROVE raw[q + a + 1 + n] = Blank
    <3>1. a + 1 + n \in 1 .. l /\ q + (a + 1 + n) = q + a + 1 + n
      BY <2>size
    <3> QED BY <3>1, <2>3, <1>8
  <2>8. ASSUME NEW n \in 1 .. d PROVE raw[from + n] = value[n]
    <3>1. a + 1 + b + n \in 1 .. l /\ q + (a + 1 + b + n) = from + n
      BY <2>size, <2>4
    <3> QED BY <3>1, <2>3, <1>8
  <2>9. name \in Seq(Symbols) /\ value \in Seq(Symbols)
    BY <1>4, <1>13 DEF Words
  <2>10. Colons(q) # {} /\ HeaderAt(q) = <<name, value>>
    <3>1. raw \in Seq(Symbols) /\ L = Len(raw) /\ c <= L /\ ContentEnd(q) = c
      BY <1>1, <1>6, <1>9, <1>11
    <3>2. a = Len(name) /\ d = Len(value) /\ (d # 0 => value[1] # Blank)
      BY <2>2, <2>3, <1>14
    <3>3. /\ L \in Nat /\ q \in Nat /\ c \in Nat /\ a \in Nat /\ b \in Nat /\ d \in Nat /\ from \in Nat
      OBVIOUS
    <3>4. HeaderIn(q, name, a, b, value, d, from, c)
      BY ONLY <3>1, <3>2, <3>3, <2>4, <2>5, <2>6, <2>7, <2>8, <2>9, <1>15 DEF HeaderIn
    <3> QED BY <3>4, HeaderFound
  <2> QED BY <2>10, <1>2, <1>6, <1>12, <1>13, <1>17
<1>18. item.colon \in BOOLEAN
  BY DEF SentLine
<1> QED BY <1>16, <1>17, <1>18
\* ... and behind the last one nothing more.
LEMMA RestRead ==
  ASSUME NEW sent, WellSent(sent), raw = SentText(sent), NEW N, N = Len(sent.lines),
         NEW T, T = TextTo(sent), NEW p, p = Len(T[N])
  PROVE  p >= Len(raw) \/ ContentEnd(p) = p
<1>1. TextOf(sent, N, T, raw)
  BY ONLY WellSent(sent), raw = SentText(sent), N = Len(sent.lines), T = TextTo(sent), Beginnings
<1>2. PICK rest \in Seq(Symbols) :
        /\ rest = sent.rest
        /\ \/ rest = << >>
           \/ rest[1] = LF
           \/ Len(rest) > 1 /\ rest[1] = CR /\ rest[2] = LF
  BY DEF WellSent
<1>3. PICK L \in Nat, q \in Nat, r \in Nat :
        L = Len(raw) /\ q = p /\ r = Len(rest) /\ L = q + r
        /\ \A n \in 1 .. r : raw[q + n] = rest[n]
  <2>1. /\ Len(raw) = Len(T[N]) + Len(sent.rest) /\ Len(sent.rest) \in Nat /\ Len(T[N]) \in Nat
        /\ Len(raw) \in Nat
        /\ \A n \in 1 .. Len(sent.rest) : raw[Len(T[N]) + n] = sent.rest[n]
    <3>1. N \in Nat /\ N \in 0 .. N /\ raw \in Seq(Symbols)
      BY <1>1 DEF TextOf
    <3>2. Len(raw) \in Nat
      BY <3>1
    <3> QED BY <3>1, <3>2, <1>1 DEF TextOf
  <2> QED BY <2>1, <1>2
<1>4. CASE r = 0
  BY <1>3, <1>4
<1>5. CASE r # 0
  <2>1. rest # << >>
    BY <1>3, <1>5
  <2>2. PICK next \in Nat :
          \/ q + 1 <= L /\ next = q + 1 /\ raw[q + 1] = LF
          \/ q + 2 <= L /\ next = q + 2 /\ raw[q + 1] = CR /\ raw[q + 2] = LF
    <3>1. CASE rest[1] = LF
      <4>1. 1 \in 1 .. r /\ q + 1 <= L
        BY <1>3, <1>5
      <4>2. raw[q + 1] = LF
        BY <4>1, <3>1, <1>3
      <4> QED BY <4>1, <4>2
    <3>2. CASE Len(rest) > 1 /\ rest[1] = CR /\ rest[2] = LF
      <4>1. 1 \in 1 .. r /\ 2 \in 1 .. r /\ q + 2 <= L
        BY <1>3, <3>2
      <4>2. raw[q + 1] = CR /\ raw[q + 2] = LF
        BY <4>1, <3>2, <1>3
      <4> QED BY <4>1, <4>2
    <3> QED BY <2>1, <3>1, <3>2, <1>2
  <2>3. EndsAt(q, q, next)
    <3>1. \A m \in q .. q - 1 : raw[m + 1] # LF /\ raw[m + 1] # CR
      OBVIOUS
    <3>2. q <= L /\ L = Len(raw)
      BY <1>3
    <3> QED BY <2>2, <3>1, <3>2 DEF EndsAt
  <2> QED BY <2>3, <1>3, EndFound
<1> QED BY <1>4, <1>5
\* The first line is looked for: left out when it is the status line.
LEMMA StatusRead ==
  ASSUME NEW sent, WellSent(sent), raw = SentText(sent), NEW T, T = TextTo(sent)
  PROVE  (IF HasStatus THEN NextLine(0) ELSE 0) = Len(T[0])
<1> DEFINE N == Len(sent.lines)
<1>1. TextOf(sent, N, T, raw)
  <2>1. N = Len(sent.lines)
    OBVIOUS
  <2> HIDE DEF N
  <2> QED BY ONLY WellSent(sent), raw = SentText(sent), <2>1, T = TextTo(sent), Beginnings
<1>2. N \in Nat /\ N = Len(sent.lines) /\ T[0] = sent.status
  <2>1. N = Len(sent.lines)
    OBVIOUS
  <2> HIDE DEF N
  <2>2. SpeltBy(sent, N, T)
    BY <2>1, TextIs
  <2> QED BY <2>1, <2>2 DEF SpeltBy
<1> HIDE DEF N
<1>3. PICK s \in Seq(Symbols) : s = sent.status
  BY DEF WellSent
<1>4. PICK L \in Nat, l \in Nat :
        /\ L = Len(raw) /\ l = Len(s) /\ l <= L
        /\ \A n \in 1 .. l : raw[n] = s[n]
  <2>1. 0 \in 0 .. N /\ raw \in Seq(Symbols)
    BY <1>1, <1>2 DEF TextOf
  <2>2. Len(T[0]) \in Nat /\ Len(T[0]) <= Len(raw) /\ \A n \in 1 .. Len(T[0]) : raw[n] = T[0][n]
    BY <2>1, <1>1 DEF TextOf
  <2>3. Len(raw) \in Nat
    BY <2>1
  <2> QED BY <2>2, <2>3, <1>2, <1>3
<1>5. CASE s = << >>
  <2>1. sent.lines = << >> \/ sent.lines[1].name = << >> \/ sent.lines[1].name[1] # "HTTP"
    BY <1>3, <1>5 DEF WellSent
  <2>2. l = 0
    BY <1>4, <1>5
  <2>3. ASSUME L > 1 PROVE raw[1] # "HTTP"
    <3>1. CASE N = 0
      <4>1. PICK rest \in Seq(Symbols) :
              rest = sent.rest /\ (rest = << >> \/ rest[1] = LF \/ rest[1] = CR)
        BY DEF WellSent
      <4>2. Len(T[N]) = 0
        BY <3>1, <2>2, <1>2, <1>3, <1>4
      <4>3. PICK r \in Nat : r = Len(rest)
        BY <4>1
      <4>4. L = 0 + r /\ \A n \in 1 .. r : raw[0 + n] = rest[n]
        BY <4>1, <4>2, <4>3, <1>1, <1>4 DEF TextOf
      <4>5. 1 \in 1 .. r /\ 0 + 1 = 1
        BY <4>4, <2>3
      <4>6. raw[1] = rest[1]
        BY <4>4, <4>5
      <4>7. rest # << >>
        BY <4>3, <4>5
      <4> QED BY <4>1, <4>6, <4>7 DEF LF, CR
    <3>2. CASE N # 0
      <4>1. 1 \in 1 .. N /\ 1 - 1 = 0
        BY <3>2, <1>2
      <4>2. PICK item \in SentLine : item = sent.lines[1]
        <5>1. sent.lines \in Seq(SentLine)
          BY DEF WellSent
        <5> QED BY <5>1, <4>1, <1>2, ElementOfSeq
      <4>3. PICK C : C = SentContent(item)
        OBVIOUS
      <4>4. /\ Len(C) \in Nat \ {0} /\ Len(item.name) \in Nat
            /\ \A n \in 1 .. Len(item.name) : C[n] = item.name[n]
            /\ ~ item.colon => Len(C) = Len(item.name)
            /\ item.colon => \E pad : MadeOf(C, item.name, pad, item.value)
        BY <4>3, LineIs
      <4>5. \A n \in 1 .. Len(C) : raw[0 + n] = C[n]
        <5>1. \A n \in 1 .. Len(SentContent(sent.lines[1])) :
                raw[Len(T[1 - 1]) + n] = SentContent(sent.lines[1])[n]
          BY <4>1, <1>1 DEF TextOf
        <5>2. Len(T[1 - 1]) = 0
          BY <4>1, <2>2, <1>2, <1>3, <1>4
        <5> QED BY <5>1, <5>2, <4>2, <4>3
      <4>6. raw[1] = C[1]
        <5>1. 1 \in 1 .. Len(C) /\ 0 + 1 = 1
          BY <4>4
        <5> QED BY <5>1, <4>5
      <4>7. sent.lines # << >>
        BY <3>2, <1>2
      <4>8. PICK name \in Seq(Words) : name = item.name
        BY <4>3, LineIs
      <4>9. CASE name = << >>
        <5>1. Len(name) = 0
          BY <4>9
        <5>2. item.colon
          BY <5>1, <4>4, <4>8
        <5>3. C[Len(name) + 1] = Colon
          BY <5>2, <4>4, <4>8 DEF MadeOf
        <5>4. C[1] = Colon
          BY <5>1, <5>3
        <5> QED BY <5>4, <4>6 DEF Colon
      <4>10. CASE name # << >>
        <5>1. 1 \in 1 .. Len(name)
          <6>1. Len(name) \in Nat \ {0}
            BY <4>10
          <6> QED BY <6>1
        <5>2. C[1] = name[1]
          BY <5>1, <4>4, <4>8
        <5> QED BY <5>2, <4>2, <4>6, <4>7, <4>8, <4>10, <2>1
      <4> QED BY <4>9, <4>10
    <3> QED BY <3>1, <3>2
  <2>4. ~ HasStatus
    <3>1. 0 + 1 = 1
      OBVIOUS
    <3> QED BY <3>1, <2>3, <1>4 DEF HasStatus, SymbolAt
  <2> QED BY <2>2, <2>4, <1>2, <1>3, <1>4
<1>6. CASE s # << >>
  <2>1. /\ l > 1 /\ s[1] = "HTTP" /\ \A n \in 1 .. l - 1 : s[n] # LF
        /\ s[l] = LF \/ (sent.lines = << >> /\ sent.rest = << >>)
    BY <1>3, <1>4, <1>6 DEF WellSent
  <2>2. HasStatus
    <3>1. 1 \in 1 .. l /\ L > 1 /\ 0 + 1 = 1
      BY <2>1, <1>4
    <3> QED BY <3>1, <2>1, <1>4 DEF HasStatus, SymbolAt
  <2> DEFINE S == {m \in 0 .. Len(raw) : m = Len(raw) \/ SymbolAt(m) = LF}
  <2>3. S \in SUBSET Nat
    OBVIOUS
  <2>4. ASSUME NEW m \in S PROVE m >= l - 1 /\ (m = l - 1 => m = L \/ s[l] = LF)
    <3>1. m \in 0 .. L /\ (m = L \/ raw[m + 1] = LF)
      BY <1>4 DEF SymbolAt
    <3>2. m + 1 \in 1 .. l - 1 => raw[m + 1] # LF
      <4>1. m + 1 \in 1 .. l - 1 => m + 1 \in 1 .. l
        OBVIOUS
      <4> QED BY <4>1, <2>1, <1>4
    <3>3. m >= l - 1
      BY <3>1, <3>2, <2>1, <1>4
    <3>4. ASSUME m = l - 1, m # L PROVE s[l] = LF
      <4>1. m + 1 = l /\ l \in 1 .. l
        BY <3>4, <2>1
      <4> QED BY <4>1, <3>1, <3>4, <1>4
    <3> QED BY <3>3, <3>4
  <2>5. CASE s[l] = LF
    <3>1. PICK e \in Nat : e = l - 1
      BY <2>1
    <3>2. e \in S
      <4>1. e \in 0 .. L /\ e + 1 = l /\ l \in 1 .. l
        BY <3>1, <2>1, <1>4
      <4>2. raw[e + 1] = LF
        BY <4>1, <2>5, <1>4
      <4> QED BY <4>1, <4>2, <1>4 DEF SymbolAt
    <3>3. Min(S) = e
      <4> HIDE DEF S
      <4> QED BY <3>1, <3>2, <2>3, <2>4, MinIs
    <3>4. LineEnd(0) = e
      BY <3>3 DEF LineEnd
    <3>5. NextLine(0) = e + 1
      <4>1. e < L
        BY <3>1, <2>1, <1>4
      <4> QED BY <4>1, <3>4, <1>4 DEF NextLine
    <3>6. e + 1 = l
      BY <3>1
    <3> QED BY <3>5, <3>6, <2>2, <1>2, <1>3, <1>4
  <2>6. CASE s[l] # LF
    <3>1. N = 0 /\ sent.rest = << >>
      BY <2>1, <2>6, <1>2
    <3>2. L = l
      <4>1. Len(sent.rest) = 0 /\ Len(T[N]) = l
        BY <3>1, <1>2, <1>3, <1>4
      <4>2. L = l + 0
        BY <4>1, <1>1, <1>4 DEF TextOf
      <4> QED BY <4>2
    <3>3. L \in S
      BY <1>4
    <3>4. Min(S) = L
      <4>1. ASSUME NEW m \in S PROVE L <= m
        BY <3>2, <2>4, <2>6
      <4> HIDE DEF S
      <4> QED BY <3>3, <4>1, <2>3, MinIs
    <3>5. NextLine(0) = L
      <4>1. LineEnd(0) = L
        BY <3>4 DEF LineEnd
      <4> QED BY <4>1, <1>4 DEF NextLine
    <3> QED BY <3>2, <3>5, <2>2, <1>2, <1>3, <1>4
  <2> QED BY <2>5, <2>6
<1> QED BY <1>5, <1>6
\* Some of the lines are read: the text from there on is looked at, and the
\* headers among them are added.
LinesRead(sent, k) ==
  /\ pos = Len(TextTo(sent)[k])
  /\ added = HeadersTo(sent)[k]

HeadInv ==
  /\ head.sent \in Heads /\ raw = SentText(head.sent) /\ ended \in BOOLEAN
  /\ \E k \in 0 .. Len(head.sent.lines) :
       LinesRead(head.sent, k) /\ (ended => k = Len(head.sent.lines))

LEMMA HeadBegins == HeadInit => HeadInv
<1> SUFFICES ASSUME HeadInit PROVE HeadInv
  OBVIOUS
<1>1. PICK sent \in Heads : head = [sent |-> sent, raw |-> SentText(sent)]
  BY DEF HeadInit
<1>2. head.sent = sent /\ raw = SentText(sent) /\ WellSent(sent)
  <2>1. WellSent(sent)
    BY HeadAssumption
  <2>2. head.sent = sent /\ head.raw = SentText(sent)
    BY <1>1
  <2> QED BY <2>1, <2>2 DEF raw
<1>3. pos = Len(TextTo(sent)[0])
  BY <1>2, StatusRead DEF HeadInit
<1>4. added = HeadersTo(sent)[0]
  BY <1>2, HeadersAre DEF HeadInit
<1>5. 0 \in 0 .. Len(sent.lines)
  BY <1>2 DEF WellSent
<1>6. ended = FALSE
  BY DEF HeadInit
<1> QED BY <1>2, <1>3, <1>4, <1>5, <1>6 DEF HeadInv, LinesRead

LEMMA TextSizes ==
  ASSUME NEW sent, NEW N, NEW T, NEW R, TextOf(sent, N, T, R), NEW k \in 0 .. N
  PROVE  Len(R) \in Nat /\ Len(T[k]) \in Nat
<1>1. R \in Seq(Symbols) /\ Len(T[k]) \in Nat
  BY DEF TextOf
<1> QED BY <1>1

\* A line with something in it is the next line that was sent.
LEMMA HeadStays ==
  ASSUME HeadInv, HeadNext
  PROVE  HeadInv'
<1> DEFINE sent == head.sent
           N == Len(sent.lines)
<1>1. PICK k \in 0 .. N : LinesRead(sent, k) /\ (ended => k = N)
  BY DEF HeadInv
<1>2. WellSent(sent) /\ raw = SentText(sent) /\ N \in Nat /\ sent \in Heads
  <2>1. head.sent \in Heads /\ raw = SentText(head.sent)
    BY DEF HeadInv
  <2>2. WellSent(sent)
    BY <2>1, HeadAssumption
  <2>3. sent.lines \in Seq(SentLine)
    BY <2>2 DEF WellSent
  <2> QED BY <2>1, <2>2, <2>3
<1>3. head' = head
  BY DEF HeadNext, HeaderLine, HeadEnds
<1>4. CASE HeaderLine
  <2>1. k # N
    <3>1. CASE k = N
      <4>1. pos = Len(TextTo(sent)[N])
        BY <3>1, <1>1 DEF LinesRead
      <4>2. pos >= Len(raw) \/ ContentEnd(pos) = pos
        BY <4>1, <1>2, RestRead
      <4>3. pos < Len(raw) /\ ContentEnd(pos) > pos
        BY <1>4 DEF HeaderLine
      <4>4. Len(raw) \in Nat /\ pos \in Nat
        <5> HIDE DEF sent, N
        <5>1. TextOf(sent, N, TextTo(sent), raw)
          BY <1>2, Beginnings DEF N
        <5> QED BY <5>1, <4>1, <1>2, TextSizes
      <4>5. ContentEnd(pos) # pos
        BY <4>3, <4>4
      <4> QED BY <4>2, <4>3, <4>4, <4>5
    <3> QED BY <3>1
  <2>2. PICK h \in 1 .. N : h = k + 1 /\ h - 1 = k
    BY <2>1, <1>2
  <2>3. /\ NextLine(pos) = Len(TextTo(sent)[h])
        /\ Colons(pos) = {} <=> ~ sent.lines[h].colon
        /\ sent.lines[h].colon => HeaderAt(pos) = <<sent.lines[h].name, sent.lines[h].value>>
    <3>1. pos = Len(TextTo(sent)[h - 1])
      BY <2>2, <1>1 DEF LinesRead
    <3>2. WellSent(sent) /\ raw = SentText(sent) /\ N = Len(sent.lines) /\ h \in 1 .. N
      BY <1>2
    <3> HIDE DEF sent, N
    <3> QED BY ONLY <3>1, <3>2, LineRead
  <2>4. HeadersTo(sent)[h] = IF sent.lines[h].colon
                            THEN Append(HeadersTo(sent)[h - 1], <<sent.lines[h].name, sent.lines[h].value>>)
                            ELSE HeadersTo(sent)[h - 1]
    <3>1. WellSent(sent) /\ h \in 1 .. N
      BY <1>2
    <3>2. \A z \in 1 .. N : HeadersTo(sent)[z] =
            IF sent.lines[z].colon
            THEN Append(HeadersTo(sent)[z - 1], <<sent.lines[z].name, sent.lines[z].value>>)
            ELSE HeadersTo(sent)[z - 1]
      <4> HIDE DEF sent
      <4> QED BY ONLY <3>1, HeadersAre DEF N
    <3> HIDE DEF sent, N
    <3> QED BY ONLY <3>1, <3>2
  <2>5. added = HeadersTo(sent)[h - 1]
    BY <2>2, <1>1 DEF LinesRead
  <2>6. added' = HeadersTo(sent)[h]
    BY <2>3, <2>4, <2>5, <1>4 DEF HeaderLine
  <2>7. pos' = Len(TextTo(sent)[h]) /\ ended' = FALSE
    BY <2>3, <1>4 DEF HeaderLine, HeadInv
  <2>8. h \in 0 .. N
    BY <2>2, <1>2
  <2>9. LinesRead(sent, h)'
    BY <2>6, <2>7, <1>3 DEF LinesRead
  <2> QED BY <2>7, <2>8, <2>9, <1>2, <1>3 DEF HeadInv, raw
<1>5. CASE HeadEnds
  <2>1. k = N
    <3>1. CASE k # N
      <4>1. PICK h \in 1 .. N : h = k + 1 /\ h - 1 = k
        BY <3>1, <1>2
      <4>2. pos = Len(TextTo(sent)[h - 1])
        BY <4>1, <1>1 DEF LinesRead
      <4>3. pos < Len(raw) /\ ContentEnd(pos) > pos
        BY <4>2, <1>2, LineRead
      <4>4. pos >= Len(raw) \/ ContentEnd(pos) = pos
        BY <1>5 DEF HeadEnds
      <4>5. Len(raw) \in Nat /\ pos \in Nat
        <5> HIDE DEF sent, N
        <5>1. TextOf(sent, N, TextTo(sent), raw)
          BY <1>2, Beginnings DEF N
        <5>2. h - 1 \in 0 .. N
          BY <4>1, <1>2
        <5> QED BY <5>1, <5>2, <4>2, TextSizes
      <4>6. ContentEnd(pos) # pos
        BY <4>3, <4>5
      <4> QED BY <4>3, <4>4, <4>5, <4>6
    <3> QED BY <3>1
  <2>2. pos' = pos /\ added' = added /\ ended' = TRUE
    BY <1>5 DEF HeadEnds
  <2>3. LinesRead(sent, k)'
    BY <2>2, <1>1, <1>3 DEF LinesRead
  <2> QED BY <2>1, <2>2, <2>3, <1>2, <1>3 DEF HeadInv, raw
<1> QED BY <1>4, <1>5 DEF HeadNext

\* The headers found are those that were sent, for heads of any length: every
\* one of them, in their order, with their whole names and values
\* (parse_raw_response_headers of network.h).
THEOREM HeadersFoundAlways == HeadSpec => []HeadersFound
<1>1. HeadInit => HeadInv
  BY HeadBegins
<1>2. HeadInv /\ [HeadNext]_headVars => HeadInv'
  <2> SUFFICES ASSUME HeadInv, [HeadNext]_headVars PROVE HeadInv'
    OBVIOUS
  <2>1. CASE HeadNext
    BY <2>1, HeadStays
  <2>2. CASE UNCHANGED headVars
    BY <2>2 DEF HeadInv, LinesRead, headVars, raw
  <2> QED BY <2>1, <2>2
<1>3. HeadInv => HeadersFound
  BY DEF HeadInv, HeadersFound, LinesRead
<1> QED BY <1>1, <1>2, <1>3, PTL DEF HeadSpec

----------------------------------------------------------------------------
(* Commands (cdp.h).                                                       *)

\* A text that stands at a place of what came.
Stands(t, p) ==
  /\ t \in Seq(Signs) /\ p \in Nat /\ p + Len(t) <= Len(json)
  /\ \A z \in 1 .. Len(t) : json[p + z] = t[z]

LEMMA WholeStands ==
  ASSUME json \in Seq(Signs)
  PROVE  Stands(json, 0)
<1>1. Len(json) \in Nat
  BY LenProperties
<1>2. PICK L \in Nat : L = Len(json)
  BY <1>1
<1>3. 0 \in Nat /\ 0 + L <= L /\ \A z \in 1 .. L : 0 + z = z
  BY ONLY L \in Nat
<1>4. \A z \in 1 .. L : json[0 + z] = json[z]
  BY ONLY <1>3
<1> QED BY <1>2, <1>3, <1>4 DEF Stands

LEMMA StandsBoth ==
  ASSUME NEW s \in Seq(Signs), NEW t \in Seq(Signs), NEW u, u = s \o t, NEW p, Stands(u, p),
         Len(json) \in Nat
  PROVE  Stands(s, p) /\ Stands(t, p + Len(s)) /\ Len(u) = Len(s) + Len(t)
<1>1. /\ Len(u) = Len(s) + Len(t) /\ Len(s) \in Nat /\ Len(t) \in Nat
      /\ \A n \in 1 .. Len(s) : u[n] = s[n]
      /\ \A n \in 1 .. Len(t) : u[Len(s) + n] = t[n]
  BY Joined
<1>2. PICK N \in Nat : N = Len(json)
  OBVIOUS
<1>3. p \in Nat /\ p + Len(u) <= N /\ \A z \in 1 .. Len(u) : json[p + z] = u[z]
  BY <1>2 DEF Stands
<1>4. ASSUME NEW z \in 1 .. Len(t) PROVE json[p + Len(s) + z] = t[z]
  <2>1. Len(s) + z \in 1 .. Len(u) /\ p + (Len(s) + z) = p + Len(s) + z
    BY <1>1, <1>3
  <2> QED BY <2>1, <1>1, <1>3
<1>5. \A z \in 1 .. Len(s) : json[p + z] = s[z]
  BY <1>1, <1>3
<1>7. Stands(s, p)
  <2>1. p + Len(s) <= N
    BY <1>1, <1>3
  <2> QED BY <2>1, <1>2, <1>3, <1>5 DEF Stands
<1>8. Stands(t, p + Len(s))
  <2>1. p + Len(s) \in Nat /\ p + Len(s) + Len(t) <= N
    BY <1>1, <1>3
  <2> QED BY <2>1, <1>2, <1>4 DEF Stands
<1> QED BY <1>1, <1>7, <1>8

LEMMA StandsQuoted ==
  ASSUME NEW t \in Seq(Signs), NEW p, Stands(Quotation(t), p), Len(json) \in Nat
  PROVE  /\ Len(Quotation(t)) = Len(t) + 2 /\ Stands(t, p + 1)
         /\ json[p + 1] = Quote /\ json[p + 2 + Len(t)] = Quote
         /\ p \in Nat /\ p + 2 + Len(t) <= Len(json)
<1>1. Quote \in Signs
  BY CommandAssumption
<1>2. <<Quote>> \in Seq(Signs) /\ Len(<<Quote>>) = 1 /\ <<Quote>>[1] = Quote
  BY <1>1
<1> DEFINE u == <<Quote>> \o t
<1>3. u \in Seq(Signs) /\ Len(u) = 1 + Len(t) /\ Len(t) \in Nat
  BY <1>1, MarkFirst
<1>4. Quotation(t) = u \o <<Quote>>
  BY DEF Quotation
<1>5. Stands(u, p) /\ Stands(<<Quote>>, p + Len(u)) /\ Len(Quotation(t)) = Len(u) + 1
  <2> HIDE DEF u
  <2> QED BY <1>2, <1>3, <1>4, StandsBoth
<1>6. Stands(<<Quote>>, p) /\ Stands(t, p + 1)
  BY <1>2, <1>5, StandsBoth
<1>7. p \in Nat
  BY <1>6 DEF Stands
<1>8. ASSUME NEW q, Stands(<<Quote>>, q) PROVE json[q + 1] = Quote /\ q + 1 <= Len(json)
  <2>1. 1 \in 1 .. Len(<<Quote>>)
    BY <1>2
  <2> QED BY <2>1, <1>2, <1>8 DEF Stands
<1>9. json[p + 1] = Quote
  BY <1>6, <1>8
<1>10. json[p + Len(u) + 1] = Quote /\ p + Len(u) + 1 <= Len(json) /\ p + Len(u) + 1 = p + 2 + Len(t)
  <2> HIDE DEF u
  <2> QED BY <1>3, <1>5, <1>7, <1>8
<1>11. Len(Quotation(t)) = Len(t) + 2
  <2> HIDE DEF u
  <2> QED BY <1>3, <1>5
<1> QED BY <1>6, <1>7, <1>9, <1>10, <1>11

\* What parse's scans find: the first symbol that is in the set, or is not.
LEMMA UpIs ==
  ASSUME Len(json) \in Nat, NEW n \in Nat, NEW v \in n .. Len(json), NEW set,
         \A m \in n .. v - 1 : json[m + 1] \notin set,
         v = Len(json) \/ json[v + 1] \in set
  PROVE  Up(n, set) = v
<1> DEFINE S == {m \in n .. End : m = End \/ Symbol(m) \in set}
<1>1. End = Len(json)
  BY DEF End
<1>2. CASE n >= Len(json)
  BY <1>1, <1>2 DEF Up
<1>3. CASE n < Len(json)
  <2>1. v \in S /\ S \in SUBSET Nat
    BY <1>1 DEF Symbol
  <2>2. ASSUME NEW m \in S PROVE v <= m
    <3>1. m \in n .. Len(json) /\ (m = Len(json) \/ json[m + 1] \in set)
      BY <1>1 DEF Symbol
    <3>2. m \notin n .. v - 1
      BY <3>1
    <3> QED BY <3>1, <3>2
  <2>3. Min(S) = v
    <3> HIDE DEF S
    <3> QED BY <2>1, <2>2, MinIs
  <2> QED BY <2>3, <1>1, <1>3 DEF Up
<1> QED BY <1>2, <1>3

LEMMA OverIs ==
  ASSUME Len(json) \in Nat, NEW n \in Nat, NEW v \in n .. Len(json), NEW set,
         \A m \in n .. v - 1 : json[m + 1] \in set,
         v = Len(json) \/ json[v + 1] \notin set
  PROVE  Over(n, set) = v
<1> DEFINE S == {m \in n .. End : m = End \/ Symbol(m) \notin set}
<1>1. End = Len(json)
  BY DEF End
<1>2. CASE n >= Len(json)
  BY <1>1, <1>2 DEF Over
<1>3. CASE n < Len(json)
  <2>1. v \in S /\ S \in SUBSET Nat
    BY <1>1 DEF Symbol
  <2>2. ASSUME NEW m \in S PROVE v <= m
    <3>1. m \in n .. Len(json) /\ (m = Len(json) \/ json[m + 1] \notin set)
      BY <1>1 DEF Symbol
    <3>2. m \notin n .. v - 1
      BY <3>1
    <3> QED BY <3>1, <3>2
  <2>3. Min(S) = v
    <3> HIDE DEF S
    <3> QED BY <2>1, <2>2, MinIs
  <2> QED BY <2>3, <1>1, <1>3 DEF Over
<1> QED BY <1>2, <1>3

\* The same over a text that stands there.
LEMMA OverText ==
  ASSUME Len(json) \in Nat, NEW t, NEW n, Stands(t, n), NEW set, NEW k \in 0 .. Len(t),
         \A z \in k + 1 .. Len(t) : t[z] \in set,
         n + Len(t) = Len(json) \/ json[n + Len(t) + 1] \notin set
  PROVE  Over(n + k, set) = n + Len(t)
<1>1. t \in Seq(Signs) /\ n \in Nat /\ n + Len(t) <= Len(json) /\ Len(t) \in Nat
      /\ \A z \in 1 .. Len(t) : json[n + z] = t[z]
  BY DEF Stands
<1>2. ASSUME NEW m \in n + k .. n + Len(t) - 1 PROVE json[m + 1] \in set
  <2>1. m + 1 - n \in k + 1 .. Len(t) /\ m + 1 - n \in 1 .. Len(t) /\ n + (m + 1 - n) = m + 1
    BY <1>1
  <2> QED BY <2>1, <1>1
<1>3. PICK a, b : a = n + k /\ b = n + Len(t)
  OBVIOUS
<1>4. a \in Nat /\ b \in a .. Len(json)
  BY <1>1, <1>3
<1>5. ASSUME NEW m \in a .. b - 1 PROVE json[m + 1] \in set
  <2>1. m \in n + k .. n + Len(t) - 1
    BY <1>1, <1>3
  <2> QED BY <2>1, <1>2
<1>6. Over(a, set) = b
  BY <1>3, <1>4, <1>5, OverIs
<1> QED BY <1>3, <1>6

LEMMA UpText ==
  ASSUME Len(json) \in Nat, NEW t, NEW n, Stands(t, n), NEW set,
         \A z \in 1 .. Len(t) : t[z] \notin set,
         n + Len(t) = Len(json) \/ json[n + Len(t) + 1] \in set
  PROVE  Up(n, set) = n + Len(t)
<1>1. t \in Seq(Signs) /\ n \in Nat /\ n + Len(t) <= Len(json) /\ Len(t) \in Nat
      /\ \A z \in 1 .. Len(t) : json[n + z] = t[z]
  BY DEF Stands
<1>2. ASSUME NEW m \in n .. n + Len(t) - 1 PROVE json[m + 1] \notin set
  <2>1. m + 1 - n \in 1 .. Len(t) /\ n + (m + 1 - n) = m + 1
    BY <1>1
  <2> QED BY <2>1, <1>1
<1>3. n + Len(t) \in n .. Len(json)
  BY <1>1
<1> QED BY <1>1, <1>2, <1>3, UpIs

LEMMA TextStands ==
  ASSUME json \in Seq(Signs), NEW t, NEW n, Stands(t, n), NEW to, to = n + Len(t)
  PROVE  Text(n, to) = t
<1>1. t \in Seq(Signs) /\ n \in Nat /\ n + Len(t) <= Len(json)
      /\ \A z \in 1 .. Len(t) : json[n + z] = t[z]
  BY DEF Stands
<1>2. SubSeq(json, n + 1, n + Len(t)) = t
  BY <1>1, PieceIs
<1> QED BY <1>2 DEF Text

LEMMA SeqWider ==
  ASSUME NEW T, NEW S \in SUBSET T, NEW s \in Seq(S)
  PROVE  s \in Seq(T) /\ Len(s) \in Nat /\ \A z \in 1 .. Len(s) : s[z] \in S
<1>1. Len(s) \in Nat /\ \A z \in 1 .. Len(s) : s[z] \in S
  BY ElementOfSeq
<1> QED BY <1>1

LEMMA FourTexts ==
  ASSUME NEW g \in Seq(Signs), NEW k \in Seq(Signs), NEW c \in Seq(Signs), NEW x \in Seq(Signs),
         NEW u, u = g \o k \o c \o x
  PROVE  /\ u \in Seq(Signs) /\ Len(u) = Len(g) + Len(k) + Len(c) + Len(x)
         /\ Len(json) \in Nat =>
              \A p : Stands(u, p) =>
                /\ Stands(g, p) /\ Stands(k, p + Len(g))
                /\ Stands(c, p + Len(g) + Len(k)) /\ Stands(x, p + Len(g) + Len(k) + Len(c))
<1>1. PICK gk, gkc : gk = g \o k /\ gkc = gk \o c /\ u = gkc \o x
  OBVIOUS
<1>2. gk \in Seq(Signs) /\ Len(gk) = Len(g) + Len(k) /\ Len(g) \in Nat /\ Len(k) \in Nat
  BY ONLY <1>1, g \in Seq(Signs), k \in Seq(Signs), Joined
<1>3. gkc \in Seq(Signs) /\ Len(gkc) = Len(gk) + Len(c) /\ Len(c) \in Nat
  <2>1. gk \in Seq(Signs)
    BY <1>2
  <2> QED BY ONLY <1>1, <2>1, c \in Seq(Signs), Joined
<1>4. u \in Seq(Signs) /\ Len(u) = Len(gkc) + Len(x) /\ Len(x) \in Nat
  <2>1. gkc \in Seq(Signs)
    BY <1>3
  <2> QED BY ONLY <1>1, <2>1, x \in Seq(Signs), Joined
<1>5. ASSUME Len(json) \in Nat, NEW p, Stands(u, p)
      PROVE  /\ Stands(g, p) /\ Stands(k, p + Len(g))
             /\ Stands(c, p + Len(g) + Len(k)) /\ Stands(x, p + Len(g) + Len(k) + Len(c))
  <2>1. Stands(gkc, p) /\ Stands(x, p + Len(gkc))
    BY <1>1, <1>3, <1>5, StandsBoth
  <2>2. Stands(gk, p) /\ Stands(c, p + Len(gk))
    BY <1>1, <1>2, <1>5, <2>1, StandsBoth
  <2>3. Stands(g, p) /\ Stands(k, p + Len(g))
    BY <1>1, <1>5, <2>2, StandsBoth
  <2>4. p \in Nat
    BY <1>5 DEF Stands
  <2>5. p + Len(gk) = p + Len(g) + Len(k) /\ p + Len(gkc) = p + Len(g) + Len(k) + Len(c)
    BY <1>2, <1>3, <2>4
  <2> QED BY <2>1, <2>2, <2>3, <2>5
<1> QED BY <1>2, <1>3, <1>4, <1>5

\* What a member that is sent is made of.
ValueText(m) == IF m.quoted THEN Quotation(m.value) ELSE m.value

MemberParts(m) ==
  /\ m.gap \in Seq({" ", ","}) /\ m.key \in Seq(Signs \ {Quote}) /\ m.colon \in Seq({" ", ":"})
  /\ m.gap \in Seq(Signs) /\ m.key \in Seq(Signs) /\ m.colon \in Seq(Signs) /\ m.value \in Seq(Signs)
  /\ m.quoted \in BOOLEAN

LEMMA MemberIs ==
  ASSUME NEW m \in SentMember
  PROVE  /\ MemberParts(m)
         /\ \/ /\ m.quoted
               /\ m.key \notin {<<"id">>, <<"params">>} /\ m.value \in Seq(Signs \ {Quote})
            \/ /\ ~ m.quoted /\ m.key # <<"method">> /\ m.value # << >>
               /\ m.key = <<"id">> => m.value \in Seq(DOMAIN DigitValue)
               /\ m.key = <<"params">> => Braced(m.value)
               /\ m.key \notin {<<"id">>, <<"params">>} =>
                    m.value \in Seq(Signs \ {",", "}"}) /\ m.value[1] \notin {" ", ":", Quote}
<1>1. PICK gap \in Seq({" ", ","}), key \in Seq(Signs \ {Quote}), colon \in Seq({" ", ":"}),
           quoted \in BOOLEAN, value \in Seq(Signs) :
        gap = m.gap /\ key = m.key /\ colon = m.colon /\ quoted = m.quoted /\ value = m.value
  BY DEF SentMember
<1>2. {" ", ","} \subseteq Signs /\ {" ", ":"} \subseteq Signs /\ Signs \ {Quote} \subseteq Signs
  BY CommandAssumption
<1>3. gap \in Seq(Signs) /\ key \in Seq(Signs) /\ colon \in Seq(Signs)
  BY <1>2, SeqWider
<1>4. MemberParts(m)
  BY <1>1, <1>3 DEF MemberParts
<1> QED BY <1>4 DEF SentMember

LEMMA QuotationIs ==
  ASSUME NEW t \in Seq(Signs)
  PROVE  /\ Quotation(t) \in Seq(Signs) /\ Len(Quotation(t)) = Len(t) + 2 /\ Len(t) \in Nat
         /\ Quotation(t)[1] = Quote
<1>1. Quote \in Signs
  BY CommandAssumption
<1> DEFINE u == <<Quote>> \o t
<1>2. u \in Seq(Signs) /\ Len(u) = 1 + Len(t) /\ Len(t) \in Nat /\ u[1] = Quote
  BY <1>1, MarkFirst
<1>3. Quotation(t) = u \o <<Quote>> /\ <<Quote>> \in Seq(Signs) /\ Len(<<Quote>>) = 1
  BY <1>1 DEF Quotation
<1>4. /\ Quotation(t) \in Seq(Signs) /\ Len(Quotation(t)) = Len(u) + 1
      /\ \A n \in 1 .. Len(u) : Quotation(t)[n] = u[n]
  <2> HIDE DEF u
  <2> QED BY <1>2, <1>3, Joined
<1>5. 1 \in 1 .. Len(u)
  BY <1>2
<1> QED BY <1>2, <1>4, <1>5

LEMMA MemberTextIs ==
  ASSUME NEW m \in SentMember
  PROVE  /\ MemberText(m) \in Seq(Signs) /\ ValueText(m) \in Seq(Signs)
         /\ Len(MemberText(m)) =
              Len(m.gap) + Len(m.key) + 2 + Len(m.colon) + Len(ValueText(m))
         /\ Len(ValueText(m)) \in Nat \ {0}
<1>1. MemberParts(m) /\ (~ m.quoted => m.value # << >>)
  BY MemberIs
<1>2. PICK g, k, c, v : g = m.gap /\ k = Quotation(m.key) /\ c = m.colon /\ v = ValueText(m)
  OBVIOUS
<1>3. g \in Seq(Signs) /\ c \in Seq(Signs) /\ m.value \in Seq(Signs) /\ m.key \in Seq(Signs)
  BY <1>1, <1>2 DEF MemberParts
<1>4. k \in Seq(Signs) /\ Len(k) = Len(m.key) + 2 /\ Len(m.key) \in Nat
  BY <1>2, <1>3, QuotationIs
<1>5. v \in Seq(Signs) /\ Len(v) \in Nat \ {0}
  <2>1. CASE m.quoted
    <3>1. v = Quotation(m.value)
      BY <2>1, <1>2 DEF ValueText
    <3>2. Quotation(m.value) \in Seq(Signs) /\ Len(Quotation(m.value)) = Len(m.value) + 2
          /\ Len(m.value) \in Nat
      BY <1>3, QuotationIs
    <3> QED BY <3>1, <3>2
  <2>2. CASE ~ m.quoted
    <3>1. v = m.value /\ m.value # << >>
      BY <2>2, <1>1, <1>2 DEF ValueText
    <3> QED BY <3>1, <1>3
  <2> QED BY <2>1, <2>2
<1>6. MemberText(m) = g \o k \o c \o v
  BY <1>2 DEF MemberText, ValueText
<1>7. MemberText(m) \in Seq(Signs) /\ Len(MemberText(m)) = Len(g) + Len(k) + Len(c) + Len(v)
  <2>1. g \in Seq(Signs) /\ k \in Seq(Signs) /\ c \in Seq(Signs) /\ v \in Seq(Signs)
    BY <1>3, <1>4, <1>5
  <2> QED BY ONLY <2>1, <1>6, FourTexts
<1>8. Len(g) \in Nat /\ Len(c) \in Nat
  BY <1>3
<1>9. Len(MemberText(m)) = Len(g) + Len(m.key) + 2 + Len(c) + Len(v)
  BY <1>4, <1>5, <1>7, <1>8
<1> QED BY <1>2, <1>5, <1>7, <1>9

\* Where its parts stand.
MemberAt(m, p, q, v) ==
  /\ p \in Nat /\ q \in Nat /\ v \in Nat
  /\ q = p + Len(m.gap) /\ v = q + 2 + Len(m.key) + Len(m.colon)
  /\ v + Len(ValueText(m)) <= Len(json)
  /\ Stands(m.gap, p) /\ json[q + 1] = Quote
  /\ Stands(m.key, q + 1) /\ json[q + 2 + Len(m.key)] = Quote
  /\ Stands(m.colon, q + 2 + Len(m.key)) /\ Stands(ValueText(m), v)

LEMMA MemberStands ==
  ASSUME Len(json) \in Nat, NEW m \in SentMember, NEW p, Stands(MemberText(m), p),
         NEW q, q = p + Len(m.gap), NEW v, v = q + 2 + Len(m.key) + Len(m.colon)
  PROVE  MemberAt(m, p, q, v)
<1>1. MemberParts(m)
  BY MemberIs
<1>2. PICK g, k, c, x : g = m.gap /\ k = Quotation(m.key) /\ c = m.colon /\ x = ValueText(m)
  OBVIOUS
<1>3. /\ g \in Seq(Signs) /\ c \in Seq(Signs) /\ m.key \in Seq(Signs) /\ x \in Seq(Signs)
      /\ k \in Seq(Signs) /\ Len(k) = Len(m.key) + 2
      /\ Len(m.key) \in Nat /\ Len(g) \in Nat /\ Len(c) \in Nat /\ Len(x) \in Nat
  BY <1>1, <1>2, QuotationIs, MemberTextIs DEF MemberParts
<1>6. MemberText(m) = g \o k \o c \o x
  BY <1>2 DEF MemberText, ValueText
<1>10. /\ Stands(g, p) /\ Stands(k, p + Len(g))
       /\ Stands(c, p + Len(g) + Len(k)) /\ Stands(x, p + Len(g) + Len(k) + Len(c))
  BY <1>3, <1>6, FourTexts
<1>13. p \in Nat
  BY <1>10 DEF Stands
<1>14. p + Len(g) = q /\ p + Len(g) + Len(k) = q + 2 + Len(m.key)
       /\ p + Len(g) + Len(k) + Len(c) = v /\ q \in Nat /\ v \in Nat
  <2>1. PICK a, b, d : a = Len(g) /\ b = Len(m.key) /\ d = Len(c)
    OBVIOUS
  <2>2. a \in Nat /\ b \in Nat /\ d \in Nat /\ Len(k) = b + 2
    BY <2>1, <1>3
  <2>3. q = p + a /\ v = q + 2 + b + d
    BY <2>1, <1>2
  <2>4. p + a + Len(k) = q + 2 + b /\ p + a + Len(k) + d = v
    BY ONLY <2>2, <2>3, <1>13
  <2>5. q \in Nat /\ v \in Nat
    BY ONLY <2>2, <2>3, <1>13
  <2> QED BY ONLY <2>1, <2>3, <2>4, <2>5
<1>15. Stands(m.key, q + 1) /\ json[q + 1] = Quote /\ json[q + 2 + Len(m.key)] = Quote
  BY <1>2, <1>3, <1>10, <1>14, StandsQuoted
<1>16. v + Len(x) <= Len(json)
  BY <1>10, <1>14 DEF Stands
<1> QED BY <1>2, <1>10, <1>13, <1>14, <1>15, <1>16 DEF MemberAt

\* How the value begins.
LEMMA ValueBegins ==
  ASSUME NEW m \in SentMember
  PROVE  /\ ValueText(m)[1] \notin {" ", ":"}
         /\ m.quoted => ValueText(m)[1] = Quote
         /\ ~ m.quoted /\ m.key # <<"id">> => ValueText(m)[1] # Quote
         /\ m.key = <<"params">> => ValueText(m)[1] = "{"
<1>1. MemberParts(m)
  BY MemberIs
<1>2. CASE m.quoted
  <2>1. m.key \notin {<<"id">>, <<"params">>} /\ m.value \in Seq(Signs)
    BY <1>1, <1>2, MemberIs DEF MemberParts
  <2>2. ValueText(m) = Quotation(m.value)
    BY <1>2 DEF ValueText
  <2>3. Quotation(m.value)[1] = Quote
    BY <2>1, QuotationIs
  <2> QED BY <2>1, <2>2, <2>3, <1>2 DEF Quote
<1>3. CASE ~ m.quoted
  <2>1. ValueText(m) = m.value /\ m.value # << >> /\ m.value \in Seq(Signs)
    BY <1>1, <1>3, MemberIs DEF ValueText, MemberParts
  <2>2. CASE m.key = <<"id">>
    <3>0. <<"id">> # <<"params">>
      OBVIOUS
    <3>1. m.value \in Seq(DOMAIN DigitValue) /\ m.key # <<"params">>
      BY <2>2, <3>0, <1>3, MemberIs
    <3>2. 1 \in 1 .. Len(m.value)
      BY <2>1
    <3>3. m.value[1] \in DOMAIN DigitValue
      BY <3>1, <3>2, ElementOfSeq
    <3> QED BY <2>1, <2>2, <1>3, <3>1, <3>3, CommandAssumption
  <2>3. CASE m.key = <<"params">>
    <3>1. m.value[1] = "{"
      BY <2>3, <1>3, MemberIs DEF Braced
    <3> QED BY <2>1, <3>1, <1>3 DEF Quote
  <2>4. CASE m.key \notin {<<"id">>, <<"params">>}
    BY <2>1, <2>4, <1>3, MemberIs
  <2> QED BY <2>2, <2>3, <2>4
<1> QED BY <1>1, <1>2, <1>3 DEF MemberParts

\* A member is read when the place is within the gap in front of it.
LEMMA MemberRead ==
  ASSUME json \in Seq(Signs), json # << >>, json[1] = "{", reply = << >>,
         NEW m \in SentMember, NEW p, NEW q, NEW v, MemberAt(m, p, q, v),
         NEW d \in 0 .. Len(m.gap), read = p + d
  PROVE  /\ Open = q /\ AtMember /\ Key = m.key /\ Value = v
         /\ \A s : Has(v, s) <=> ValueText(m)[1] = s
<1>1. /\ MemberParts(m) /\ m.key \in Seq(Signs \ {Quote})
      /\ m.gap \in Seq({" ", ","}) /\ m.colon \in Seq({" ", ":"})
  BY MemberIs DEF MemberParts
<1>a. PICK N, a, b, c, x : N = Len(json) /\ a = Len(m.gap) /\ b = Len(m.key) /\ c = Len(m.colon)
                           /\ x = Len(ValueText(m))
  OBVIOUS
<1>2. N \in Nat /\ a \in Nat /\ b \in Nat /\ c \in Nat /\ x \in Nat \ {0} /\ N # 0
  <2>1. x \in Nat \ {0}
    BY <1>a, MemberTextIs
  <2>2. a \in Nat /\ b \in Nat /\ c \in Nat
    BY ONLY <1>a, <1>1, LenProperties
  <2>3. N \in Nat /\ N # 0
    BY ONLY <1>a, json \in Seq(Signs), json # << >>, EmptySeq, LenProperties
  <2> QED BY <2>1, <2>2, <2>3
<1>3. /\ p \in Nat /\ q \in Nat /\ v \in Nat
      /\ q = p + a /\ v = q + 2 + b + c /\ v + x <= N
      /\ Stands(m.gap, p) /\ json[q + 1] = Quote
      /\ Stands(m.key, q + 1) /\ json[q + 2 + b] = Quote
      /\ Stands(m.colon, q + 2 + b) /\ Stands(ValueText(m), v)
  BY <1>a DEF MemberAt
<1>b. /\ d \in 0 .. a /\ q < N /\ v < N /\ 1 \in 1 .. x /\ 0 < N
      /\ q + 1 + b + 1 = q + 2 + b /\ q + 2 + b \in Nat /\ q + 2 + b <= N
      /\ q + 1 + b \in Nat /\ q + 2 + b + 0 = q + 2 + b /\ 0 \in 0 .. c
  <2>1. d \in 0 .. a
    BY ONLY <1>a, d \in 0 .. Len(m.gap)
  <2>2. q < N /\ v < N /\ q + 2 + b <= N
    BY ONLY <1>2, <1>3
  <2> QED BY ONLY <2>1, <2>2, <1>2, <1>3
<1>c. End = N
  BY <1>a DEF End
<1>d. Len(json) \in Nat
  BY <1>2, <1>a
<1>4. Open = q
  <2>1. \A z \in d + 1 .. Len(m.gap) : m.gap[z] \in {" ", ","}
    <3>1. \A z \in 1 .. Len(m.gap) : m.gap[z] \in {" ", ","}
      BY <1>1, ElementOfSeq
    <3>2. \A z \in d + 1 .. a : z \in 1 .. a
      BY ONLY <1>2, <1>b
    <3> QED BY ONLY <3>1, <3>2, <1>a
  <2>2. json[p + Len(m.gap) + 1] \notin {" ", ","}
    BY <1>3, <1>a DEF Quote
  <2>3. Over(p + d, {" ", ","}) = p + Len(m.gap)
    BY ONLY <1>3, <1>d, <2>1, <2>2, OverText, d \in 0 .. Len(m.gap)
  <2>4. Open = Over(p + d, {" ", ","})
    BY DEF Open
  <2> QED BY ONLY <2>3, <2>4, <1>3, <1>a
<1>6. AtMember
  <2>1. Has(0, "{")
    <3>1. 0 + 1 = 1
      BY ONLY <1>2
    <3> QED BY <3>1, <1>b, <1>c DEF Has, Symbol
  <2>2. Symbol(q) = Quote
    BY <1>3 DEF Symbol
  <2> QED BY <1>4, <1>b, <1>c, <2>1, <2>2 DEF AtMember, Reading, Quote
<1>7. Up(q + 1, {Quote}) = q + 1 + b
  <2>1. \A z \in 1 .. Len(m.key) : m.key[z] \notin {Quote}
    <3>1. \A z \in 1 .. Len(m.key) : m.key[z] \in Signs \ {Quote}
      BY <1>1, ElementOfSeq
    <3> QED BY <3>1
  <2>2. json[q + 1 + Len(m.key) + 1] \in {Quote}
    BY <1>b, <1>3, <1>a
  <2>3. Up(q + 1, {Quote}) = q + 1 + Len(m.key)
    BY ONLY <1>3, <1>d, <2>1, <2>2, UpText
  <2> QED BY ONLY <2>3, <1>a
<1>8. Key = m.key
  <2>1. Text(q + 1, q + 1 + b) = m.key
    BY <1>3, <1>a, TextStands
  <2> QED BY <2>1, <1>4, <1>7 DEF Key
<1>9. Closed(q + 1) = q + 2 + b
  <2>1. PICK w : w = q + 2 + b
    OBVIOUS
  <2>2. w \in Nat /\ w <= N /\ q + 1 + b + 1 = w
    BY ONLY <2>1, <1>b
  <2>3. Min({w, N}) = w
    <3>1. {w, N} \in SUBSET Nat /\ w \in {w, N} /\ \A n \in {w, N} : w <= n
      BY ONLY <2>2, <1>2
    <3> QED BY ONLY <3>1, MinIs
  <2> QED BY <2>1, <2>2, <2>3, <1>7, <1>c DEF Closed
<1>e. json[v + 1] = ValueText(m)[1]
  BY <1>b, <1>3, <1>a DEF Stands
<1>10. Value = v
  <2>1. \A z \in 0 + 1 .. Len(m.colon) : m.colon[z] \in {" ", ":"}
    <3>1. \A z \in 1 .. Len(m.colon) : m.colon[z] \in {" ", ":"}
      BY <1>1, ElementOfSeq
    <3>2. 0 + 1 = 1
      BY ONLY <1>2
    <3> QED BY ONLY <3>1, <3>2
  <2>4. json[q + 2 + b + Len(m.colon) + 1] \notin {" ", ":"}
    BY <1>e, <1>3, <1>a, ValueBegins
  <2>6. Over(q + 2 + b + 0, {" ", ":"}) = q + 2 + b + Len(m.colon)
    <3>1. 0 \in 0 .. Len(m.colon)
      BY ONLY <1>b, <1>a
    <3> QED BY ONLY <3>1, <1>3, <1>d, <2>1, <2>4, OverText
  <2> QED BY <2>6, <1>3, <1>4, <1>9, <1>a, <1>b DEF Value
<1>11. \A s : Has(v, s) <=> ValueText(m)[1] = s
  BY <1>e, <1>b, <1>c DEF Has, Symbol
<1> QED BY <1>4, <1>6, <1>8, <1>10, <1>11

\* What comes behind a member: the gap in front of the next, or the end.
Following(g, e) ==
  /\ Stands(g, e) /\ g \in Seq({" ", ","})
  /\ \/ \E z \in 1 .. Len(g) : g[z] = ","
     \/ e + Len(g) = Len(json)
     \/ json[e + Len(g) + 1] = "}"

LEMMA NextSymbol ==
  ASSUME Len(json) \in Nat, NEW g, NEW e, Following(g, e)
  PROVE  e \in Nat /\ Len(g) \in Nat
         /\ (e = Len(json) \/ (e < Len(json) /\ json[e + 1] \in {" ", ",", "}"}))
<1>1. /\ e \in Nat /\ g \in Seq({" ", ","}) /\ e + Len(g) <= Len(json)
      /\ \A z \in 1 .. Len(g) : json[e + z] = g[z]
  BY DEF Following, Stands
<1>2. Len(g) \in Nat /\ \A z \in 1 .. Len(g) : g[z] \in {" ", ","}
  BY ONLY <1>1, ElementOfSeq, LenProperties
<1>a. PICK N \in Nat, a \in Nat : N = Len(json) /\ a = Len(g)
  BY <1>2
<1>b. e + a <= N /\ (\A z \in 1 .. a : json[e + z] = g[z] /\ g[z] \in {" ", ","})
  BY ONLY <1>1, <1>2, <1>a
<1>c. e \in Nat /\ a \in Nat /\ N \in Nat /\ e + a <= N
  BY ONLY <1>1, <1>b, a \in Nat, N \in Nat
<1>3. CASE a = 0
  <2>1. e = N \/ json[e + 1] = "}"
    <3>1. 1 .. a = {} /\ e + a = e
      BY ONLY <1>c, <1>3
    <3> QED BY <3>1, <1>a DEF Following
  <2>2. e = N \/ e < N
    BY ONLY <1>c, <1>3
  <2> QED BY ONLY <2>1, <2>2, <1>1, <1>2, <1>a
<1>4. CASE a # 0
  <2>1. 1 \in 1 .. a /\ e < N
    BY ONLY <1>c, <1>4
  <2>2. json[e + 1] \in {" ", ","}
    BY ONLY <2>1, <1>b
  <2> QED BY ONLY <2>1, <2>2, <1>1, <1>2, <1>a
<1> QED BY <1>3, <1>4

\* An id: the number its digits spell, in 32 bits.
Spells10(f, digits) ==
  /\ f[0] = 0
  /\ \A k \in 1 .. Len(digits) : f[k] = f[k - 1] * 10 + DigitValue[digits[k]]
  /\ \A k \in 0 .. Len(digits) : f[k] \in Nat
  /\ Spelt(digits) = f[Len(digits)]

LEMMA SpeltIs ==
  ASSUME NEW digits \in Seq(DOMAIN DigitValue)
  PROVE  \E f : Spells10(f, digits)
<1> DEFINE N == Len(digits)
           step == [a \in Nat \X Nat |->
                      IF a[1] \in 1 .. N THEN a[2] * 10 + DigitValue[digits[a[1]]] ELSE 0]
<1>1. N \in Nat /\ \A k \in 1 .. N : DigitValue[digits[k]] \in 0 .. 9
  <2>1. \A k \in 1 .. N : digits[k] \in DOMAIN DigitValue
    BY ElementOfSeq
  <2>2. N \in Nat
    BY LenProperties
  <2> HIDE DEF step, N
  <2> QED BY <2>1, <2>2, CommandAssumption
<1>2. step \in [Nat \X Nat -> Nat]
  <2>1. ASSUME NEW a \in Nat \X Nat
        PROVE  (IF a[1] \in 1 .. N THEN a[2] * 10 + DigitValue[digits[a[1]]] ELSE 0) \in Nat
    <3> HIDE DEF N
    <3>1. a[2] \in Nat
      OBVIOUS
    <3>2. CASE a[1] \in 1 .. N
      <4>1. DigitValue[digits[a[1]]] \in 0 .. 9
        BY ONLY <3>2, <1>1
      <4>2. a[2] * 10 + DigitValue[digits[a[1]]] \in Nat
        BY ONLY <4>1, <3>1
      <4> QED BY ONLY <4>2, <3>2
    <3>3. CASE a[1] \notin 1 .. N
      BY ONLY <3>3
    <3> QED BY ONLY <3>2, <3>3
  <2> HIDE DEF N
  <2> QED BY <2>1
<1>3. PICK f \in [0 .. N -> Nat] : Unrolls(f, N, 0, step)
  <2> HIDE DEF step, N
  <2> QED BY <1>1, <1>2, Unrolled
<1>4. f = [k \in 0 .. N |-> IF k = 0 THEN 0 ELSE f[k - 1] * 10 + DigitValue[digits[k]]]
  <2>1. ASSUME NEW k \in 0 .. N, k # 0
        PROVE  step[<<k, f[k - 1]>>] = f[k - 1] * 10 + DigitValue[digits[k]]
    <3>1. k \in 1 .. N /\ k - 1 \in 0 .. N /\ k \in Nat
      BY ONLY <2>1, <1>1
    <3>2. f[k - 1] \in Nat
      BY ONLY <3>1, <1>3
    <3>3. <<k, f[k - 1]>> \in Nat \X Nat
      BY ONLY <3>1, <3>2
    <3> QED BY <3>1, <3>3
  <2> HIDE DEF step, N
  <2>2. f = [k \in 0 .. N |-> IF k = 0 THEN 0 ELSE step[<<k, f[k - 1]>>]]
    BY <1>3 DEF Unrolls
  <2> QED BY ONLY <2>1, <2>2
<1> DEFINE g == CHOOSE g : g = [k \in 0 .. N |-> IF k = 0 THEN 0 ELSE g[k - 1] * 10 + DigitValue[digits[k]]]
<1>5. g = [k \in 0 .. N |-> IF k = 0 THEN 0 ELSE g[k - 1] * 10 + DigitValue[digits[k]]]
  BY <1>4
<1>6. Spelt(digits) = g[N]
  BY DEF Spelt
<1> HIDE DEF g, N, step
<1>7. g[0] = 0 /\ \A k \in 1 .. N : g[k] = g[k - 1] * 10 + DigitValue[digits[k]]
  <2>1. 0 \in 0 .. N /\ \A k \in 1 .. N : k \in 0 .. N /\ k # 0
    BY ONLY <1>1
  <2> QED BY ONLY <1>5, <2>1
<1> DEFINE S == {k \in Nat : k <= N => g[k] \in Nat}
<1>8. 0 \in S
  BY <1>7
<1>9. ASSUME NEW k \in Nat, k \in S PROVE k + 1 \in S
  <2>1. CASE k + 1 <= N
    <3>1. k + 1 \in 1 .. N /\ (k + 1) - 1 = k /\ k <= N
      BY ONLY <2>1, <1>1
    <3>2. g[k + 1] = g[k] * 10 + DigitValue[digits[k + 1]] /\ DigitValue[digits[k + 1]] \in 0 .. 9
      BY ONLY <3>1, <1>1, <1>7
    <3>3. g[k] \in Nat
      BY <3>1, <1>9
    <3>4. PICK a \in Nat, d \in 0 .. 9 : g[k + 1] = a * 10 + d
      BY <3>2, <3>3
    <3> QED BY <3>4
  <2>2. CASE ~ (k + 1 <= N)
    BY <2>2
  <2> QED BY <2>1, <2>2
<1>10. \A k \in Nat : k \in S
  <2> HIDE DEF S
  <2> QED BY <1>8, <1>9, Induction
<1>11. \A k \in 0 .. N : g[k] \in Nat
  BY <1>1, <1>10
<1>12. Spells10(g, digits)
  BY <1>6, <1>7, <1>11 DEF Spells10, N
<1> QED BY <1>12

LEMMA RemainderScaled ==
  ASSUME NEW a \in Nat, NEW c \in Nat, NEW b \in Nat \ {0}
  PROVE  ((a % b) * 10 + c) % b = (a * 10 + c) % b
<1>1. PICK q \in Nat, r \in Nat : a = q * b + r /\ r < b /\ r = a % b
  <2>1. a \div b \in Nat /\ a % b \in Nat /\ a % b < b /\ a = (a \div b) * b + (a % b)
    OBVIOUS
  <2> QED BY <2>1
<1> DEFINE x == r * 10 + c
           p == x \div b
           s == x % b
<1>2. x \in Nat /\ x = r * 10 + c
  BY <1>1
<1>3. p \in Nat /\ s \in Nat /\ s < b /\ x = p * b + s
  <2> HIDE DEF x
  <2> QED BY <1>2
<1>4. s = x % b
  OBVIOUS
<1> HIDE DEF x, p, s
<1>5. a * 10 + c = (q * 10 + p) * b + s
  <2>1. q * b \in Nat /\ p * b \in Nat
    BY <1>1, <1>3, Products
  <2>2. (q * 10 + p) * b = (q * b) * 10 + p * b
    BY ONLY <1>1, <1>3, b \in Nat
  <2>3. a * 10 + c = (q * b) * 10 + x
    <3>1. PICK y \in Nat : y = q * b
      BY <2>1
    <3>2. a = y + r /\ x = r * 10 + c
      BY ONLY <3>1, <1>1, <1>2
    <3>3. a * 10 + c = y * 10 + x
      BY ONLY <3>2, y \in Nat, r \in Nat, c \in Nat
    <3> QED BY ONLY <3>1, <3>3
  <2> QED BY ONLY <2>1, <2>2, <2>3, <1>3
<1>6. (a * 10 + c) % b = s
  <2>1. q * 10 + p \in Nat
    BY <1>1, <1>3
  <2>2. ((q * 10 + p) * b + s) % b = s
    BY ONLY <2>1, <1>3, b \in Nat \ {0}, Remainder
  <2> QED BY ONLY <2>2, <1>5
<1> QED BY <1>1, <1>2, <1>4, <1>6

LEMMA NumberIs ==
  ASSUME NEW digits \in Seq(DOMAIN DigitValue), NEW n, Stands(digits, n),
         Over(n, DOMAIN DigitValue) = n + Len(digits)
  PROVE  Number(n) = Spelt(digits) % IdModulus
<1>1. PICK f : Spells10(f, digits)
  BY SpeltIs
<1>2. PICK N \in Nat : N = Len(digits)
  BY LenProperties
<1>3. n \in Nat /\ \A z \in 1 .. N : json[n + z] = digits[z] /\ DigitValue[digits[z]] \in 0 .. 9
  <2>1. \A z \in 1 .. N : digits[z] \in DOMAIN DigitValue
    BY <1>2, ElementOfSeq
  <2>2. \A z \in 1 .. N : DigitValue[digits[z]] \in 0 .. 9
    BY <2>1, CommandAssumption
  <2> QED BY <2>2, <1>2 DEF Stands
<1>4. (n + N) - n = N
  BY ONLY <1>2, <1>3
<1>5. IdModulus \in Nat \ {0}
  BY CommandAssumption
<1> DEFINE g == [k \in 0 .. N |-> f[k] % IdModulus]
<1>6. /\ f[0] = 0 /\ \A k \in 1 .. N : f[k] = f[k - 1] * 10 + DigitValue[digits[k]]
      /\ \A k \in 0 .. N : f[k] \in Nat
      /\ Spelt(digits) = f[N]
  BY <1>1, <1>2 DEF Spells10
<1>7. ASSUME NEW k \in 0 .. N
      PROVE  g[k] = IF k = 0 THEN 0 ELSE (g[k - 1] * 10 + DigitValue[Symbol(n + k - 1)]) % IdModulus
  <2>1. CASE k = 0
    <3>1. 0 % IdModulus = 0
      BY ONLY <1>5
    <3> QED BY <2>1, <3>1, <1>6
  <2>2. CASE k # 0
    <3>1. k \in 1 .. N /\ k - 1 \in 0 .. N /\ n + k - 1 + 1 = n + k
      BY ONLY <2>2, <1>2, <1>3, k \in 0 .. N
    <3>2. Symbol(n + k - 1) = digits[k] /\ DigitValue[digits[k]] \in Nat
      <4>1. DigitValue[digits[k]] \in 0 .. 9 /\ json[n + k] = digits[k]
        BY ONLY <3>1, <1>3
      <4> QED BY <4>1, <3>1 DEF Symbol
    <3>3. f[k - 1] \in Nat /\ f[k] = f[k - 1] * 10 + DigitValue[digits[k]]
      BY ONLY <3>1, <1>6
    <3>4. ((f[k - 1] % IdModulus) * 10 + DigitValue[digits[k]]) % IdModulus = f[k] % IdModulus
      <4>1. PICK a \in Nat, b \in Nat : a = f[k - 1] /\ b = DigitValue[digits[k]]
        BY ONLY <3>2, <3>3
      <4>2. ((a % IdModulus) * 10 + b) % IdModulus = (a * 10 + b) % IdModulus
        BY ONLY a \in Nat, b \in Nat, <1>5, RemainderScaled
      <4> QED BY ONLY <3>3, <4>1, <4>2
    <3>5. g[k] = f[k] % IdModulus /\ g[k - 1] = f[k - 1] % IdModulus
      <4>1. \A z \in 0 .. N : g[z] = f[z] % IdModulus
        OBVIOUS
      <4> HIDE DEF g
      <4> QED BY ONLY <4>1, <3>1, k \in 0 .. N
    <3> HIDE DEF g
    <3> QED BY ONLY <2>2, <3>2, <3>4, <3>5
  <2> QED BY <2>1, <2>2
<1>8. g = [k \in 0 .. N |-> IF k = 0 THEN 0
                           ELSE (g[k - 1] * 10 + DigitValue[Symbol(n + k - 1)]) % IdModulus]
  <2>1. g = [k \in 0 .. N |-> g[k]]
    OBVIOUS
  <2> HIDE DEF g
  <2> QED BY ONLY <2>1, <1>7
<1> HIDE DEF g
<1> DEFINE h == CHOOSE h : h = [k \in 0 .. N |-> IF k = 0 THEN 0
                           ELSE (h[k - 1] * 10 + DigitValue[Symbol(n + k - 1)]) % IdModulus]
<1>9. h = [k \in 0 .. N |-> IF k = 0 THEN 0
                           ELSE (h[k - 1] * 10 + DigitValue[Symbol(n + k - 1)]) % IdModulus]
  BY <1>8
<1>10. Number(n) = h[N]
  <2>1. Over(n, DOMAIN DigitValue) - n = N
    BY <1>2, <1>4
  <2> QED BY <2>1 DEF Number
<1> HIDE DEF h
<1> DEFINE S == {k \in Nat : k <= N => h[k] = g[k]}
<1>11. 0 \in S
  <2>1. 0 \in 0 .. N
    BY ONLY <1>2
  <2>2. h[0] = 0 /\ g[0] = 0
    BY ONLY <2>1, <1>7, <1>9
  <2> QED BY <2>2
<1>12. ASSUME NEW k \in Nat, k \in S PROVE k + 1 \in S
  <2>1. CASE k + 1 <= N
    <3>1. k + 1 \in 0 .. N /\ k + 1 # 0 /\ (k + 1) - 1 = k /\ k <= N
      BY ONLY <2>1, <1>2, k \in Nat
    <3>2. h[k] = g[k]
      BY <3>1, <1>12
    <3>3. h[k + 1] = (h[k] * 10 + DigitValue[Symbol(n + (k + 1) - 1)]) % IdModulus
      BY ONLY <3>1, <1>9
    <3>4. g[k + 1] = (g[k] * 10 + DigitValue[Symbol(n + (k + 1) - 1)]) % IdModulus
      BY ONLY <3>1, <1>7
    <3> QED BY <3>2, <3>3, <3>4
  <2>2. CASE ~ (k + 1 <= N)
    BY <2>2
  <2> QED BY <2>1, <2>2
<1>13. \A k \in Nat : k \in S
  <2> HIDE DEF S
  <2> QED BY <1>11, <1>12, Induction
<1>14. h[N] = g[N]
  BY <1>2, <1>13
<1>15. g[N] = f[N] % IdModulus
  BY <1>2 DEF g
<1> QED BY <1>6, <1>10, <1>14, <1>15

\* Parameters: the brace that closes them.
LEMMA BraceEndIs ==
  ASSUME json \in Seq(Signs), NEW t, NEW n, Stands(t, n), t # << >>, Braced(t)
  PROVE  BraceEnd(n) = n + Len(t)
<1>1. /\ t \in Seq(Signs) /\ n \in Nat /\ n + Len(t) <= Len(json)
      /\ \A z \in 1 .. Len(t) : json[n + z] = t[z]
  BY DEF Stands
<1>2. PICK N \in Nat, L \in Nat : N = Len(json) /\ L = Len(t)
  BY <1>1, LenProperties
<1>3. L # 0 /\ n + L <= N /\ End = N
  <2>1. L # 0
    BY ONLY <1>1, <1>2, t # << >>, EmptySeq
  <2> QED BY <2>1, <1>1, <1>2 DEF End
<1>4. ASSUME NEW k \in 1 .. L
      PROVE  LeftOpen(Text(n, End), k) = LeftOpen(t, k)
  <2>1. ASSUME NEW z \in 1 .. k PROVE Text(n, End)[z] = t[z]
    <3>1. z \in 1 .. N - n /\ z \in 1 .. L
      BY ONLY <1>1, <1>2, <1>3, k \in 1 .. L, z \in 1 .. k
    <3>2. SubSeq(json, n + 1, N)[z] = json[n + z]
      BY <3>1, <1>1, <1>2, StretchAt
    <3> QED BY <3>1, <3>2, <1>1, <1>2, <1>3 DEF Text
  <2>2. \A s : {z \in 1 .. k : Text(n, End)[z] = s} = {z \in 1 .. k : t[z] = s}
    BY <2>1
  <2> QED BY <2>2 DEF LeftOpen
<1>5. \A k \in 1 .. L : LeftOpen(t, k) = 0 <=> k = L
  BY <1>2 DEF Braced
<1> DEFINE S == {m \in n + 1 .. End : m = End \/ LeftOpen(Text(n, End), m - n) = 0}
<1>6. n + L \in S
  <2>1. n + L \in n + 1 .. N /\ (n + L) - n = L /\ L \in 1 .. L
    BY ONLY <1>1, <1>2, <1>3
  <2>2. LeftOpen(Text(n, End), L) = 0
    BY ONLY <2>1, <1>4, <1>5
  <2> QED BY <2>1, <2>2, <1>3
<1>7. ASSUME NEW m \in S PROVE n + L <= m
  <2>1. m \in n + 1 .. N /\ (m = N \/ LeftOpen(Text(n, End), m - n) = 0)
    BY <1>3
  <2>2. ASSUME m < n + L PROVE FALSE
    <3>1. m - n \in 1 .. L /\ m - n # L /\ m # N
      BY ONLY <2>1, <2>2, <1>1, <1>2, <1>3
    <3>2. LeftOpen(Text(n, End), m - n) # 0
      BY ONLY <3>1, <1>4, <1>5
    <3> QED BY <3>1, <3>2, <2>1
  <2> QED BY ONLY <2>1, <2>2, <1>1, <1>2
<1>8. S \in SUBSET Nat
  BY <1>1
<1>9. Min(S) = n + L
  <2> HIDE DEF S
  <2> QED BY <1>6, <1>7, <1>8, MinIs
<1> QED BY <1>2, <1>9 DEF BraceEnd

\* A quoted value is read whole, ...
LEMMA QuotedRead ==
  ASSUME json \in Seq(Signs), NEW m \in SentMember, m.quoted,
         NEW v \in Nat, Stands(ValueText(m), v)
  PROVE  /\ Text(v + 1, Up(v + 1, {Quote})) = m.value
         /\ Closed(v + 1) = v + Len(ValueText(m))
<1>1. /\ m.value \in Seq(Signs) /\ m.value \in Seq(Signs \ {Quote})
  BY MemberIs DEF MemberParts
<1>2. PICK N \in Nat, L \in Nat : N = Len(json) /\ L = Len(m.value)
  BY <1>1, LenProperties
<1>n. N \in Nat /\ L \in Nat /\ v \in Nat
  BY <1>2
<1>3. ValueText(m) = Quotation(m.value)
  BY DEF ValueText
<1>4. /\ Len(ValueText(m)) = L + 2 /\ Stands(m.value, v + 1)
      /\ json[v + 2 + L] = Quote /\ v + 2 + L <= N
  BY <1>1, <1>2, <1>3, StandsQuoted
<1>5. Up(v + 1, {Quote}) = v + 1 + L
  <2>1. \A z \in 1 .. Len(m.value) : m.value[z] \notin {Quote}
    <3>1. \A z \in 1 .. Len(m.value) : m.value[z] \in Signs \ {Quote}
      BY <1>1, ElementOfSeq
    <3> QED BY <3>1
  <2>2. json[v + 1 + Len(m.value) + 1] \in {Quote}
    <3>1. v + 1 + L + 1 = v + 2 + L
      BY ONLY <1>n
    <3> QED BY ONLY <3>1, <1>2, <1>4
  <2>3. Len(json) \in Nat
    BY <1>2
  <2>4. Stands(m.value, v + 1)
    BY <1>4
  <2>5. Up(v + 1, {Quote}) = v + 1 + Len(m.value)
    BY ONLY <2>1, <2>2, <2>3, <2>4, UpText
  <2> QED BY ONLY <2>5, <1>2
<1>6. Text(v + 1, v + 1 + L) = m.value
  BY <1>2, <1>4, TextStands
<1>7. Closed(v + 1) = v + 2 + L
  <2>1. PICK w : w = v + 2 + L
    OBVIOUS
  <2>2. w \in Nat /\ w <= N /\ v + 1 + L + 1 = w
    <3>1. v + 2 + L <= N
      BY <1>4
    <3> QED BY ONLY <3>1, <2>1, <1>n
  <2>3. Min({w, N}) = w
    <3>1. {w, N} \in SUBSET Nat /\ w \in {w, N} /\ \A n \in {w, N} : w <= n
      BY ONLY <2>2, <1>n
    <3> QED BY ONLY <3>1, MinIs
  <2> QED BY <2>1, <2>2, <2>3, <1>2, <1>5 DEF Closed, End
<1>8. v + Len(ValueText(m)) = v + 2 + L
  <2>1. v + (L + 2) = v + 2 + L
    BY ONLY <1>n
  <2> QED BY <2>1, <1>4
<1> QED BY ONLY <1>5, <1>6, <1>7, <1>8

\* ... and another that is not known up to a comma or brace behind it.
Bare == Signs \ {",", "}"}

LEMMA BareRead ==
  ASSUME json \in Seq(Signs), NEW t \in Seq(Bare), NEW v, Stands(t, v),
         NEW g, NEW e, e = v + Len(t), Following(g, e)
  PROVE  \E d \in 0 .. Len(g) : Up(v, {",", "}"}) = e + d
<1>1. /\ v \in Nat /\ v + Len(t) <= Len(json) /\ \A z \in 1 .. Len(t) : json[v + z] = t[z]
      /\ e + Len(g) <= Len(json) /\ \A z \in 1 .. Len(g) : json[e + z] = g[z]
      /\ g \in Seq({" ", ","})
  BY DEF Stands, Following
<1>2. PICK N \in Nat, L \in Nat, a \in Nat : N = Len(json) /\ L = Len(t) /\ a = Len(g)
  BY <1>1, LenProperties
<1>n. N \in Nat /\ L \in Nat /\ a \in Nat
  BY <1>2
<1>p. v \in Nat /\ e = v + L /\ e + a <= N
  BY <1>1, <1>2
<1>3. v \in Nat /\ e = v + L /\ e \in Nat /\ e + a <= N
  BY ONLY <1>n, <1>p
<1>4. \A z \in 1 .. L : json[v + z] \notin {",", "}"}
  <2>1. \A z \in 1 .. L : t[z] \in Signs \ {",", "}"}
    BY <1>2, ElementOfSeq DEF Bare
  <2> QED BY <2>1, <1>1, <1>2
<1>5. \A z \in 1 .. a : json[e + z] = g[z] /\ g[z] \in {" ", ","}
  BY <1>1, <1>2, ElementOfSeq
<1>6. \E d \in 0 .. a : /\ \A z \in 1 .. d : g[z] # ","
                      /\ (e + d = N \/ json[e + d + 1] \in {",", "}"})
  <2> DEFINE C == {z \in 1 .. a : g[z] = ","}
  <2>1. CASE C = {}
    <3>1. \A z \in 1 .. a : g[z] # ","
      BY <2>1
    <3>2. e + a = N \/ json[e + a + 1] = "}"
      BY <3>1, <1>2 DEF Following
    <3>3. a \in 0 .. a
      BY ONLY <1>n
    <3> QED BY <3>1, <3>2, <3>3
  <2>2. CASE C # {}
    <3>0. C \in SUBSET Nat
      <4> HIDE DEF C
      <4>1. 1 .. a \subseteq Nat
        BY ONLY <1>n
      <4> QED BY <4>1 DEF C
    <3>1. PICK z \in 1 .. a : z \in C /\ \A k \in C : z <= k
      <4>1. \E z \in C : \A k \in C : z <= k
        <5> HIDE DEF C
        <5> QED BY <2>2, <3>0, LeastOf
      <4> QED BY <4>1
    <3>a. z \in 1 .. a
      BY <3>1
    <3>b. g[z] = ","
      BY <3>1
    <3>2. z - 1 \in 0 .. a /\ e + (z - 1) + 1 = e + z
      BY ONLY <3>a, <1>3, <1>n
    <3>3. ASSUME NEW k \in 1 .. z - 1 PROVE g[k] # ","
      <4>1. k \in 1 .. a /\ ~ (z <= k)
        BY ONLY <3>a, <1>n, k \in 1 .. z - 1
      <4> QED BY <4>1, <3>1
    <3>4. json[e + (z - 1) + 1] \in {",", "}"}
      <4>1. json[e + z] = g[z]
        BY ONLY <3>a, <1>5
      <4> QED BY ONLY <4>1, <3>b, <3>2
    <3> QED BY ONLY <3>2, <3>3, <3>4
  <2> QED BY <2>1, <2>2
<1>q. PICK d \in 0 .. a : /\ \A z \in 1 .. d : g[z] # ","
                         /\ (e + d = N \/ json[e + d + 1] \in {",", "}"})
  BY <1>6
<1>r. d \in 0 .. a
  OBVIOUS
<1>7. ASSUME NEW k \in v .. e + d - 1 PROVE json[k + 1] \notin {",", "}"}
  <2>1. CASE k < e
    <3>1. k + 1 - v \in 1 .. L /\ v + (k + 1 - v) = k + 1
      BY ONLY <2>1, <1>n, <1>3, <1>r, k \in v .. e + d - 1
    <3> QED BY ONLY <3>1, <1>4
  <2>2. CASE k >= e
    <3>1. k + 1 - e \in 1 .. d /\ k + 1 - e \in 1 .. a /\ e + (k + 1 - e) = k + 1
      BY ONLY <2>2, <1>n, <1>3, <1>r, k \in v .. e + d - 1
    <3>2. json[k + 1] = g[k + 1 - e] /\ g[k + 1 - e] \in {" ", ","} /\ g[k + 1 - e] # ","
      BY ONLY <3>1, <1>5, <1>q
    <3> QED BY <3>2
  <2>3. k < e \/ k >= e
    BY ONLY <1>n, <1>3, <1>r, k \in v .. e + d - 1
  <2> QED BY ONLY <2>1, <2>2, <2>3
<1>8. PICK w : w = e + d
  OBVIOUS
<1>s. w \in v .. N
  BY ONLY <1>n, <1>3, <1>r, <1>8
<1>9. w \in v .. Len(json) /\ Len(json) \in Nat
  BY ONLY <1>2, <1>s
<1>10. Up(v, {",", "}"}) = w
  <2>1. \A k \in v .. w - 1 : json[k + 1] \notin {",", "}"}
    <3>1. \A k \in v .. w - 1 : k \in v .. e + d - 1
      BY ONLY <1>n, <1>3, <1>r, <1>8
    <3> QED BY ONLY <3>1, <1>7
  <2>2. w = Len(json) \/ json[w + 1] \in {",", "}"}
    BY ONLY <1>2, <1>q, <1>8
  <2>3. v \in Nat
    BY <1>3
  <2> QED BY ONLY <2>1, <2>2, <2>3, <1>9, UpIs
<1> QED BY ONLY <1>2, <1>8, <1>10, <1>r

\* What a command in words says, as far as 32 bits of its id go.
Kept(said) == [id |-> said.id % IdModulus, method |-> said.method, params |-> said.params]

\* One turn of the loop reads one member.
LEMMA IdTurn ==
  ASSUME json \in Seq(Signs), NEW m \in SentMember, NEW v, Stands(ValueText(m), v), Value = v,
         NEW e, e = v + Len(ValueText(m)), NEW g, Following(g, e), Key = m.key,
         NEW said, cmd = Kept(said), ReadId
  PROVE  read' = e /\ cmd' = Kept(SaidBy(m, said)) /\ command' = command /\ reply' = reply
<1>1. m.key = <<"id">> /\ ~ m.quoted /\ m.value \in Seq(DOMAIN DigitValue)
  <2>1. m.key = <<"id">>
    BY DEF ReadId
  <2> QED BY <2>1, MemberIs
<1>2. ValueText(m) = m.value
  BY <1>1 DEF ValueText
<1>3. Len(json) \in Nat
  BY LenProperties
<1>4. Over(v, DOMAIN DigitValue) = v + Len(m.value)
  <2>1. Stands(m.value, v) /\ v \in Nat /\ Len(m.value) \in Nat
    BY <1>1, <1>2, LenProperties DEF Stands
  <2>2. \A z \in 0 + 1 .. Len(m.value) : m.value[z] \in DOMAIN DigitValue
    <3>1. \A z \in 1 .. Len(m.value) : m.value[z] \in DOMAIN DigitValue
      BY <1>1, ElementOfSeq
    <3>2. 0 + 1 = 1
      OBVIOUS
    <3> QED BY ONLY <3>1, <3>2
  <2>3. v + Len(m.value) = Len(json) \/ json[v + Len(m.value) + 1] \notin DOMAIN DigitValue
    <3>1. e = v + Len(m.value)
      BY <1>2
    <3>2. e = Len(json) \/ json[e + 1] \in {" ", ",", "}"}
      BY <1>3, NextSymbol
    <3>3. json[e + 1] \in {" ", ",", "}"} => json[e + 1] \notin DOMAIN DigitValue
      BY CommandAssumption
    <3> QED BY ONLY <3>1, <3>2, <3>3
  <2>4. 0 \in 0 .. Len(m.value) /\ v + 0 = v
    BY ONLY <2>1
  <2>5. Over(v + 0, DOMAIN DigitValue) = v + Len(m.value)
    BY ONLY <1>3, <2>1, <2>2, <2>3, <2>4, OverText
  <2> QED BY ONLY <2>4, <2>5
<1>5. Number(v) = Spelt(m.value) % IdModulus
  BY <1>1, <1>2, <1>4, NumberIs
<1>6. read' = e
  BY <1>2, <1>4 DEF ReadId
<1>7. cmd' = [cmd EXCEPT !.id = Spelt(m.value) % IdModulus]
  BY <1>5 DEF ReadId
<1>8. m.key # <<"method">> /\ m.key # <<"params">>
  BY <1>1
<1>9. cmd' = Kept(SaidBy(m, said))
  BY <1>1, <1>7, <1>8 DEF Kept, SaidBy
<1> QED BY <1>6, <1>9 DEF ReadId

LEMMA MethodTurn ==
  ASSUME json \in Seq(Signs), NEW m \in SentMember, NEW v, Stands(ValueText(m), v), Value = v,
         NEW e, e = v + Len(ValueText(m)), Key = m.key,
         \A s : Has(v, s) <=> ValueText(m)[1] = s,
         NEW said, cmd = Kept(said), ReadMethod
  PROVE  read' = e /\ cmd' = Kept(SaidBy(m, said)) /\ command' = command /\ reply' = reply
<1>1. m.key = <<"method">> /\ m.quoted
  <2>1. m.key = <<"method">>
    BY DEF ReadMethod
  <2> QED BY <2>1, MemberIs
<1>2. Has(v, Quote)
  BY <1>1, ValueBegins
<1>3. v \in Nat
  BY DEF Stands
<1>4. Text(v + 1, Up(v + 1, {Quote})) = m.value /\ Closed(v + 1) = e
  BY <1>1, <1>3, QuotedRead
<1>5. cmd' = [cmd EXCEPT !.method = m.value] /\ read' = e
  BY <1>2, <1>4 DEF ReadMethod
<1>6. m.key # <<"id">> /\ m.key # <<"params">>
  BY <1>1
<1>7. cmd' = Kept(SaidBy(m, said))
  BY <1>1, <1>5, <1>6 DEF Kept, SaidBy
<1> QED BY <1>5, <1>7 DEF ReadMethod

LEMMA ParamsTurn ==
  ASSUME json \in Seq(Signs), NEW m \in SentMember, NEW v, Stands(ValueText(m), v), Value = v,
         NEW e, e = v + Len(ValueText(m)), Key = m.key,
         \A s : Has(v, s) <=> ValueText(m)[1] = s,
         NEW said, cmd = Kept(said), ReadParams
  PROVE  read' = e /\ cmd' = Kept(SaidBy(m, said)) /\ command' = command /\ reply' = reply
<1>1. m.key = <<"params">> /\ ~ m.quoted /\ m.value # << >> /\ Braced(m.value)
  <2>1. m.key = <<"params">>
    BY DEF ReadParams
  <2> QED BY <2>1, MemberIs
<1>2. ValueText(m) = m.value
  BY <1>1 DEF ValueText
<1>3. Has(v, "{")
  BY <1>1, ValueBegins
<1>4. BraceEnd(v) = e
  BY <1>1, <1>2, BraceEndIs
<1>5. Text(v, e) = m.value
  BY <1>2, TextStands
<1>6. cmd' = [cmd EXCEPT !.params = m.value] /\ read' = e
  BY <1>3, <1>4, <1>5 DEF ReadParams
<1>7. m.key # <<"id">> /\ m.key # <<"method">>
  BY <1>1
<1>8. cmd' = Kept(SaidBy(m, said))
  BY <1>1, <1>6, <1>7 DEF Kept, SaidBy
<1> QED BY <1>6, <1>8 DEF ReadParams

LEMMA SkipTurn ==
  ASSUME json \in Seq(Signs), NEW m \in SentMember, NEW v, Stands(ValueText(m), v), Value = v,
         NEW e, e = v + Len(ValueText(m)), NEW g, Following(g, e), Key = m.key,
         \A s : Has(v, s) <=> ValueText(m)[1] = s,
         NEW said, cmd = Kept(said), SkipMember
  PROVE  (\E d \in 0 .. Len(g) : read' = e + d)
         /\ cmd' = Kept(SaidBy(m, said)) /\ command' = command /\ reply' = reply
<1>1. m.key \notin {<<"id">>, <<"method">>, <<"params">>}
  BY DEF SkipMember
<1>2. cmd' = Kept(SaidBy(m, said))
  BY <1>1 DEF SkipMember, Kept, SaidBy
<1>3. e \in Nat /\ Len(g) \in Nat /\ v \in Nat
  BY NextSymbol, LenProperties DEF Stands
<1>4. CASE m.quoted
  <2>1. Has(v, Quote)
    BY <1>4, ValueBegins
  <2>2. Closed(v + 1) = e
    BY <1>3, <1>4, QuotedRead
  <2>3. read' = e + 0 /\ 0 \in 0 .. Len(g)
    BY <1>3, <2>1, <2>2 DEF SkipMember
  <2> QED BY <2>3, <1>2 DEF SkipMember
<1>5. CASE ~ m.quoted
  <2>1. ValueText(m) = m.value
    BY <1>5 DEF ValueText
  <2>2. m.value \in Seq(Bare)
    BY <1>1, <1>5, MemberIs DEF Bare
  <2>3. ~ Has(v, Quote)
    BY <1>1, <1>5, ValueBegins
  <2>4. \E d \in 0 .. Len(g) : Up(v, {",", "}"}) = e + d
    BY <2>1, <2>2, BareRead
  <2>5. read' = Up(v, {",", "}"})
    BY <2>3 DEF SkipMember
  <2> QED BY <2>4, <2>5, <1>2 DEF SkipMember
<1> QED BY <1>4, <1>5

LEMMA MemberTurn ==
  ASSUME json \in Seq(Signs), json # << >>, json[1] = "{", reply = << >>,
         NEW m \in SentMember, NEW p, NEW q, NEW v, MemberAt(m, p, q, v),
         NEW d \in 0 .. Len(m.gap), read = p + d,
         NEW e, e = v + Len(ValueText(m)), NEW g, Following(g, e),
         NEW said, cmd = Kept(said), CdpNext
  PROVE  (\E n \in 0 .. Len(g) : read' = e + n)
         /\ cmd' = Kept(SaidBy(m, said)) /\ command' = command /\ reply' = reply
<1>1. /\ Open = q /\ AtMember /\ Key = m.key /\ Value = v
      /\ \A s : Has(v, s) <=> ValueText(m)[1] = s
  BY MemberRead
<1>2. Stands(ValueText(m), v)
  BY DEF MemberAt
<1>3. 0 \in 0 .. Len(g) /\ e + 0 = e
  <2>1. e \in Nat /\ Len(g) \in Nat
    BY NextSymbol, LenProperties
  <2> QED BY ONLY <2>1
<1>4. CASE ReadId
  <2>1. read' = e /\ cmd' = Kept(SaidBy(m, said)) /\ command' = command /\ reply' = reply
    BY ONLY json \in Seq(Signs), m \in SentMember, <1>1, <1>2, <1>4, e = v + Len(ValueText(m)),
            Following(g, e), cmd = Kept(said), IdTurn
  <2> QED BY <2>1, <1>3
<1>5. CASE ReadMethod
  <2>1. read' = e /\ cmd' = Kept(SaidBy(m, said)) /\ command' = command /\ reply' = reply
    BY ONLY json \in Seq(Signs), m \in SentMember, <1>1, <1>2, <1>5, e = v + Len(ValueText(m)),
            cmd = Kept(said), MethodTurn
  <2> QED BY <2>1, <1>3
<1>6. CASE ReadParams
  <2>1. read' = e /\ cmd' = Kept(SaidBy(m, said)) /\ command' = command /\ reply' = reply
    BY ONLY json \in Seq(Signs), m \in SentMember, <1>1, <1>2, <1>6, e = v + Len(ValueText(m)),
            cmd = Kept(said), ParamsTurn
  <2> QED BY <2>1, <1>3
<1>7. CASE SkipMember
  BY ONLY json \in Seq(Signs), m \in SentMember, <1>1, <1>2, <1>7, e = v + Len(ValueText(m)),
          Following(g, e), cmd = Kept(said), SkipTurn
<1>8. ~ SkipStray /\ ~ Reply
  BY <1>1 DEF AtMember, SkipStray, Reply
<1> QED BY <1>4, <1>5, <1>6, <1>7, <1>8 DEF CdpNext

\* How a command that is sent lies in what came: the members' texts one after
\* the other.
Laid(sent, N, P) ==
  /\ N \in Nat /\ json \in Seq(Signs) /\ json # << >> /\ json[1] = "{"
  /\ P[0] = 1
  /\ \A k \in 1 .. N : /\ sent.members[k] \in SentMember
                      /\ Stands(MemberText(sent.members[k]), P[k - 1])
                      /\ P[k] = P[k - 1] + Len(MemberText(sent.members[k]))
  /\ Stands(sent.space, P[N]) /\ Stands(sent.rest, P[N] + Len(sent.space))
  /\ Len(json) = P[N] + Len(sent.space) + Len(sent.rest)

LEMMA SentIs ==
  ASSUME NEW sent, WellFormed(sent)
  PROVE  /\ Len(sent.members) \in Nat
         /\ \A k \in 1 .. Len(sent.members) : /\ sent.members[k] \in SentMember
                                             /\ MemberText(sent.members[k]) \in Seq(Signs)
         /\ sent.space \in Seq({" ", ","}) /\ sent.space \in Seq(Signs) /\ sent.rest \in Seq(Signs)
<1>1. sent.members \in Seq(SentMember)
  BY DEF WellFormed
<1>2. Len(sent.members) \in Nat /\ \A k \in 1 .. Len(sent.members) : sent.members[k] \in SentMember
  BY ONLY <1>1, ElementOfSeq, LenProperties
<1>3. \A k \in 1 .. Len(sent.members) : MemberText(sent.members[k]) \in Seq(Signs)
  BY <1>2, MemberTextIs
<1>4. sent.space \in Seq(Signs)
  <2>1. {" ", ","} \subseteq Signs
    BY CommandAssumption
  <2>2. sent.space \in Seq({" ", ","})
    BY DEF WellFormed
  <2> QED BY ONLY <2>1, <2>2, SeqWider
<1> QED BY <1>2, <1>3, <1>4 DEF WellFormed

\* What it begins with.
Opened == <<"{">>

LEMMA OpenedIs == Opened \in Seq(Signs) /\ Len(Opened) = 1 /\ Opened[1] = "{"
<1>1. "{" \in Signs
  BY CommandAssumption
<1>2. Opened \in Seq(Signs)
  <2>1. PICK e \in Signs : e = "{"
    BY <1>1
  <2>2. e \in Signs
    OBVIOUS
  <2>3. <<e>> \in Seq(Signs)
    BY ONLY <2>2
  <2> QED BY <2>1, <2>3 DEF Opened
<1>3. Len(Opened) = 1
  BY ONLY DEF Opened
<1> QED BY <1>2, <1>3 DEF Opened

JsonBy(sent, N, T) ==
  /\ N \in Nat /\ T[0] = Opened
  /\ \A k \in 0 .. N : T[k] \in Seq(Signs)
  /\ \A k \in 1 .. N : T[k] = T[k - 1] \o MemberText(sent.members[k])

LEMMA JsonToIs ==
  ASSUME NEW sent, WellFormed(sent), NEW N, N = Len(sent.members), NEW T, T = JsonTo(sent)
  PROVE  JsonBy(sent, N, T)
<1> DEFINE V == Seq(Signs)
           step == [a \in Nat \X V |->
                      IF a[1] \notin 1 .. N THEN a[2] ELSE a[2] \o MemberText(sent.members[a[1]])]
<1>1. N \in Nat /\ \A k \in 1 .. N : MemberText(sent.members[k]) \in V
  BY SentIs
<1>0. Opened \in V
  BY OpenedIs
<1>11. ASSUME NEW n \in 1 .. N, NEW q \in V PROVE q \o MemberText(sent.members[n]) \in V
  BY <1>1, ConcatProperties
<1>2. step \in [Nat \X V -> V]
  <2>1. ASSUME NEW a \in Nat \X V
        PROVE  (IF a[1] \notin 1 .. N THEN a[2] ELSE a[2] \o MemberText(sent.members[a[1]])) \in V
    <3> HIDE DEF V
    <3> QED BY <1>11
  <2> HIDE DEF V
  <2> QED BY <2>1
<1>3. PICK f \in [0 .. N -> V] : Recursive(f, N, Opened, step)
  <2> HIDE DEF step, V
  <2> QED BY <1>0, <1>1, <1>2, Recursion
<1>4. f[0] = Opened
  BY <1>3 DEF Recursive
<1>5. ASSUME NEW k \in 1 .. N PROVE f[k] = f[k - 1] \o MemberText(sent.members[k])
  <2>1. k \in Nat /\ k - 1 \in 0 .. N
    BY <1>1
  <2>2. f[k - 1] \in V
    BY <2>1, <1>3
  <2>3. f[k] = step[<<k, f[k - 1]>>]
    BY <1>3 DEF Recursive
  <2> HIDE DEF V
  <2> QED BY <2>1, <2>2, <2>3
<1> HIDE DEF V
<1>6. f = [k \in 0 .. N |-> IF k = 0 THEN Opened ELSE f[k - 1] \o MemberText(sent.members[k])]
  <2>1. \A k \in 0 .. N : k = 0 \/ k \in 1 .. N
    BY ONLY <1>1
  <2>2. \A k \in 0 .. N : f[k] = IF k = 0 THEN Opened ELSE f[k - 1] \o MemberText(sent.members[k])
    BY <2>1, <1>4, <1>5
  <2>3. f = [k \in 0 .. N |-> f[k]]
    BY <1>3
  <2> QED BY ONLY <2>2, <2>3
<1>7. T = [k \in 0 .. N |-> IF k = 0 THEN Opened ELSE T[k - 1] \o MemberText(sent.members[k])]
  BY <1>6 DEF JsonTo, Opened
<1>8. T[0] = Opened
  <2>1. 0 \in 0 .. N
    BY ONLY <1>1
  <2> QED BY ONLY <2>1, <1>7
<1>9. ASSUME NEW k \in 1 .. N PROVE T[k] = T[k - 1] \o MemberText(sent.members[k])
  <2>1. k \in 0 .. N /\ k # 0
    BY ONLY <1>1, k \in 1 .. N
  <2> QED BY ONLY <2>1, <1>7
<1> DEFINE S == {k \in Nat : k <= N => T[k] \in V}
<1>10. \A k \in Nat : k \in S
  <2>1. 0 \in S
    BY <1>0, <1>8
  <2>2. ASSUME NEW k \in Nat, k \in S PROVE k + 1 \in S
    <3>1. CASE k + 1 <= N
      <4>1. k + 1 \in 1 .. N /\ (k + 1) - 1 = k /\ k <= N
        BY ONLY <3>1, <1>1, k \in Nat
      <4>2. T[k] \in V
        BY <4>1, <2>2
      <4>3. T[k] \o MemberText(sent.members[k + 1]) \in V
        BY <4>1, <4>2, <1>11
      <4>4. T[k + 1] = T[k] \o MemberText(sent.members[k + 1])
        BY <4>1, <1>9
      <4> QED BY <4>3, <4>4
    <3>2. CASE ~ (k + 1 <= N)
      BY <3>2
    <3> QED BY <3>1, <3>2
  <2> HIDE DEF S
  <2> QED BY <2>1, <2>2, Induction
<1>12. \A k \in 0 .. N : T[k] \in Seq(Signs)
  BY <1>1, <1>10 DEF V
<1> QED BY <1>1, <1>8, <1>9, <1>12 DEF JsonBy

LEMMA JsonIs ==
  ASSUME NEW sent, WellFormed(sent), json = SentJson(sent), NEW N, N = Len(sent.members),
         NEW P, P = [k \in 0 .. N |-> Len(JsonTo(sent)[k])]
  PROVE  Laid(sent, N, P)
<1>0. PICK T : T = JsonTo(sent)
  OBVIOUS
<1>1. /\ N \in Nat /\ T[0] = Opened
      /\ \A k \in 0 .. N : T[k] \in Seq(Signs)
      /\ \A k \in 1 .. N : T[k] = T[k - 1] \o MemberText(sent.members[k])
  <2>1. JsonBy(sent, N, T)
    BY ONLY <1>0, WellFormed(sent), N = Len(sent.members), JsonToIs
  <2> QED BY ONLY <2>1 DEF JsonBy
<1>2. /\ \A k \in 1 .. N : sent.members[k] \in SentMember /\ MemberText(sent.members[k]) \in Seq(Signs)
      /\ sent.space \in Seq(Signs) /\ sent.rest \in Seq(Signs)
  BY SentIs
<1>3. json = T[N] \o sent.space \o sent.rest
  BY <1>0 DEF SentJson
<1>n. N \in Nat
  BY <1>1
<1>4. N \in 0 .. N /\ 0 \in 0 .. N
  BY ONLY <1>n
<1>5. PICK h : h = T[N] \o sent.space /\ json = h \o sent.rest
  BY <1>3
<1>6. h \in Seq(Signs) /\ Len(h) = Len(T[N]) + Len(sent.space) /\ Len(T[N]) \in Nat /\ Len(sent.space) \in Nat
  <2>1. T[N] \in Seq(Signs)
    BY <1>1, <1>4
  <2> QED BY ONLY <2>1, <1>2, <1>5, Joined
<1>7. json \in Seq(Signs) /\ Len(json) = Len(h) + Len(sent.rest) /\ Len(json) \in Nat
  <2>1. json \in Seq(Signs) /\ Len(json) = Len(h) + Len(sent.rest)
    BY ONLY <1>2, <1>5, <1>6, Joined
  <2> QED BY ONLY <2>1, LenProperties
<1>8. Stands(json, 0)
  BY ONLY <1>7, WholeStands
<1>9. Stands(h, 0) /\ Stands(sent.rest, 0 + Len(h))
  <2>1. PICK rest, u : rest = sent.rest /\ u = json
    OBVIOUS
  <2>2. h \in Seq(Signs) /\ rest \in Seq(Signs) /\ u = h \o rest /\ Stands(u, 0) /\ Len(json) \in Nat
    BY ONLY <1>2, <1>5, <1>6, <1>7, <1>8, <2>1
  <2>3. Stands(h, 0) /\ Stands(rest, 0 + Len(h))
    BY ONLY <2>2, StandsBoth
  <2> QED BY ONLY <2>1, <2>3
<1>10. Stands(T[N], 0) /\ Stands(sent.space, 0 + Len(T[N]))
  <2>1. PICK t, space : t = T[N] /\ space = sent.space
    OBVIOUS
  <2>2. t \in Seq(Signs) /\ space \in Seq(Signs) /\ h = t \o space
    BY <2>1, <1>1, <1>2, <1>4, <1>5
  <2>3. Stands(t, 0) /\ Stands(space, 0 + Len(t))
    BY ONLY <2>2, <1>7, <1>9, StandsBoth
  <2> QED BY ONLY <2>1, <2>3
<1>11. ASSUME NEW k \in 1 .. N, Stands(T[k], 0)
       PROVE  /\ Stands(T[k - 1], 0) /\ Stands(MemberText(sent.members[k]), Len(T[k - 1]))
              /\ Len(T[k]) = Len(T[k - 1]) + Len(MemberText(sent.members[k]))
  <2>1. k - 1 \in 0 .. N
    BY ONLY <1>n, k \in 1 .. N
  <2>2. T[k - 1] \in Seq(Signs) /\ MemberText(sent.members[k]) \in Seq(Signs)
        /\ T[k] = T[k - 1] \o MemberText(sent.members[k])
    BY <2>1, <1>1, <1>2
  <2>3. /\ Stands(T[k - 1], 0) /\ Stands(MemberText(sent.members[k]), 0 + Len(T[k - 1]))
        /\ Len(T[k]) = Len(T[k - 1]) + Len(MemberText(sent.members[k]))
    <3>1. PICK s, t, u : s = T[k - 1] /\ t = MemberText(sent.members[k]) /\ u = T[k]
      OBVIOUS
    <3>2. s \in Seq(Signs) /\ t \in Seq(Signs) /\ u = s \o t /\ Stands(u, 0)
      BY ONLY <3>1, <2>2, <1>11
    <3>3. Stands(s, 0) /\ Stands(t, 0 + Len(s)) /\ Len(u) = Len(s) + Len(t)
      BY ONLY <3>2, <1>7, StandsBoth
    <3> QED BY ONLY <3>1, <3>3
  <2>4. 0 + Len(T[k - 1]) = Len(T[k - 1])
    <3>1. Len(T[k - 1]) \in Nat
      BY ONLY <2>2, LenProperties
    <3> QED BY ONLY <3>1
  <2> QED BY <2>3, <2>4
<1> DEFINE S == {k \in 0 .. N : Stands(T[k], 0)}
<1>12. \A k \in 0 .. N : k \in S
  <2>1. ASSUME NEW k \in 0 .. N, \A z \in k + 1 .. N : z \in S PROVE k \in S
    <3>1. CASE k = N
      BY <3>1, <1>10
    <3>2. CASE k # N
      <4>1. k + 1 \in k + 1 .. N /\ k + 1 \in 1 .. N /\ (k + 1) - 1 = k
        BY ONLY <3>2, <1>n, k \in 0 .. N
      <4>2. Stands(T[k + 1], 0)
        BY <4>1, <2>1
      <4>3. Stands(T[(k + 1) - 1], 0)
        BY ONLY <4>1, <4>2, <1>11
      <4> QED BY <4>1, <4>3
    <3> QED BY <3>1, <3>2
  <2> HIDE DEF S
  <2> QED BY ONLY <2>1, <1>n, Downward
<1>13. P = [k \in 0 .. N |-> Len(T[k])]
  BY <1>0
<1>14. P[0] = 1 /\ json # << >> /\ json[1] = "{"
  <2>1. Len(T[0]) = 1 /\ T[0][1] = "{"
    BY ONLY <1>1, OpenedIs
  <2>a. Len(T[0]) = 1
    BY ONLY <2>1
  <2>2. Stands(T[0], 0)
    BY <1>4, <1>12
  <2>3. 1 \in 1 .. Len(T[0]) /\ 0 + 1 = 1
    BY ONLY <2>a
  <2>4. json[0 + 1] = T[0][1] /\ 0 + Len(T[0]) <= Len(json)
    BY ONLY <2>2, <2>3 DEF Stands
  <2>5. json # << >>
    <3>1. Len(json) # 0
      BY ONLY <2>a, <2>4, <1>7
    <3> QED BY ONLY <3>1, EmptySeq
  <2> QED BY <2>1, <2>3, <2>4, <2>5, <1>4, <1>13
<1>15. ASSUME NEW k \in 1 .. N
       PROVE  /\ Stands(MemberText(sent.members[k]), P[k - 1])
              /\ P[k] = P[k - 1] + Len(MemberText(sent.members[k]))
  <2>1. k \in 0 .. N /\ k - 1 \in 0 .. N
    BY ONLY <1>n, k \in 1 .. N
  <2>2. P[k] = Len(T[k]) /\ P[k - 1] = Len(T[k - 1])
    BY ONLY <2>1, <1>13
  <2>3. Stands(T[k], 0)
    BY <2>1, <1>12
  <2> QED BY ONLY <2>2, <2>3, <1>11, k \in 1 .. N
<1>16. /\ Stands(sent.space, P[N]) /\ Stands(sent.rest, P[N] + Len(sent.space))
       /\ Len(json) = P[N] + Len(sent.space) + Len(sent.rest)
  <2>1. P[N] = Len(T[N])
    BY ONLY <1>4, <1>13
  <2>2. 0 + Len(T[N]) = Len(T[N]) /\ 0 + Len(h) = Len(T[N]) + Len(sent.space)
    BY ONLY <1>6
  <2> QED BY ONLY <2>1, <2>2, <1>6, <1>7, <1>9, <1>10
<1> QED BY <1>1, <1>2, <1>7, <1>14, <1>15, <1>16 DEF Laid

\* What the members up to one say.
LEMMA SaidIs ==
  ASSUME NEW sent, WellFormed(sent), NEW N, N = Len(sent.members), NEW A, A = SaidTo(sent)
  PROVE  /\ A[0] = NothingSaid
         /\ \A k \in 1 .. N : A[k] = SaidBy(sent.members[k], A[k - 1])
         /\ \A k \in 0 .. N : A[k].id \in Nat /\ A[k].method \in Seq(Signs)
<1> DEFINE V == [id : Nat, method : Seq(Signs), params : Seq(Signs)]
           step == [a \in Nat \X V |->
                      IF a[1] \notin 1 .. N THEN a[2] ELSE SaidBy(sent.members[a[1]], a[2])]
<1>1. N \in Nat /\ \A k \in 1 .. N : sent.members[k] \in SentMember
  BY SentIs
<1>0. NothingSaid \in V
  BY DEF NothingSaid
<1>11. ASSUME NEW n \in 1 .. N, NEW q \in V PROVE SaidBy(sent.members[n], q) \in V
  <2>1. PICK m \in SentMember : m = sent.members[n]
    BY <1>1
  <2>2. m.value \in Seq(Signs)
    BY MemberIs DEF MemberParts
  <2>3. m.key = <<"id">> => Spelt(m.value) \in Nat
    <3>1. m.key = <<"id">> => m.value \in Seq(DOMAIN DigitValue)
      BY MemberIs
    <3>2. ASSUME m.value \in Seq(DOMAIN DigitValue) PROVE Spelt(m.value) \in Nat
      <4>1. PICK f : Spells10(f, m.value)
        BY <3>2, SpeltIs
      <4>2. Len(m.value) \in Nat
        BY <3>2, LenProperties
      <4>3. Len(m.value) \in 0 .. Len(m.value)
        BY ONLY <4>2
      <4> QED BY <4>1, <4>3 DEF Spells10
    <3> QED BY <3>1, <3>2
  <2> QED BY <2>1, <2>2, <2>3 DEF SaidBy
<1>2. step \in [Nat \X V -> V]
  <2>1. ASSUME NEW a \in Nat \X V
        PROVE  (IF a[1] \notin 1 .. N THEN a[2] ELSE SaidBy(sent.members[a[1]], a[2])) \in V
    <3> HIDE DEF V
    <3> QED BY <1>11
  <2> HIDE DEF V
  <2> QED BY <2>1
<1>3. PICK f \in [0 .. N -> V] : Recursive(f, N, NothingSaid, step)
  <2> HIDE DEF step, V
  <2> QED BY <1>0, <1>1, <1>2, Recursion
<1> HIDE DEF V
<1>4. f[0] = NothingSaid
  BY <1>3 DEF Recursive
<1>5. ASSUME NEW k \in 1 .. N PROVE f[k] = SaidBy(sent.members[k], f[k - 1])
  <2>1. k \in Nat /\ k - 1 \in 0 .. N
    BY <1>1
  <2>2. f[k - 1] \in V
    BY <2>1, <1>3
  <2>3. f[k] = step[<<k, f[k - 1]>>]
    BY <1>3 DEF Recursive
  <2> QED BY <2>1, <2>2, <2>3
<1>6. f = [k \in 0 .. N |-> IF k = 0 THEN NothingSaid ELSE SaidBy(sent.members[k], f[k - 1])]
  <2>1. \A k \in 0 .. N : k = 0 \/ k \in 1 .. N
    BY ONLY <1>1
  <2>2. \A k \in 0 .. N : f[k] = IF k = 0 THEN NothingSaid ELSE SaidBy(sent.members[k], f[k - 1])
    BY <2>1, <1>4, <1>5
  <2>3. f = [k \in 0 .. N |-> f[k]]
    BY <1>3
  <2> QED BY ONLY <2>2, <2>3
<1>7. A = [k \in 0 .. N |-> IF k = 0 THEN NothingSaid ELSE SaidBy(sent.members[k], A[k - 1])]
  BY <1>6 DEF SaidTo
<1>8. A[0] = NothingSaid
  <2>1. 0 \in 0 .. N
    BY ONLY <1>1
  <2> QED BY ONLY <2>1, <1>7
<1>9. ASSUME NEW k \in 1 .. N PROVE A[k] = SaidBy(sent.members[k], A[k - 1])
  <2>1. k \in 0 .. N /\ k # 0
    BY ONLY <1>1, k \in 1 .. N
  <2> QED BY ONLY <2>1, <1>7
<1> DEFINE S == {k \in Nat : k <= N => A[k] \in V}
<1>10. \A k \in Nat : k \in S
  <2>1. 0 \in S
    BY <1>0, <1>8
  <2>2. ASSUME NEW k \in Nat, k \in S PROVE k + 1 \in S
    <3>1. CASE k + 1 <= N
      <4>1. k + 1 \in 1 .. N /\ (k + 1) - 1 = k /\ k <= N
        BY ONLY <3>1, <1>1, k \in Nat
      <4>2. A[k] \in V
        BY <4>1, <2>2
      <4>3. SaidBy(sent.members[k + 1], A[k]) \in V
        BY <4>1, <4>2, <1>11
      <4>4. A[k + 1] = SaidBy(sent.members[k + 1], A[k])
        BY <4>1, <1>9
      <4> QED BY <4>3, <4>4
    <3>2. CASE ~ (k + 1 <= N)
      BY <3>2
    <3> QED BY <3>1, <3>2
  <2> HIDE DEF S
  <2> QED BY <2>1, <2>2, Induction
<1>12. \A k \in 0 .. N : A[k] \in V
  BY <1>1, <1>10
<1>13. \A k \in 0 .. N : A[k].id \in Nat /\ A[k].method \in Seq(Signs)
  BY <1>12 DEF V
<1> QED BY <1>8, <1>9, <1>13

\* What stands behind the members up to one, in front of the next or the end.
GapAt(sent, k) == IF k < Len(sent.members) THEN sent.members[k + 1].gap ELSE sent.space

LEMMA GapFollows ==
  ASSUME NEW sent, WellFormed(sent), NEW N, N = Len(sent.members), NEW P, Laid(sent, N, P),
         NEW k \in 1 .. N
  PROVE  Following(GapAt(sent, k), P[k])
<1>1. N \in Nat /\ json \in Seq(Signs)
  BY DEF Laid
<1>2. Len(json) \in Nat
  BY <1>1, LenProperties
<1>3. CASE k < N
  <2>1. k + 1 \in 1 .. N /\ k + 1 \in 2 .. N /\ (k + 1) - 1 = k
    BY ONLY <1>1, <1>3, k \in 1 .. N
  <2>2. PICK m : m = sent.members[k + 1]
    OBVIOUS
  <2>3. m \in SentMember /\ Stands(MemberText(m), P[k])
    BY <2>1, <2>2 DEF Laid
  <2>4. PICK q, v : q = P[k] + Len(m.gap) /\ v = q + 2 + Len(m.key) + Len(m.colon)
    OBVIOUS
  <2>5. Stands(m.gap, P[k])
    <3>1. MemberAt(m, P[k], q, v)
      BY ONLY <1>2, <2>3, <2>4, MemberStands
    <3> QED BY <3>1 DEF MemberAt
  <2>6. m.gap \in Seq({" ", ","})
    BY <2>3, MemberIs DEF MemberParts
  <2>7. \E z \in 1 .. Len(m.gap) : m.gap[z] = ","
    <3>1. \A n \in 2 .. Len(sent.members) :
            \E z \in 1 .. Len(sent.members[n].gap) : sent.members[n].gap[z] = ","
      BY DEF WellFormed
    <3>2. k + 1 \in 2 .. Len(sent.members)
      BY <2>1
    <3> QED BY ONLY <3>1, <3>2, <2>2
  <2>8. GapAt(sent, k) = m.gap
    BY <1>3, <2>2 DEF GapAt
  <2> QED BY <2>5, <2>6, <2>7, <2>8 DEF Following
<1>4. CASE ~ (k < N)
  <2>1. k = N
    BY ONLY <1>1, <1>4, k \in 1 .. N
  <2>2. GapAt(sent, k) = sent.space
    BY <1>4 DEF GapAt
  <2>3. Stands(sent.space, P[N]) /\ sent.space \in Seq({" ", ","})
    BY SentIs DEF Laid
  <2>4. P[N] + Len(sent.space) = Len(json) \/ json[P[N] + Len(sent.space) + 1] = "}"
    <3>1. Stands(sent.rest, P[N] + Len(sent.space))
          /\ Len(json) = P[N] + Len(sent.space) + Len(sent.rest)
      BY DEF Laid
    <3>2. P[N] + Len(sent.space) \in Nat
      BY <3>1 DEF Stands
    <3>3. CASE sent.rest = << >>
      <4>1. PICK b : b = P[N] + Len(sent.space)
        OBVIOUS
      <4>2. Len(sent.rest) = 0
        BY ONLY <3>3, EmptySeq
      <4>3. b \in Nat /\ Len(json) = b + 0
        BY ONLY <3>1, <3>2, <4>1, <4>2
      <4>4. Len(json) = b
        BY ONLY <4>3
      <4> QED BY ONLY <4>1, <4>4
    <3>4. CASE sent.rest # << >>
      <4>1. sent.rest \in Seq(Signs)
        BY SentIs
      <4>2. 1 \in 1 .. Len(sent.rest)
        BY ONLY <4>1, <3>4
      <4>3. json[P[N] + Len(sent.space) + 1] = sent.rest[1]
        BY ONLY <4>2, <3>1 DEF Stands
      <4>4. sent.rest[1] = "}"
        BY <3>4 DEF WellFormed
      <4> QED BY <4>3, <4>4
    <3> QED BY <3>3, <3>4
  <2> QED BY <2>1, <2>2, <2>3, <2>4 DEF Following
<1> QED BY <1>3, <1>4

\* Behind the last member nothing more is read.
LEMMA Exhausted ==
  ASSUME NEW sent, WellFormed(sent), NEW N, N = Len(sent.members), NEW P, Laid(sent, N, P),
         NEW d \in 0 .. Len(sent.space), read = P[N] + d
  PROVE  ~ Reading /\ Has(0, "{")
<1>1. /\ json \in Seq(Signs) /\ json # << >> /\ json[1] = "{"
      /\ Stands(sent.space, P[N]) /\ Stands(sent.rest, P[N] + Len(sent.space))
      /\ Len(json) = P[N] + Len(sent.space) + Len(sent.rest)
  BY DEF Laid
<1>2. sent.space \in Seq({" ", ","}) /\ sent.rest \in Seq(Signs)
  BY SentIs
<1>3. PICK L, s, r, p : L = Len(json) /\ s = Len(sent.space) /\ r = Len(sent.rest) /\ p = P[N]
  OBVIOUS
<1>4. L \in Nat /\ s \in Nat /\ r \in Nat /\ p \in Nat /\ L = p + s + r /\ L # 0
  <2>1. Len(json) \in Nat /\ Len(sent.space) \in Nat /\ Len(sent.rest) \in Nat /\ Len(json) # 0
    BY ONLY <1>1, <1>2, LenProperties, EmptySeq
  <2>2. P[N] \in Nat
    BY <1>1 DEF Stands
  <2> QED BY ONLY <2>1, <2>2, <1>1, <1>3
<1>5. p + s = L \/ json[p + s + 1] = "}"
  <2>1. CASE sent.rest = << >>
    <3>1. r = 0
      BY ONLY <2>1, <1>3, EmptySeq
    <3> QED BY ONLY <3>1, <1>4
  <2>2. CASE sent.rest # << >>
    <3>1. sent.rest \in Seq(Signs)
      BY <1>2
    <3>2. 1 \in 1 .. Len(sent.rest)
      BY ONLY <3>1, <2>2
    <3>3. json[p + s + 1] = sent.rest[1]
      BY ONLY <3>2, <1>1, <1>3 DEF Stands
    <3>4. sent.rest[1] = "}"
      BY <2>2 DEF WellFormed
    <3> QED BY <3>3, <3>4
  <2> QED BY <2>1, <2>2
<1>6. Open = p + s
  <2>1. \A z \in d + 1 .. Len(sent.space) : sent.space[z] \in {" ", ","}
    <3>1. \A z \in 1 .. Len(sent.space) : sent.space[z] \in {" ", ","}
      BY <1>2, ElementOfSeq
    <3>a. d \in 0 .. s /\ s \in Nat
      BY <1>3, <1>4
    <3>2. \A z \in d + 1 .. s : z \in 1 .. s
      BY ONLY <3>a
    <3> QED BY ONLY <3>1, <3>2, <1>3
  <2>2. P[N] + Len(sent.space) = Len(json) \/ json[P[N] + Len(sent.space) + 1] \notin {" ", ","}
    BY <1>3, <1>5
  <2>3. Len(json) \in Nat
    BY <1>3, <1>4
  <2>4. Over(P[N] + d, {" ", ","}) = P[N] + Len(sent.space)
    BY ONLY <1>1, <2>1, <2>2, <2>3, OverText, d \in 0 .. Len(sent.space)
  <2> QED BY <2>4, <1>3 DEF Open
<1>7. End = L
  BY <1>3 DEF End
<1>8. ~ Reading
  <2>1. p + s = L => ~ (p + s < L)
    BY ONLY <1>4
  <2> QED BY <2>1, <1>5, <1>6, <1>7 DEF Reading, Symbol
<1>9. Has(0, "{")
  <2>1. 0 < L /\ 0 + 1 = 1
    BY ONLY <1>4
  <2> QED BY <2>1, <1>1, <1>7 DEF Has, Symbol
<1> QED BY <1>8, <1>9

\* Where the loop is in a command: between its members, with what they say.
Underway ==
  /\ reply = << >>
  /\ command.sent \in Commands /\ json = SentJson(command.sent)
  /\ \E k \in 0 .. Len(command.sent.members) : \E d \in 0 .. Len(GapAt(command.sent, k)) :
       /\ read = Len(JsonTo(command.sent)[k]) + d
       /\ cmd = Kept(SaidTo(command.sent)[k])

LEMMA UnderwayTurn ==
  ASSUME Underway, CdpNext
  PROVE  Underway' \/ (reply' # << >> /\ CommandUnderstood')
<1> PICK sent, N, T, P, A : sent = command.sent /\ N = Len(sent.members) /\ T = JsonTo(sent)
                            /\ P = [k \in 0 .. N |-> Len(T[k])] /\ A = SaidTo(sent)
  OBVIOUS
<1>1. WellFormed(sent) /\ json = SentJson(sent) /\ reply = << >>
  BY CommandAssumption DEF Underway
<1>2. Laid(sent, N, P)
  BY <1>1, JsonIs
<1>3. /\ A[0] = NothingSaid
      /\ \A k \in 1 .. N : A[k] = SaidBy(sent.members[k], A[k - 1])
      /\ \A k \in 0 .. N : A[k].id \in Nat /\ A[k].method \in Seq(Signs)
  BY <1>1, SaidIs
<1>4. PICK k \in 0 .. N : \E d \in 0 .. Len(GapAt(sent, k)) : read = P[k] + d /\ cmd = Kept(A[k])
  BY DEF Underway
<1>5. PICK d \in 0 .. Len(GapAt(sent, k)) : read = P[k] + d /\ cmd = Kept(A[k])
  BY <1>4
<1>n. N \in Nat /\ k \in 0 .. N
  BY <1>2 DEF Laid
<1>6. CASE k < N
  <2>1. k + 1 \in 1 .. N /\ (k + 1) - 1 = k /\ k + 1 \in 0 .. N
    BY ONLY <1>n, <1>6
  <2>2. PICK m : m = sent.members[k + 1]
    OBVIOUS
  <2>3. m \in SentMember /\ Stands(MemberText(m), P[k]) /\ P[k + 1] = P[k] + Len(MemberText(m))
    BY <2>1, <2>2, <1>2 DEF Laid
  <2>4. PICK q, v, e, g : /\ q = P[k] + Len(m.gap) /\ v = q + 2 + Len(m.key) + Len(m.colon)
                          /\ e = v + Len(ValueText(m)) /\ g = GapAt(sent, k + 1)
    OBVIOUS
  <2>5. json \in Seq(Signs) /\ json # << >> /\ json[1] = "{" /\ Len(json) \in Nat
    BY <1>2, LenProperties DEF Laid
  <2>6. MemberAt(m, P[k], q, v)
    BY ONLY <2>3, <2>4, <2>5, MemberStands
  <2>7. P[k + 1] = e
    <3>1. MemberParts(m)
      BY <2>3, MemberIs
    <3>2. PICK a, b, c, x, p : a = Len(m.gap) /\ b = Len(m.key) /\ c = Len(m.colon)
                               /\ x = Len(ValueText(m)) /\ p = P[k]
      OBVIOUS
    <3>3. x \in Nat /\ Len(MemberText(m)) = a + b + 2 + c + x
      BY <2>3, <3>2, MemberTextIs
    <3>4. a \in Nat /\ b \in Nat /\ c \in Nat
      BY <3>1, <3>2, LenProperties DEF MemberParts
    <3>5. p \in Nat
      BY <2>3, <3>2 DEF Stands
    <3>6. P[k + 1] = p + (a + b + 2 + c + x) /\ e = p + a + 2 + b + c + x
      BY <2>3, <2>4, <3>2, <3>3
    <3>7. x \in Nat
      BY <3>3
    <3> QED BY ONLY <3>4, <3>5, <3>6, <3>7
  <2>8. Following(g, e)
    BY <1>1, <1>2, <2>1, <2>4, <2>7, GapFollows
  <2>9. d \in 0 .. Len(m.gap)
    BY <1>6, <2>2 DEF GapAt
  <2>10. PICK said : said = A[k]
    OBVIOUS
  <2>11. /\ \E n \in 0 .. Len(g) : read' = e + n
         /\ cmd' = Kept(SaidBy(m, said)) /\ command' = command /\ reply' = reply
    <3>1. PICK p : p = P[k]
      OBVIOUS
    <3>2. read = p + d /\ cmd = Kept(said) /\ MemberAt(m, p, q, v)
      BY <3>1, <1>5, <2>6, <2>10
    <3>3. reply = << >> /\ m \in SentMember /\ e = v + Len(ValueText(m))
      BY <1>1, <2>3, <2>4
    <3>4. json \in Seq(Signs) /\ json # << >> /\ json[1] = "{"
      BY <2>5
    <3> QED BY ONLY <3>2, <3>3, <3>4, <2>8, <2>9, CdpNext, MemberTurn
  <2>12. PICK n \in 0 .. Len(g) : read' = e + n
    BY <2>11
  <2>13. cmd' = Kept(A[k + 1])
    BY <2>1, <2>2, <2>10, <2>11, <1>3
  <2>14. n \in 0 .. Len(GapAt(sent, k + 1)) /\ read' = Len(T[k + 1]) + n
    <3>1. P[k + 1] = Len(T[k + 1])
      BY <2>1
    <3> QED BY <3>1, <2>4, <2>7, <2>12
  <2>15. command'.sent = sent /\ json' = json /\ reply' = << >>
    BY <2>11, <1>1 DEF json
  <2>16. sent \in Commands
    BY DEF Underway
  <2>17. Underway'
    BY <2>1, <2>13, <2>14, <2>15, <2>16, <1>1 DEF Underway
  <2> QED BY <2>17
<1>7. CASE ~ (k < N)
  <2>1. k = N /\ N \in 0 .. N
    BY ONLY <1>n, <1>7
  <2>2. d \in 0 .. Len(sent.space) /\ read = P[N] + d
    BY <1>5, <1>7, <2>1 DEF GapAt
  <2>3. ~ Reading /\ Has(0, "{")
    BY ONLY <1>1, <1>2, <2>2, N = Len(sent.members), Exhausted
  <2>4. Reply
    BY <2>3 DEF CdpNext, ReadId, ReadMethod, ReadParams, SkipMember, SkipStray, AtMember
  <2>5. PICK said : said = A[N]
    OBVIOUS
  <2>6. said.id \in Nat /\ IdModulus \in Nat \ {0} /\ cmd = Kept(said)
    BY <1>3, <1>5, <2>1, <2>5, CommandAssumption
  <2>7. PICK id : id = said.id % IdModulus
    OBVIOUS
  <2>8. id > 0 <=> id # 0
    BY ONLY <2>6, <2>7
  <2>9. cmd.id = id /\ cmd.method = said.method /\ cmd.params = said.params
    BY <2>6, <2>7 DEF Kept
  <2>10. /\ reply' = IF id # 0 /\ said.method # << >> THEN <<id, Result(said.method)>> ELSE <<0, "error">>
         /\ cmd' = cmd /\ command' = command
    BY <2>3, <2>4, <2>8, <2>9 DEF Reply
  <2>11. reply' # << >>
    BY <2>10
  <2>12. CommandUnderstood'
    <3>1. SaidTo(command'.sent)[Len(command'.sent.members)] = said
      BY <2>5, <2>10
    <3>2. IF id = 0 \/ said.method = << >> THEN reply' = <<0, "error">>
          ELSE reply' = <<id, Result(said.method)>> /\ cmd'.params = said.params
      BY <2>9, <2>10
    <3> QED BY <3>1, <3>2, <2>7 DEF CommandUnderstood
  <2> QED BY <2>11, <2>12
<1> QED BY <1>6, <1>7

\* The scans stay in what came.
LEMMA ScansIn ==
  ASSUME Len(json) \in Nat, NEW n \in Nat, NEW set
  PROVE  Up(n, set) \in 0 .. End /\ Over(n, set) \in 0 .. End
<1>1. End \in Nat
  BY DEF End
<1> DEFINE S == {m \in n .. End : m = End \/ Symbol(m) \in set}
           R == {m \in n .. End : m = End \/ Symbol(m) \notin set}
<1>2. n >= End \/ End \in n .. End
  BY ONLY <1>1, n \in Nat
<1>3. CASE n >= End
  <2>1. Up(n, set) = End /\ Over(n, set) = End
    BY <1>3 DEF Up, Over
  <2>2. End \in 0 .. End
    BY ONLY <1>1
  <2> QED BY <2>1, <2>2
<1>4. CASE ~ (n >= End)
  <2>1. End \in S /\ End \in R
    BY <1>2, <1>4
  <2>2. n .. End \subseteq Nat
    BY ONLY <1>1, n \in Nat
  <2>3. S \in SUBSET Nat /\ S # {} /\ R \in SUBSET Nat /\ R # {} /\ S \subseteq n .. End /\ R \subseteq n .. End
    BY <2>1, <2>2
  <2>4. Min(S) \in S /\ Min(R) \in R
    <3> HIDE DEF S, R
    <3> QED BY <2>3, MinOf
  <2>5. \A m \in n .. End : m \in 0 .. End
    BY ONLY <1>1, n \in Nat
  <2>6. Min(S) \in 0 .. End /\ Min(R) \in 0 .. End
    <3> HIDE DEF S, R
    <3> QED BY <2>3, <2>4, <2>5
  <2> QED BY <2>6, <1>4 DEF Up, Over
<1> QED BY <1>3, <1>4

LEMMA EndsIn ==
  ASSUME Len(json) \in Nat, NEW n \in Nat
  PROVE  Closed(n) \in Nat /\ (n < End => BraceEnd(n) \in Nat)
<1>1. End \in Nat
  BY DEF End
<1>2. Up(n, {Quote}) \in Nat
  <2>1. Up(n, {Quote}) \in 0 .. End
    BY ScansIn
  <2> QED BY ONLY <1>1, <2>1
<1>3. Closed(n) \in Nat
  <2>1. {Up(n, {Quote}) + 1, End} \in SUBSET Nat /\ {Up(n, {Quote}) + 1, End} # {}
    BY <1>1, <1>2
  <2>2. Min({Up(n, {Quote}) + 1, End}) \in {Up(n, {Quote}) + 1, End}
    BY ONLY <2>1, MinOf
  <2> QED BY <2>1, <2>2 DEF Closed
<1>4. ASSUME n < End PROVE BraceEnd(n) \in Nat
  <2> DEFINE S == {m \in n + 1 .. End : m = End \/ LeftOpen(Text(n, End), m - n) = 0}
  <2>1. n + 1 .. End \subseteq Nat /\ End \in n + 1 .. End
    BY ONLY <1>1, <1>4, n \in Nat
  <2>2. S \in SUBSET Nat /\ S # {}
    BY <2>1
  <2>3. Min(S) \in S
    <3> HIDE DEF S
    <3> QED BY <2>2, MinOf
  <2> QED BY <2>2, <2>3 DEF BraceEnd
<1> QED BY <1>3, <1>4

\* A text without the word method has no key method.
LEMMA NoMethod ==
  ASSUME json \in Seq(Signs), NEW from \in Nat, NEW to \in 0 .. Len(json), NEW word,
         Text(from, to) = <<word>>
  PROVE  \E n \in 1 .. Len(json) : json[n] = word
<1>1. PICK L \in Nat : L = Len(json)
  BY LenProperties
<1>n. L \in Nat /\ from \in Nat /\ to \in 0 .. L
  BY <1>1
<1>2. Len(Text(from, to)) = 1 /\ Text(from, to)[1] = word
  OBVIOUS
<1>3. \A z \in from + 1 .. to : json[z] \in Signs
  <2>1. \A z \in from + 1 .. to : z \in 1 .. L
    BY ONLY <1>n
  <2>2. \A z \in 1 .. L : json[z] \in Signs
    BY <1>1, ElementOfSeq
  <2> QED BY ONLY <2>1, <2>2
<1>4. from + 1 \in Int /\ to \in Int
  BY ONLY <1>n
<1>5. Len(SubSeq(json, from + 1, to)) = IF from + 1 <= to THEN to - (from + 1) + 1 ELSE 0
  BY ONLY <1>3, <1>4, SubSeqProperties
<1>6. Len(SubSeq(json, from + 1, to)) = 1
  BY <1>2 DEF Text
<1>7. to = from + 1 /\ from + 1 \in 1 .. L /\ 1 \in 1 .. to - from
  BY ONLY <1>n, <1>5, <1>6
<1>8. SubSeq(json, from + 1, to)[1] = json[from + 1]
  <2>1. to \in Nat /\ to <= Len(json)
    BY <1>1, <1>7
  <2> QED BY ONLY <2>1, <1>7, json \in Seq(Signs), from \in Nat, StretchAt
<1>9. json[from + 1] = word
  BY <1>2, <1>8 DEF Text
<1> QED BY <1>1, <1>7, <1>9

\* A text that is no command: nothing is ever read that names a method.
Idle ==
  /\ reply = << >> /\ command.sent = NoMembers /\ NoCommand(json) /\ read \in Nat
  /\ \E id, params : cmd = [id |-> id, method |-> << >>, params |-> params]

LEMMA NothingUnderstood ==
  /\ WellFormed(NoMembers) /\ Len(NoMembers.members) = 0
  /\ SaidTo(NoMembers)[0] = NothingSaid
<1>1. Len(NoMembers.members) = 0
  BY EmptySeq DEF NoMembers
<1>2. WellFormed(NoMembers)
  <2>1. << >> \in Seq(SentMember) /\ << >> \in Seq({" ", ","}) /\ << >> \in Seq(Signs)
    BY EmptySeq
  <2>2. 2 .. Len(NoMembers.members) = {}
    <3>1. 2 .. 0 = {}
      OBVIOUS
    <3> QED BY ONLY <3>1, <1>1
  <2> QED BY <2>1, <2>2 DEF WellFormed, NoMembers
<1>3. SaidTo(NoMembers)[0] = NothingSaid
  BY ONLY <1>2, SaidIs
<1> QED BY <1>1, <1>2, <1>3

LEMMA IdleTurn ==
  ASSUME Idle, CdpNext
  PROVE  Idle' \/ (reply' # << >> /\ CommandUnderstood')
<1>1. json \in Seq(Signs) /\ Len(json) \in Nat /\ read \in Nat
  <2>1. json \in Seq(Signs) /\ read \in Nat
    BY DEF Idle, NoCommand
  <2> QED BY <2>1, LenProperties
<1>e. End \in Nat /\ End = Len(json)
  BY <1>1 DEF End
<1>2. PICK id, params : cmd = [id |-> id, method |-> << >>, params |-> params]
  BY DEF Idle
<1>3. Open \in Nat /\ Open + 1 \in Nat
  <2>1. Open \in 0 .. End
    BY <1>1, ScansIn DEF Open
  <2> QED BY ONLY <2>1, <1>e
<1>4. Value \in Nat
  <2>1. Closed(Open + 1) \in Nat
    BY <1>1, <1>3, EndsIn
  <2>2. Value \in 0 .. End
    BY <1>1, <2>1, ScansIn DEF Value
  <2> QED BY ONLY <2>2, <1>e
<1>v. Value + 1 \in Nat
  BY ONLY <1>4
<1>5. Closed(Value + 1) \in Nat
  BY <1>1, <1>v, EndsIn
<1>6. ASSUME NEW n \in Nat, NEW set PROVE Up(n, set) \in Nat /\ Over(n, set) \in Nat
  <2>1. Up(n, set) \in 0 .. End /\ Over(n, set) \in 0 .. End
    BY <1>1, ScansIn
  <2> QED BY ONLY <2>1, <1>e
<1>7. ASSUME command' = command, reply' = reply, read' \in Nat,
             \E z, p : cmd' = [id |-> z, method |-> << >>, params |-> p]
      PROVE  Idle'
  BY <1>7 DEF Idle, json
<1>8. CASE ReadId
  <2>1. cmd' = [cmd EXCEPT !.id = Number(Value)]
    BY <1>8 DEF ReadId
  <2>2. cmd' = [id |-> Number(Value), method |-> << >>, params |-> params]
    BY <2>1, <1>2
  <2>3. read' \in Nat
    BY <1>4, <1>6, <1>8 DEF ReadId
  <2> QED BY <2>2, <2>3, <1>7, <1>8 DEF ReadId
<1>9. CASE ReadMethod
  <2>1. Has(0, "{") /\ Key = <<"method">>
    BY <1>9 DEF ReadMethod, AtMember, Reading
  <2>2. Up(Open + 1, {Quote}) \in 0 .. Len(json)
    BY <1>1, <1>3, <1>e, ScansIn
  <2>3. Text(Open + 1, Up(Open + 1, {Quote})) = <<"method">>
    BY <2>1 DEF Key
  <2>4. \E n \in 1 .. Len(json) : json[n] = "method"
    BY ONLY <1>1, <1>3, <2>2, <2>3, NoMethod
  <2>5. 0 < Len(json) /\ json[1] = "{"
    <3>1. 0 + 1 = 1
      OBVIOUS
    <3> QED BY <2>1, <3>1, <1>e DEF Has, Symbol
  <2>6. json # << >>
    <3>0. 0 < Len(json)
      BY <2>5
    <3>1. Len(json) # 0
      BY ONLY <3>0, <1>1
    <3> QED BY ONLY <3>1, EmptySeq
  <2> QED BY <2>4, <2>5, <2>6 DEF Idle, NoCommand
<1>10. CASE ReadParams
  <2>1. CASE Has(Value, "{")
    <3>1. cmd' = [cmd EXCEPT !.params = Text(Value, BraceEnd(Value))] /\ read' = BraceEnd(Value)
      BY <2>1, <1>10 DEF ReadParams
    <3>2. cmd' = [id |-> id, method |-> << >>, params |-> Text(Value, BraceEnd(Value))]
      BY <3>1, <1>2
    <3>3. read' \in Nat
      BY <2>1, <3>1, <1>1, <1>4, EndsIn DEF Has
    <3> QED BY <3>2, <3>3, <1>7, <1>10 DEF ReadParams
  <2>2. CASE ~ Has(Value, "{")
    BY <2>2, <1>2, <1>4, <1>7, <1>10 DEF ReadParams
  <2> QED BY <2>1, <2>2
<1>11. CASE SkipMember
  <2>1. read' \in Nat
    BY <1>4, <1>5, <1>6, <1>11 DEF SkipMember
  <2> QED BY <2>1, <1>2, <1>7, <1>11 DEF SkipMember
<1>12. CASE SkipStray
  BY <1>2, <1>3, <1>7, <1>12 DEF SkipStray
<1>13. CASE Reply
  <2>1. reply' = <<0, "error">> /\ command' = command
    <3>1. cmd.method = << >>
      BY <1>2
    <3> QED BY <3>1, <1>13 DEF Reply
  <2>2. SaidTo(command'.sent)[Len(command'.sent.members)] = NothingSaid
    BY <2>1, NothingUnderstood DEF Idle
  <2>3. CommandUnderstood'
    BY <2>1, <2>2 DEF CommandUnderstood, NothingSaid
  <2> QED BY <2>1, <2>3
<1> QED BY <1>8, <1>9, <1>10, <1>11, <1>12, <1>13 DEF CdpNext

\* Either a command is under way, or there is none, or the reply is given.
CdpInv == IF reply = << >> THEN Underway \/ Idle ELSE CommandUnderstood

\* A command whose members come in any order, with blanks and with members the
\* program does not know among them, is understood, for every such command of
\* any length, every key and value, and every width of an id (parse, dispatch).
\* The members that are not known are quoted or have no comma and no closing
\* brace (WellFormed).  A text without a method is an error.
THEOREM CommandUnderstoodAlways == CdpSpec => []CommandUnderstood
<1>1. CdpInit => CdpInv
  <2> SUFFICES ASSUME CdpInit PROVE Underway \/ Idle
    BY DEF CdpInit, CdpInv
  <2>1. reply = << >> /\ cmd = NothingSaid /\ read = 1
    BY DEF CdpInit
  <2>2. CASE \E sent \in Commands : command = [sent |-> sent, json |-> SentJson(sent)]
    <3>1. PICK sent \in Commands : command = [sent |-> sent, json |-> SentJson(sent)]
      BY <2>2
    <3>2. PICK N, P : N = Len(sent.members) /\ P = [k \in 0 .. N |-> Len(JsonTo(sent)[k])]
      OBVIOUS
    <3>3. WellFormed(sent) /\ json = SentJson(sent) /\ command.sent = sent
      BY <3>1, CommandAssumption DEF json
    <3>4. Laid(sent, N, P)
      BY <3>2, <3>3, JsonIs
    <3>5. 0 \in 0 .. N /\ N \in Nat
      <4>1. N \in Nat
        BY <3>4 DEF Laid
      <4> QED BY ONLY <4>1
    <3>6. Len(JsonTo(sent)[0]) = 1
      BY <3>2, <3>4, <3>5 DEF Laid
    <3>7. 0 \in 0 .. Len(GapAt(sent, 0))
      <4>1. GapAt(sent, 0) \in Seq(Signs)
        <5>1. CASE 0 < N
          <6>1. 0 + 1 \in 1 .. N
            BY ONLY <5>1, <3>5
          <6>2. sent.members[0 + 1] \in SentMember
            BY <6>1, <3>2, <3>3, SentIs
          <6>3. sent.members[0 + 1].gap \in Seq(Signs)
            BY <6>2, MemberIs DEF MemberParts
          <6> QED BY <5>1, <6>3, <3>2 DEF GapAt
        <5>2. CASE ~ (0 < N)
          BY <5>2, <3>2, <3>3, SentIs DEF GapAt
        <5> QED BY <5>1, <5>2
      <4>2. Len(GapAt(sent, 0)) \in Nat
        BY ONLY <4>1, LenProperties
      <4> QED BY ONLY <4>2
    <3>8. cmd = Kept(SaidTo(sent)[0])
      <4>1. SaidTo(sent)[0] = NothingSaid
        BY ONLY <3>3, SaidIs
      <4>2. 0 % IdModulus = 0
        <5>1. IdModulus \in Nat \ {0}
          BY CommandAssumption
        <5> QED BY ONLY <5>1
      <4> QED BY <4>1, <4>2, <2>1 DEF Kept, NothingSaid
    <3>9. read = Len(JsonTo(sent)[0]) + 0
      BY ONLY <2>1, <3>6
    <3>10. command.sent \in Commands /\ json = SentJson(command.sent)
           /\ 0 \in 0 .. Len(command.sent.members) /\ 0 \in 0 .. Len(GapAt(command.sent, 0))
           /\ read = Len(JsonTo(command.sent)[0]) + 0 /\ cmd = Kept(SaidTo(command.sent)[0])
      BY <3>1, <3>2, <3>3, <3>5, <3>7, <3>8, <3>9
    <3> QED BY ONLY <2>1, <3>10 DEF Underway
  <2>3. CASE \E text \in Others : command = [sent |-> NoMembers, json |-> text]
    <3>1. PICK text \in Others : command = [sent |-> NoMembers, json |-> text]
      BY <2>3
    <3>2. NoCommand(json) /\ command.sent = NoMembers
      BY <3>1, CommandAssumption DEF json
    <3> QED BY <2>1, <3>2 DEF Idle, NothingSaid
  <2> QED BY <2>2, <2>3 DEF CdpInit
<1>2. CdpInv /\ [CdpNext]_cdpVars => CdpInv'
  <2> SUFFICES ASSUME CdpInv, [CdpNext]_cdpVars PROVE CdpInv'
    OBVIOUS
  <2>1. CASE CdpNext
    <3>1. reply = << >>
      BY <2>1 DEF CdpNext, ReadId, ReadMethod, ReadParams, SkipMember, SkipStray, AtMember,
                  Reading, Reply
    <3>2. CASE Underway
      <4>1. Underway' \/ (reply' # << >> /\ CommandUnderstood')
        BY <3>2, <2>1, UnderwayTurn
      <4>2. Underway' => reply' = << >>
        BY DEF Underway
      <4> QED BY <4>1, <4>2 DEF CdpInv
    <3>3. CASE Idle
      <4>1. Idle' \/ (reply' # << >> /\ CommandUnderstood')
        BY <3>3, <2>1, IdleTurn
      <4>2. Idle' => reply' = << >>
        BY DEF Idle
      <4> QED BY <4>1, <4>2 DEF CdpInv
    <3> QED BY <3>1, <3>2, <3>3 DEF CdpInv
  <2>2. CASE UNCHANGED cdpVars
    BY <2>2 DEF cdpVars, CdpInv, Underway, Idle, CommandUnderstood, Replied, json
  <2> QED BY <2>1, <2>2
<1>3. CdpInv => CommandUnderstood
  BY DEF CdpInv, CommandUnderstood, Replied
<1> QED BY <1>1, <1>2, <1>3, PTL DEF CdpSpec
=============================================================================

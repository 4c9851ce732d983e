---------------------------- MODULE Highlighter ----------------------------
(***************************************************************************)
(* SyntaxHighlighterEngine::tokenize_code (syntax_highlighter.h): the      *)
(* marks the code view colours, kept in a buffer that each call starts     *)
(* from its beginning.  A step is one turn of the loop.                    *)
(*                                                                         *)
(* After a comment or a quoted text of several lines current_col counts    *)
(* all of it, not only its last line.                                      *)
(***************************************************************************)
EXTENDS CodeText

CONSTANTS
  ShownKeywords,   (* the words is_keyword knows: not the lexer's          *)
  Operators,       (* + - * / = and the like                               *)
  MaxMarks         (* size of token_buffer (50000)                         *)

VARIABLES
  idx, currentLine, currentCol,
  marks            (* token_buffer: [type, from, length, line, column]     *)

highlighterVars == <<idx, currentLine, currentCol, marks>>

----------------------------------------------------------------------------
HighlighterInit ==
  /\ idx = 0 /\ currentLine = 1 /\ currentCol = 1
  /\ marks = << >>

Marking == idx < CodeEnd /\ Len(marks) < MaxMarks

\* The loops that look for the end of a line comment, a comment and a quoted
\* text: from n on, with stop what ends the last.
LineFrom[n \in 0 .. CodeEnd] ==
  IF n = CodeEnd \/ Is(n, Newline) THEN n ELSE LineFrom[n + 1]

BlockFrom[n \in 0 .. CodeEnd] ==
  IF n + 1 >= CodeEnd THEN n
  ELSE IF Is(n, "*") /\ Is(n + 1, "/") THEN n + 2
  ELSE BlockFrom[n + 1]

\* Slip: a backslash does not take the next character with it.
QuotedUnescaped(quote, start) ==
  LET from[n \in 0 .. CodeEnd] ==
        IF n = CodeEnd THEN n ELSE IF Char(n) = quote THEN n + 1 ELSE from[n + 1]
  IN from[start]

Quoted(quote, start) ==
  LET from[n \in 0 .. CodeEnd] ==
        IF n = CodeEnd THEN n
        ELSE IF Char(n) = quote THEN n + 1
        ELSE IF Char(n) = "\\" /\ n + 1 < CodeEnd THEN from[n + 2]
        ELSE from[n + 1]
  IN from[start]

Run(start, set) ==
  LET from[n \in 0 .. CodeEnd] ==
        IF n < CodeEnd /\ Char(n) \in set THEN from[n + 1] ELSE n
  IN from[start]

\* A mark up to end, on the line and in the column it begins in.
Mark(type, end) ==
  LET feeds == {m \in idx .. end - 1 : Char(m) = Newline} IN
  /\ marks' = Append(marks, [type |-> type, from |-> idx, length |-> end - idx,
                             line |-> currentLine, column |-> currentCol])
  /\ idx' = end
  /\ currentLine' = currentLine + Cardinality(feeds)
  /\ currentCol' = (IF feeds = {} THEN currentCol ELSE 1) + (end - idx)

SkipBlank ==
  /\ Marking /\ Char(idx) \in Blanks \union {Newline}
  /\ idx' = idx + 1
  /\ currentLine' = IF Char(idx) = Newline THEN currentLine + 1 ELSE currentLine
  /\ currentCol' = IF Char(idx) = Newline THEN 1 ELSE currentCol + 1
  /\ UNCHANGED marks

MarkLineComment == Marking /\ Is(idx, "/") /\ Is(idx + 1, "/") /\ Mark("COMMENT", LineFrom[idx])

MarkBlockComment == Marking /\ Is(idx, "/") /\ Is(idx + 1, "*") /\ Mark("COMMENT", BlockFrom[idx + 2])

MarkString == Marking /\ Char(idx) \in Quotes /\ Mark("STRING", Quoted(Char(idx), idx + 1))

MarkNumber == Marking /\ Char(idx) \in Digits /\ Mark("NUMBER", Run(idx, Digits \union NumberSigns))

MarkWord ==
  LET end == Run(idx, Letters \union Digits)
      word == SubSeq(code, idx + 1, end)
  IN Marking /\ Char(idx) \in Letters
     /\ Mark(IF word \in ShownKeywords THEN "KEYWORD" ELSE "IDENTIFIER", end)

MarkSign ==
  /\ Marking
  /\ Char(idx) \notin Blanks \union {Newline} \union Quotes \union Digits \union Letters
  /\ ~ (Is(idx, "/") /\ (Is(idx + 1, "/") \/ Is(idx + 1, "*")))
  /\ Mark(IF Char(idx) \in Operators THEN "OPERATOR" ELSE "PUNCTUATION", idx + 1)

HighlighterNext ==
  /\ \/ SkipBlank \/ MarkLineComment \/ MarkBlockComment
     \/ MarkString \/ MarkNumber \/ MarkWord \/ MarkSign
  /\ UNCHANGED code
============================================================================

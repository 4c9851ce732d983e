------------------------------ MODULE Scanners ------------------------------
(***************************************************************************)
(* The two scanners on one code: the page has the lexer's tokens           *)
(* (js_tokenize) and colours the code with the highlighter's marks         *)
(* (highlighter_tokenize_code).                                            *)
(***************************************************************************)
EXTENDS JsLexer, Highlighter

\* The first character of a piece says what it is.
ASSUME ScannersAssumption ==
  /\ Blanks \intersect (Quotes \union Digits \union Letters) = {}
  /\ Quotes \intersect (Digits \union Letters) = {}
  /\ Digits \intersect Letters = {}
  /\ "/" \notin Blanks \union Quotes \union Digits \union Letters
  /\ "\\" \notin Quotes
  /\ MaxMarks \in Nat

scannerVars == <<code, lexerVars, highlighterVars>>

ScannersInit == code \in Codes /\ LexerInit /\ HighlighterInit

\* One call after the other.
ScannersNext ==
  \/ LexerNext /\ UNCHANGED highlighterVars
  \/ ~ Lexing /\ HighlighterNext /\ UNCHANGED lexerVars

ScannersSpec == ScannersInit /\ [][ScannersNext]_scannerVars

Scanned == ~ Lexing /\ ~ Marking

\* The mark a token is shown as.
ShownAs(token) ==
  LET text == SubSeq(code, token.from + 1, token.from + token.length) IN
  CASE token.type = "Comment" -> "COMMENT"
    [] token.type = "StringLiteral" -> "STRING"
    [] token.type = "NumericLiteral" -> "NUMBER"
    [] token.type = "Punctuator" -> IF text[1] \in Operators THEN "OPERATOR" ELSE "PUNCTUATION"
    [] OTHER -> IF text \in ShownKeywords THEN "KEYWORD" ELSE "IDENTIFIER"

\* Those shown of the first k tokens: all but the blanks.
Shown[k \in 0 .. Len(tokens)] ==
  IF k = 0 THEN << >>
  ELSE IF tokens[k].type = "Whitespace" THEN Shown[k - 1]
  ELSE Append(Shown[k - 1], tokens[k])

Feeds(from, length) == {m \in from .. from + length - 1 : Char(m) = Newline}

\* A comment or quoted text of several lines ends on the line mark n is on.
BehindBlock(n) ==
  \E k \in 1 .. n - 1 :
    LET feeds == Feeds(marks[k].from, marks[k].length) IN
    feeds # {} /\ marks[k].line + Cardinality(feeds) = marks[n].line

\* Two scanners written apart cut every code into the same pieces, however
\* comments, quoted texts and backslashes are mixed and wherever the code
\* breaks off: the marks are the lexer's tokens without the blanks, in place
\* and kind, as far as either buffer reaches.  A mark is on the line its token
\* begins on, and in the same column except right behind a block of several
\* lines.
ScannersAgree ==
  Scanned =>
    LET shown == Shown[Len(tokens)]
        common == Min({Len(shown), Len(marks)})
    IN /\ Len(tokens) < MaxTokens /\ Len(marks) < MaxMarks => Len(shown) = Len(marks)
       /\ \A n \in 1 .. common :
            LET t == shown[n]
                m == marks[n]
            IN /\ m.from = t.from /\ m.length = t.length
               /\ m.type = ShownAs(t)
               /\ ~ Continued =>
                    /\ m.line = t.line - Cardinality(Feeds(t.from, t.length))
                    /\ BehindBlock(n) \/ m.column = t.column
============================================================================

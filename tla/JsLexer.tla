------------------------------ MODULE JsLexer ------------------------------
(***************************************************************************)
(* JSLexer::tokenize (js_lexer.h): a code cut into tokens with their       *)
(* places.  A step is one token.                                           *)
(*                                                                         *)
(* The rules are the code's: quoted text may span lines whatever the       *)
(* quote, a slash outside comments is a punctuator, and a comment that is  *)
(* not closed leaves out the last character.  An empty code returns at     *)
(* once and leaves the page's summary as it was.                           *)
(***************************************************************************)
EXTENDS CodeText

CONSTANTS
  Keywords,     (* the words is_keyword knows                              *)
  Counted,      (* keyword -> the member of the summary that counts it     *)
  MaxTokens     (* room the page gives for tokens                          *)

ASSUME JsLexerAssumption == MaxTokens \in Nat

VARIABLES
  at,           (* i                                                       *)
  line, col,
  tokens,       (* [type, from, length, line, column]                      *)
  counts        (* the summary's counts                                    *)

lexerVars == <<at, line, col, tokens, counts>>

----------------------------------------------------------------------------
LexerInit ==
  /\ at = 0 /\ line = 1 /\ col = 1
  /\ tokens = << >>
  /\ counts = [f \in {Counted[word] : word \in DOMAIN Counted} |-> 0]

Lexing == at < CodeEnd /\ Len(tokens) < MaxTokens

\* The first offset from n on whose character is in, or not in, a set.
To(n, set) == Min({m \in n .. CodeEnd : m = CodeEnd \/ Char(m) \in set})
Past(n, set) == Min({m \in n .. CodeEnd : m = CodeEnd \/ Char(m) \notin set})

\* Where a comment that begins at n ends.
BlockEnd(n) ==
  LET last == Min({m \in n + 2 .. CodeEnd :
                     m + 1 >= CodeEnd \/ (Is(m, "*") /\ Is(m + 1, "/"))})
  IN IF last + 1 < CodeEnd THEN last + 2 ELSE last

\* In quoted text from n on, m is escaped: an odd number of backslashes is
\* right before it.
Escaped(n, m) == (m - 1 - Max({k \in n .. m - 1 : k = n \/ Char(k) # "\\"})) % 2 = 1

\* Behind the closing quote, or at the end of the code.
StringEnd(n) ==
  LET closing == {m \in n + 1 .. CodeEnd - 1 : Char(m) = Char(n) /\ ~ Escaped(n, m)}
  IN IF closing = {} THEN CodeEnd ELSE Min(closing) + 1

\* A token up to end, in which the line feeds at breaks are counted.  Its line
\* is the one it ends on, its column the one it begins in.
Emit(type, end, breaks) ==
  /\ line' = line + Cardinality(breaks)
  /\ col' = IF breaks = {} THEN col + (end - at) ELSE end - Max(breaks)
  /\ at' = end
  /\ tokens' = Append(tokens, [type |-> type, from |-> at, length |-> end - at,
                               line |-> line', column |-> col])

\* Slip: the first character of a token is taken to be no line feed.
BreaksWithin(end) == {m \in at + 1 .. end - 1 : Char(m) = Newline}

BreaksTo(end) == {m \in at .. end - 1 : Char(m) = Newline}

LexBlank ==
  LET end == Past(at, Blanks \union {Newline}) IN
  /\ Lexing /\ Char(at) \in Blanks \union {Newline}
  /\ Emit("Whitespace", end, BreaksTo(end))
  /\ UNCHANGED counts

AtComment(sign) == Char(at) = "/" /\ Is(at + 1, sign)

LexLineComment ==
  /\ Lexing /\ AtComment("/")
  /\ Emit("Comment", To(at, {Newline}), {})
  /\ UNCHANGED counts

LexBlockComment ==
  /\ Lexing /\ AtComment("*")
  /\ Emit("Comment", BlockEnd(at), BreaksTo(BlockEnd(at)))
  /\ UNCHANGED counts

\* A line feed behind a backslash is skipped without being counted.
LexString ==
  LET end == StringEnd(at) IN
  /\ Lexing /\ Char(at) \in Quotes
  /\ Emit("StringLiteral", end, {m \in BreaksTo(end) : ~ Escaped(at, m)})
  /\ UNCHANGED counts

LexNumber ==
  /\ Lexing /\ Char(at) \in Digits
  /\ Emit("NumericLiteral", Past(at, Digits \union NumberSigns), {})
  /\ UNCHANGED counts

LexWord ==
  LET end == Past(at, Letters \union Digits)
      word == SubSeq(code, at + 1, end)
  IN /\ Lexing /\ Char(at) \in Letters
     /\ Emit(IF word \in Keywords THEN "Keyword" ELSE "Identifier", end, {})
     /\ counts' = IF word \in DOMAIN Counted
                  THEN [counts EXCEPT ![Counted[word]] = @ + 1] ELSE counts

LexPunctuator ==
  /\ Lexing /\ ~ AtComment("/") /\ ~ AtComment("*")
  /\ Char(at) \notin Blanks \union {Newline} \union Quotes \union Digits \union Letters
  /\ Emit("Punctuator", at + 1, {})
  /\ UNCHANGED counts

LexerNext ==
  /\ \/ LexBlank \/ LexLineComment \/ LexBlockComment
     \/ LexString \/ LexNumber \/ LexWord \/ LexPunctuator
  /\ UNCHANGED code

LexerSpec == code \in Codes /\ LexerInit /\ [][LexerNext]_<<code, lexerVars>>

----------------------------------------------------------------------------
\* A backslash at the end of a line: inside quotes such a line is not counted.
Continued == \E n \in 0 .. CodeEnd - 2 : Char(n) = "\\" /\ Char(n + 1) = Newline

LinesBefore(n) == {m \in 0 .. n - 1 : Char(m) = Newline}

\* The tokens are the code, with nothing between them, none empty and nothing
\* left out while there is room; each column is that of the token's beginning
\* and each line that of its end, whatever comments, quoted texts and blank
\* lines there are before it.
TokensTile ==
  /\ \A k \in DOMAIN tokens :
       LET t == tokens[k]
           end == t.from + t.length
           before == LinesBefore(t.from)
       IN /\ t.length > 0
          /\ end = IF k = Len(tokens) THEN at ELSE tokens[k + 1].from
          /\ k = 1 => t.from = 0
          /\ ~ Continued =>
               /\ t.line = 1 + Cardinality(LinesBefore(end))
               /\ t.column = IF before = {} THEN t.from + 1 ELSE t.from - Max(before)
  /\ ~ Lexing => at = CodeEnd \/ Len(tokens) = MaxTokens
============================================================================

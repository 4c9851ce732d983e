----------------------------- MODULE RawHeaders -----------------------------
(***************************************************************************)
(* parse_raw_response_headers of NetworkEngine (network.h): a response's   *)
(* head cut into headers, each of which Network's AddHeader adds.          *)
(*                                                                         *)
(* A character is a symbol, and so is a word; HTTP stands for the four     *)
(* letters that are looked for.  A step is one line.                       *)
(***************************************************************************)
EXTENDS Integers, Sequences, FiniteSets, FiniteSetsExt

CONSTANTS
  Symbols,        (* what texts are made of                                *)
  Heads           (* heads as they are sent: [status, lines, rest]         *)

CR == "return"
LF == "feed"
Colon == "colon"
Blank == "blank"

\* A line that is sent, with its end: a header, or some words without a colon.
SentLine ==
  {line \in [name : Seq(Symbols \ {CR, LF, Colon}), colon : BOOLEAN, pad : Seq({Blank}),
             value : Seq(Symbols \ {CR, LF}), end : {<<LF>>, <<CR, LF>>, << >>}] :
     /\ line.colon \/ line.name # << >>
     /\ line.value = << >> \/ line.value[1] # Blank}

SentContent(line) ==
  line.name \o IF line.colon THEN <<Colon>> \o line.pad \o line.value ELSE << >>

\* The text up to each of the lines, and the headers among them.
TextTo(sent) ==
  LET text[k \in 0 .. Len(sent.lines)] ==
        IF k = 0 THEN sent.status
        ELSE text[k - 1] \o SentContent(sent.lines[k]) \o sent.lines[k].end
  IN text
HeadersTo(sent) ==
  LET headers[k \in 0 .. Len(sent.lines)] ==
        IF k = 0 THEN << >>
        ELSE IF sent.lines[k].colon
             THEN Append(headers[k - 1], <<sent.lines[k].name, sent.lines[k].value>>)
             ELSE headers[k - 1]
  IN headers

SentText(sent) == TextTo(sent)[Len(sent.lines)] \o sent.rest

\* The status line is there or not, a line whose end is missing is the last,
\* and what follows the lines begins with an empty one.
WellSent(sent) ==
  /\ sent.status \in Seq(Symbols) /\ sent.lines \in Seq(SentLine) /\ sent.rest \in Seq(Symbols)
  /\ IF sent.status = << >>
     THEN sent.lines = << >> \/ sent.lines[1].name = << >> \/ sent.lines[1].name[1] # "HTTP"
     ELSE /\ Len(sent.status) > 1 /\ sent.status[1] = "HTTP"
          /\ \A n \in 1 .. Len(sent.status) - 1 : sent.status[n] # LF
          /\ sent.status[Len(sent.status)] = LF \/ (sent.lines = << >> /\ sent.rest = << >>)
  /\ \A n \in 1 .. Len(sent.lines) :
       sent.lines[n].end = << >> => n = Len(sent.lines) /\ sent.rest = << >>
  /\ \/ sent.rest = << >>
     \/ sent.rest[1] = LF
     \/ Len(sent.rest) > 1 /\ sent.rest[1] = CR /\ sent.rest[2] = LF

ASSUME HeadAssumption ==
  /\ {CR, LF, Colon, Blank, "HTTP"} \subseteq Symbols
  /\ \A sent \in Heads : WellSent(sent)

VARIABLES
  head,           (* what came: [sent, raw]                                *)
  pos,            (* i                                                     *)
  added,          (* <<name, value>> as they are added                     *)
  ended           (* the loop was left                                     *)

headVars == <<head, pos, added, ended>>

raw == head.raw
SymbolAt(n) == raw[n + 1]
Piece(from, to) == SubSeq(raw, from + 1, to)

----------------------------------------------------------------------------
LineEnd(n) == Min({m \in n .. Len(raw) : m = Len(raw) \/ SymbolAt(m) = LF})
NextLine(n) == IF LineEnd(n) < Len(raw) THEN LineEnd(n) + 1 ELSE LineEnd(n)

\* A head that begins with HTTP and goes on: its first line is left out.
HasStatus == Len(raw) > 1 /\ SymbolAt(0) = "HTTP"

HeadInit ==
  /\ \E sent \in Heads : head = [sent |-> sent, raw |-> SentText(sent)]
  /\ pos = IF HasStatus THEN NextLine(0) ELSE 0
  /\ added = << >>
  /\ ended = FALSE

\* Slip: the carriage return stays at the end of a line.
ContentEndWithCR(n) == LineEnd(n)

\* The end of the line from n on without the carriage return before it.
ContentEnd(n) ==
  IF LineEnd(n) > n /\ SymbolAt(LineEnd(n) - 1) = CR THEN LineEnd(n) - 1 ELSE LineEnd(n)

Colons(n) == {m \in n .. ContentEnd(n) - 1 : SymbolAt(m) = Colon}

\* The header of the line from n on: the value without the blanks before it.
HeaderAt(n) ==
  LET colon == Min(Colons(n))
      value == Min({m \in colon + 1 .. ContentEnd(n) : m = ContentEnd(n) \/ SymbolAt(m) # Blank})
  IN <<Piece(n, colon), Piece(value, ContentEnd(n))>>

\* A line without a colon is passed over.
HeaderLine ==
  /\ ~ ended /\ pos < Len(raw) /\ ContentEnd(pos) > pos
  /\ added' = IF Colons(pos) = {} THEN added ELSE Append(added, HeaderAt(pos))
  /\ pos' = NextLine(pos)
  /\ UNCHANGED <<head, ended>>

\* An empty line, or the end of the text.
HeadEnds ==
  /\ ~ ended /\ (pos >= Len(raw) \/ ContentEnd(pos) = pos)
  /\ ended' = TRUE
  /\ UNCHANGED <<head, pos, added>>

HeadNext == HeaderLine \/ HeadEnds

HeadSpec == HeadInit /\ [][HeadNext]_headVars

----------------------------------------------------------------------------
\* The headers found are those that were sent, in their order, with their
\* whole names and values and nothing else: with and without a status line,
\* with either kind of line end, the last line ended or not, with colons in
\* values and empty values, and with a body behind the empty line.
HeadersFound == ended => added = HeadersTo(head.sent)[Len(head.sent.lines)]
============================================================================

------------------------------ MODULE MCTexts ------------------------------
(***************************************************************************)
(* What the program does with texts: compare two, scan one, answer a       *)
(* command, cut a response's head into headers.  A behaviour is one call   *)
(* of one of them, or of the two scanners on one code.                     *)
(***************************************************************************)
EXTENDS LineDiff, Scanners, CdpCommand, RawHeaders, SequencesExt

\* Texts of up to four lines, and up to six with what is inserted; and some of
\* seven, that do not fit the tables.
Long == {[n \in 1 .. 7 |-> IF n = y THEN "y" ELSE "x"] : y \in 1 .. 7}
MCOldTexts == BoundedSeq(Contents, 4) \union Long
MCNewTexts == BoundedSeq(Contents, 6) \union Long

\* Codes of up to four pieces.
Pieces == {<<"/", "*">>, <<"*", "/">>, <<"/", "/">>, <<"'">>, <<"\\">>, <<Newline>>,
           <<" ">>, <<"x">>, <<"1">>, <<"v">>, <<";">>}
MCCodes == {FlattenSeq(pieces) : pieces \in BoundedSeq(Pieces, 4)}
MCKeywords == {<<"v">>}
MCCounted == [word \in {<<"v">>} |-> "variable_count"]

\* Commands with their members in every order, close or spaced, one of them
\* unknown or a second method; and short texts that are no commands.
MCDigitValue == [d \in {"1", "6", "7"} |-> IF d = "1" THEN 1 ELSE IF d = "6" THEN 6 ELSE 7]
MCSigns == {Quote, " ", ",", ":", "{", "}", "1", "6", "7", "id", "method", "params", "flag", "true",
            "Page.enable", "DOM.getDocument", "Custom"}

MCMember(key, value) == [gap |-> << >>, key |-> <<key>>, colon |-> <<":">>, quoted |-> FALSE, value |-> value]
MCQuoted(key, word) == [MCMember(key, <<word>>) EXCEPT !.quoted = TRUE]
MCIds == {MCMember("id", digits) : digits \in {<<"7">>, <<"1", "6">>, <<"1", "7">>}}
MCMethods == {MCQuoted("method", name) : name \in {"Page.enable", "DOM.getDocument", "Custom"}}
Inner(key, text) == Quotation(<<key>>) \o <<":">> \o text
MCParams ==
  {MCMember("params", value) : value \in
     {<<"{", "}">>, <<"{">> \o Inner("flag", <<"{">> \o Inner("id", <<"1">>) \o <<"}">>)
                      \o <<",">> \o Inner("method", Quotation(<<"true">>)) \o <<"}">>}}
MCUnknown == {MCQuoted("flag", "true"), MCMember("flag", <<"true">>), MCQuoted("method", "Custom")}

\* A blank or none in front of every member, and a comma between two.
Spaced(members, space) ==
  [n \in DOMAIN members |->
     [members[n] EXCEPT !.gap = (IF n = 1 THEN << >> ELSE <<",">>) \o space,
                        !.colon = @ \o space]]
MCCommands ==
  UNION {{[members |-> Spaced(order, space), space |-> space, rest |-> rest] :
            order \in SetToSeqs({id, method, params, unknown}),
            space \in {<< >>, <<" ">>}, rest \in {<< >>, <<"}">>}} :
         id \in MCIds, method \in MCMethods, params \in MCParams, unknown \in MCUnknown}
MCOthers == BoundedSeq({"{", "}", Quote, ",", ":", "7", "id"}, 4)
MCEnables == {<<"Page.enable">>}

\* Heads: up to three headers and one line that is none, with either kind of
\* line end, the last one ended or not, and with a body or none.
MCSymbols == {CR, LF, Colon, Blank, "HTTP", "200", "Age", "Link", "Vary", "junk", "1", "x", "y", "body"}
MCHeaders == {<<<<"Age">>, <<"1">>>>, <<<<"Link">>, <<"x", Colon, "y", Blank>>>>, <<<<"Vary">>, << >>>>}
MCLine(header, pad, eol) ==
  [name |-> header[1], colon |-> TRUE, pad |-> pad, value |-> header[2], end |-> eol]
MCJunk(eol) == [name |-> <<"junk">>, colon |-> FALSE, pad |-> << >>, value |-> << >>, end |-> eol]
MCEnded ==
  {[status |-> status \o IF status = << >> THEN << >> ELSE eol,
    lines |-> [n \in DOMAIN headers |-> MCLine(headers[n], pad, eol)]
              \o IF junk THEN <<MCJunk(eol)>> ELSE << >>,
    rest |-> IF blank THEN eol \o <<"body", Colon, "x">> ELSE << >>] :
     status \in {<< >>, <<"HTTP", Blank, "200">>}, headers \in BoundedSeq(MCHeaders, 3),
     junk \in BOOLEAN, pad \in {<< >>, <<Blank, Blank>>}, eol \in {<<LF>>, <<CR, LF>>}, blank \in BOOLEAN}
Unended(sent) ==
  IF sent.lines # << >> THEN [sent EXCEPT !.lines[Len(sent.lines)].end = << >>]
  ELSE [sent EXCEPT !.status = SelectSeq(@, LAMBDA s : s \notin {CR, LF})]
MCHeads == MCEnded \union {Unended(sent) : sent \in {h \in MCEnded : h.rest = << >>}}

VARIABLE call

textVars == <<call, diffVars, scannerVars, cdpVars, headVars>>

\* What the others start from does not matter: they are not called.
NoDiff == DiffInit /\ texts = [old |-> << >>, new |-> << >>]
NoScan == code = << >> /\ LexerInit /\ HighlighterInit
SomeCommand == command = [sent |-> NoMembers, json |-> << >>]
               /\ read = 1 /\ reply = << >> /\ cmd = NothingSaid
SomeHead == head = [sent |-> [status |-> << >>, lines |-> << >>, rest |-> << >>], raw |-> << >>]
            /\ pos = 0 /\ added = << >> /\ ended = FALSE

TextsInit ==
  \/ call = "diff" /\ NoScan /\ SomeCommand /\ SomeHead /\ DiffInit
  \/ call = "scan" /\ NoDiff /\ SomeCommand /\ SomeHead /\ ScannersInit
  \/ call = "command" /\ NoDiff /\ NoScan /\ SomeHead /\ CdpInit
  \/ call = "head" /\ NoDiff /\ NoScan /\ SomeCommand /\ HeadInit

DiffStep == call = "diff" /\ DiffNext /\ UNCHANGED <<call, scannerVars, cdpVars, headVars>>
ScanStep == call = "scan" /\ ScannersNext /\ UNCHANGED <<call, diffVars, cdpVars, headVars>>
CommandStep == call = "command" /\ CdpNext /\ UNCHANGED <<call, diffVars, scannerVars, headVars>>
HeadStep == call = "head" /\ HeadNext /\ UNCHANGED <<call, diffVars, scannerVars, cdpVars>>

TextsNext == DiffStep \/ ScanStep \/ CommandStep \/ HeadStep

\* A call runs on until it returns: nothing else runs on the one thread.
TextsSpec == TextsInit /\ [][TextsNext]_textVars /\ WF_textVars(TextsNext)

Returned ==
  /\ call = "diff" => DiffDone
  /\ call = "scan" => Scanned
  /\ call = "command" => Replied
  /\ call = "head" => ended

\* Every call returns, whatever the text: no loop stands still in front of a
\* character it does not know or an end that is missing, and the diff's look
\* ahead never sends it back.
TextsEnd == <>[]Returned
=============================================================================

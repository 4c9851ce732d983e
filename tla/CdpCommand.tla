----------------------------- MODULE CdpCommand -----------------------------
(***************************************************************************)
(* CDPParser::parse and CDPDispatcher::dispatch (cdp.h): a command of the  *)
(* protocol read without a JSON parser, and what is replied.               *)
(*                                                                         *)
(* A character of the text is a symbol; a word of it is one too, and so is *)
(* a digit.  Texts have no escaped quotes.  A step is one turn of parse's  *)
(* loop: a member, or one character that begins none.  What a reply says   *)
(* is its kind; a reply is cut off by a short buffer, which is left out.   *)
(***************************************************************************)
EXTENDS Integers, Sequences, FiniteSets, FiniteSetsExt

CONSTANTS
  Signs,         (* what texts are made of                                 *)
  Commands,      (* commands as they are sent: [members, space, rest]      *)
  Others,        (* texts that are none                                    *)
  IdModulus,     (* cmd.id is a uint32_t                                   *)
  DigitValue,    (* digit -> its value                                     *)
  Enables        (* the methods that switch a domain on                    *)

Quote == "quote"
Quotation(text) == <<Quote>> \o text \o <<Quote>>

\* How many braces the first n symbols leave open.
LeftOpen(text, n) ==
  Cardinality({m \in 1 .. n : text[m] = "{"}) - Cardinality({m \in 1 .. n : text[m] = "}"})

\* A text in braces, with any others in pairs.
Braced(text) == text[1] = "{" /\ \A n \in 1 .. Len(text) : LeftOpen(text, n) = 0 <=> n = Len(text)

\* A member that is sent, with what is in front of it: an id in digits, a
\* method in quotes, parameters in braces, or one that the program does not
\* know, in quotes or without a comma or a closing brace.
SentMember ==
  {m \in [gap : Seq({" ", ","}), key : Seq(Signs \ {Quote}), colon : Seq({" ", ":"}),
          quoted : BOOLEAN, value : Seq(Signs)] :
     \/ /\ m.quoted
        /\ m.key \notin {<<"id">>, <<"params">>} /\ m.value \in Seq(Signs \ {Quote})
     \/ /\ ~ m.quoted /\ m.key # <<"method">> /\ m.value # << >>
        /\ m.key = <<"id">> => m.value \in Seq(DOMAIN DigitValue)
        /\ m.key = <<"params">> => Braced(m.value)
        /\ m.key \notin {<<"id">>, <<"params">>} =>
             m.value \in Seq(Signs \ {",", "}"}) /\ m.value[1] \notin {" ", ":", Quote}}

MemberText(m) ==
  m.gap \o Quotation(m.key) \o m.colon \o IF m.quoted THEN Quotation(m.value) ELSE m.value

\* Members have commas between them, and the object is closed or cut off.
WellFormed(sent) ==
  /\ sent.members \in Seq(SentMember)
  /\ sent.space \in Seq({" ", ","}) /\ sent.rest \in Seq(Signs)
  /\ \A n \in 2 .. Len(sent.members) :
       \E i \in 1 .. Len(sent.members[n].gap) : sent.members[n].gap[i] = ","
  /\ sent.rest = << >> \/ sent.rest[1] = "}"

\* The text up to each of the members, and what they say.
JsonTo(sent) ==
  LET text[k \in 0 .. Len(sent.members)] ==
        IF k = 0 THEN <<"{">> ELSE text[k - 1] \o MemberText(sent.members[k])
  IN text
SentJson(sent) == JsonTo(sent)[Len(sent.members)] \o sent.space \o sent.rest

Spelt(digits) ==
  LET number[k \in 0 .. Len(digits)] ==
        IF k = 0 THEN 0 ELSE number[k - 1] * 10 + DigitValue[digits[k]]
  IN number[Len(digits)]

NothingSaid == [id |-> 0, method |-> << >>, params |-> << >>]
SaidBy(m, before) ==
  [id |-> IF m.key = <<"id">> THEN Spelt(m.value) ELSE before.id,
   method |-> IF m.key = <<"method">> THEN m.value ELSE before.method,
   params |-> IF m.key = <<"params">> THEN m.value ELSE before.params]
SaidTo(sent) ==
  LET said[k \in 0 .. Len(sent.members)] ==
        IF k = 0 THEN NothingSaid ELSE SaidBy(sent.members[k], said[k - 1])
  IN said

\* No object, or one that says nothing of a method.
NoCommand(text) ==
  /\ text \in Seq(Signs)
  /\ text = << >> \/ text[1] # "{" \/ \A n \in 1 .. Len(text) : text[n] # "method"

ASSUME CommandAssumption ==
  /\ {Quote, " ", ",", ":", "{", "}"} \subseteq Signs
  /\ \A sent \in Commands : WellFormed(sent)
  /\ \A text \in Others : NoCommand(text)
  /\ IdModulus \in Nat \ {0}
  /\ DOMAIN DigitValue \subseteq Signs \ {Quote, " ", ",", ":", "{", "}"}
  /\ \A d \in DOMAIN DigitValue : DigitValue[d] \in 0 .. 9

VARIABLES
  command,       (* what came: [sent, json]                                *)
  read,          (* i of parse                                             *)
  cmd,           (* cmd: what has been read                                *)
  reply          (* << >> before the call returns                          *)

cdpVars == <<command, read, cmd, reply>>

json == command.json
End == Len(json)
Symbol(n) == json[n + 1]
Has(n, s) == n < End /\ Symbol(n) = s
Text(from, to) == SubSeq(json, from + 1, to)

NoMembers == [members |-> << >>, space |-> << >>, rest |-> << >>]

----------------------------------------------------------------------------
CdpInit ==
  /\ \/ \E sent \in Commands : command = [sent |-> sent, json |-> SentJson(sent)]
     \/ \E text \in Others : command = [sent |-> NoMembers, json |-> text]
  /\ read = 1
  /\ cmd = NothingSaid
  /\ reply = << >>

\* The first symbol from n on in, or not in, a set.
Up(n, set) == IF n >= End THEN End ELSE Min({m \in n .. End : m = End \/ Symbol(m) \in set})
Over(n, set) == IF n >= End THEN End ELSE Min({m \in n .. End : m = End \/ Symbol(m) \notin set})

\* Behind the quote that closes the text whose first symbol is at n.
Closed(n) == Min({Up(n, {Quote}) + 1, End})

Open == Over(read, {" ", ","})
Reading == reply = << >> /\ Has(0, "{") /\ Open < End /\ Symbol(Open) # "}"
AtMember == Reading /\ Symbol(Open) = Quote

Key == Text(Open + 1, Up(Open + 1, {Quote}))
Value == Over(Closed(Open + 1), {" ", ":"})

\* The number that digits from n on spell.
Number(n) ==
  LET end == Over(n, DOMAIN DigitValue)
      first[k \in 0 .. end - n] ==
        IF k = 0 THEN 0 ELSE (first[k - 1] * 10 + DigitValue[Symbol(n + k - 1)]) % IdModulus
  IN first[end - n]

ReadId ==
  /\ AtMember /\ Key = <<"id">>
  /\ cmd' = [cmd EXCEPT !.id = Number(Value)]
  /\ read' = Over(Value, DOMAIN DigitValue)
  /\ UNCHANGED <<command, reply>>

ReadMethod ==
  /\ AtMember /\ Key = <<"method">>
  /\ IF Has(Value, Quote)
     THEN /\ cmd' = [cmd EXCEPT !.method = Text(Value + 1, Up(Value + 1, {Quote}))]
          /\ read' = Closed(Value + 1)
     ELSE read' = Value /\ UNCHANGED cmd
  /\ UNCHANGED <<command, reply>>

\* Slip: the first brace that closes ends the parameters.
BraceEndFirst(n) == Min({Up(n, {"}"}) + 1, End})

\* Behind the brace that closes the one at n, whatever is quoted between.
BraceEnd(n) ==
  Min({m \in n + 1 .. End : m = End \/ LeftOpen(Text(n, End), m - n) = 0})

ReadParams ==
  /\ AtMember /\ Key = <<"params">>
  /\ \E start \in {Value} :
       IF Has(start, "{")
       THEN /\ cmd' = [cmd EXCEPT !.params = Text(start, BraceEnd(start))]
            /\ read' = BraceEnd(start)
       ELSE read' = start /\ UNCHANGED cmd
  /\ UNCHANGED <<command, reply>>

\* Of other members' values only quoted texts are read whole.
SkipMember ==
  /\ AtMember /\ Key \notin {<<"id">>, <<"method">>, <<"params">>}
  /\ read' = IF Has(Value, Quote) THEN Closed(Value + 1) ELSE Up(Value, {",", "}"})
  /\ UNCHANGED <<command, cmd, reply>>

SkipStray ==
  /\ Reading /\ Symbol(Open) # Quote
  /\ read' = Open + 1
  /\ UNCHANGED <<command, cmd, reply>>

Result(method) ==
  CASE method \in Enables -> "none"
    [] method = <<"Console.clearMessages">> -> "none"    \* clears the console
    [] method = <<"DOM.getDocument">> -> "document"
    [] method = <<"Memory.getHeapSnapshot">> -> "counts"
    [] method = <<"Network.getResponseBody">> -> "body"
    [] OTHER -> "ok"

\* A text that is no object, or one without an id or a method, is an error.
Reply ==
  /\ reply = << >> /\ ~ Reading
  /\ reply' = IF Has(0, "{") /\ cmd.id > 0 /\ cmd.method # << >>
              THEN <<cmd.id, Result(cmd.method)>> ELSE <<0, "error">>
  /\ UNCHANGED <<command, read, cmd>>

CdpNext == ReadId \/ ReadMethod \/ ReadParams \/ SkipMember \/ SkipStray \/ Reply

CdpSpec == CdpInit /\ [][CdpNext]_cdpVars

Replied == reply # << >>

----------------------------------------------------------------------------
\* A command whose members come in any order, with blanks and with members
\* the program does not know among them, is understood: its id, all of its
\* parameters and the answer to its method.  This is said of commands without
\* escaped quotes, with its id in digits and its braces in pairs, and in which
\* the value of a member the program does not know is quoted or has no comma
\* and no closing brace: behind an object it would stop reading too early
\* (WellFormed).  An id that is 0 in 32 bits is an error, and so is a text that
\* is no command.
CommandUnderstood ==
  Replied =>
    LET said == SaidTo(command.sent)[Len(command.sent.members)]
        id == said.id % IdModulus
    IN IF id = 0 \/ said.method = << >> THEN reply = <<0, "error">>
       ELSE reply = <<id, Result(said.method)>> /\ cmd.params = said.params
============================================================================

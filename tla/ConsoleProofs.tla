--------------------------- MODULE ConsoleProofs ---------------------------
(***************************************************************************)
(* The console's ring for every capacity, id width and set of messages: it *)
(* implements MessageLog, and a reader is shown slices of what the filter  *)
(* selects, nothing twice and nothing out of order.                        *)
(***************************************************************************)
EXTENDS ConsolePaging, DataLemmas

\* A sum of two slots wraps around at most once.
LEMMA ModBelow ==
  ASSUME NEW m \in Nat, NEW n \in Nat, n < m
  PROVE  n % m = n
  BY Z3

LEMMA ModOnce ==
  ASSUME NEW m \in Nat, NEW n \in Nat, m <= n, n < m + m
  PROVE  n % m = n - m
  BY Z3

LEMMA ModRange ==
  ASSUME NEW m \in Nat \ {0}, NEW n \in Nat
  PROVE  n % m \in 0 .. m - 1
  BY Z3

\* The slot i places after h.
LEMMA SlotFacts ==
  ASSUME Capacity \in Nat \ {0}, NEW h \in Slots, NEW i \in 0 .. Capacity
  PROVE  /\ (h + i) % Capacity = IF h + i < Capacity THEN h + i ELSE h + i - Capacity
         /\ (h + i) % Capacity \in Slots
<1>1. /\ h \in Nat /\ i \in Nat /\ h < Capacity /\ i <= Capacity
      /\ Capacity \in Nat /\ h + i \in Nat
  BY DEF Slots
<1>2. CASE h + i < Capacity
  <2>1. (h + i) % Capacity = h + i
    BY <1>1, <1>2, ModBelow
  <2> QED BY <2>1, <1>1, <1>2 DEF Slots
<1>3. CASE ~ (h + i < Capacity)
  <2>1. (h + i) % Capacity = (h + i) - Capacity
    <3>1. Capacity <= h + i /\ h + i < Capacity + Capacity
      BY <1>1, <1>3
    <3> QED BY <3>1, <1>1, ModOnce
  <2> QED BY <2>1, <1>1, <1>3 DEF Slots
<1> QED BY <1>2, <1>3

\* Slots that hold messages have been written.
Filled == \A i \in 0 .. count - 1 : MessageAt(i) \in Message

\* What one more message does to the messages a reader sees.
LEMMA Push ==
  ASSUME TypeOK, Filled, NEW new \in Message,
         messages' = [messages EXCEPT ![NextSlot] = new],
         head' = HeadAfter,
         count' = IF count = Capacity THEN count ELSE count + 1
  PROVE  /\ messages' \in [Slots -> Message \union {Blank}]
         /\ head' \in Slots
         /\ count' \in 1 .. Capacity
         /\ \A i \in 0 .. count' - 1 :
              MessageAt(i)' = IF i = count' - 1 THEN new
                              ELSE IF count = Capacity THEN MessageAt(i + 1)
                              ELSE MessageAt(i)
<1>1. /\ Capacity \in Nat \ {0} /\ head \in Slots /\ count \in 0 .. Capacity
      /\ messages \in [Slots -> Message \union {Blank}]
  BY ConsoleAssumption DEF TypeOK
<1>2. NextSlot = (IF head + count < Capacity THEN head + count
                  ELSE head + count - Capacity)
      /\ NextSlot \in Slots
  BY <1>1, SlotFacts DEF NextSlot
<1>3. /\ head' = (IF count # Capacity THEN head
                  ELSE IF head + 1 < Capacity THEN head + 1 ELSE head + 1 - Capacity)
      /\ head' \in Slots
  <2>1. 1 \in 0 .. Capacity
    BY <1>1
  <2>2. /\ (head + 1) % Capacity = IF head + 1 < Capacity THEN head + 1
                                   ELSE head + 1 - Capacity
        /\ (head + 1) % Capacity \in Slots
    BY <1>1, <2>1, SlotFacts
  <2> QED BY <1>1, <2>2 DEF HeadAfter
<1>4. count' \in 1 .. Capacity
  BY <1>1
<1>5. ASSUME NEW i \in 0 .. count' - 1
      PROVE  MessageAt(i)' = IF i = count' - 1 THEN new
                             ELSE IF count = Capacity THEN MessageAt(i + 1)
                             ELSE MessageAt(i)
  <2>1. i \in 0 .. Capacity /\ i + 1 \in 0 .. Capacity
    BY <1>1, <1>4
  <2>2. (head' + i) % Capacity = (IF head' + i < Capacity THEN head' + i
                                  ELSE head' + i - Capacity)
        /\ (head' + i) % Capacity \in Slots
    BY <1>1, <1>3, <2>1, SlotFacts
  <2>3. /\ (head + i) % Capacity = IF head + i < Capacity THEN head + i
                                   ELSE head + i - Capacity
        /\ (head + i) % Capacity \in Slots
    BY <1>1, <2>1, SlotFacts
  <2>4. /\ (head + (i + 1)) % Capacity = IF head + (i + 1) < Capacity THEN head + (i + 1)
                                         ELSE head + (i + 1) - Capacity
        /\ (head + (i + 1)) % Capacity \in Slots
    BY <1>1, <2>1, SlotFacts
  <2>5. MessageAt(i)' = messages'[(head' + i) % Capacity]
    BY DEF MessageAt, SlotAt
  <2>6. \A s \in Slots : messages'[s] = IF s = NextSlot THEN new ELSE messages[s]
    BY <1>1
  <2>7. CASE i = count' - 1
    <3>1. (head' + i) % Capacity = NextSlot
      BY <2>7, <1>1, <1>2, <1>3, <2>2 DEF Slots
    <3> QED BY <3>1, <2>5, <2>6, <2>7, <1>2
  <2>8. CASE i # count' - 1 /\ count = Capacity
    <3>1. (head' + i) % Capacity = (head + (i + 1)) % Capacity
      BY <2>8, <1>1, <1>3, <2>2, <2>4 DEF Slots
    <3>2. (head' + i) % Capacity # NextSlot
      BY <2>8, <1>1, <1>2, <1>3, <2>2 DEF Slots
    <3>3. messages'[(head' + i) % Capacity] = messages[(head + (i + 1)) % Capacity]
      BY <3>1, <3>2, <2>6, <2>2
    <3> QED BY <3>3, <2>5, <2>8 DEF MessageAt, SlotAt
  <2>9. CASE i # count' - 1 /\ count # Capacity
    <3>1. (head' + i) % Capacity = (head + i) % Capacity
      BY <2>9, <1>3
    <3>2. (head' + i) % Capacity # NextSlot
      BY <2>9, <1>1, <1>2, <1>3, <2>2 DEF Slots
    <3>3. messages'[(head' + i) % Capacity] = messages[(head + i) % Capacity]
      BY <3>1, <3>2, <2>6, <2>2
    <3> QED BY <3>3, <2>5, <2>9 DEF MessageAt, SlotAt
  <2> QED BY <2>7, <2>8, <2>9
<1>6. messages' \in [Slots -> Message \union {Blank}]
  BY <1>1, <1>2
<1> QED BY <1>3, <1>4, <1>5, <1>6
----------------------------------------------------------------------------
\* What the five actions come to: a message is pushed, or all are dropped, or
\* only the nesting changes.
New(kind, text, url) ==
  [id |-> (totalLogged + 1) % IdModulus,
   content |-> [kind |-> kind, depth |-> groupDepth, text |-> text, url |-> url]]

LEMMA AddMessageFacts ==
  ASSUME TypeOK, NEW kind \in Kinds \union {GroupKind},
         NEW text \in Texts, NEW url \in Texts, AddMessage(kind, text, url)
  PROVE  /\ New(kind, text, url) \in Message
         /\ messages' = [messages EXCEPT ![NextSlot] = New(kind, text, url)]
         /\ head' = HeadAfter
         /\ count' = IF count = Capacity THEN count ELSE count + 1
         /\ totalLogged' = totalLogged + 1
         /\ totalLogged' \in 0 .. MaxLogged
<1>1. totalLogged + 1 \in Nat /\ IdModulus \in Nat \ {0}
  BY ConsoleAssumption DEF TypeOK
<1>2. (totalLogged + 1) % IdModulus \in 0 .. IdModulus - 1
  BY <1>1, ModRange
<1>3. groupDepth \in 0 .. MaxDepth
  BY DEF TypeOK
<1>4. New(kind, text, url) \in Message
  BY <1>2, <1>3 DEF New, Message, Content
<1>5. totalLogged' \in 0 .. MaxLogged
  BY ConsoleAssumption DEF TypeOK, AddMessage
<1> QED BY <1>4, <1>5 DEF AddMessage, New

----------------------------------------------------------------------------
\* IdsConsecutive and NestingContinuous speak of the slots in use: Filled
\* says they hold messages, TypeOK where they are.
ConsoleInv ==
  /\ TypeOK
  /\ Filled
  /\ IdsConsecutive
  /\ NestingContinuous

LEMMA InitInv == Init => ConsoleInv
<1> SUFFICES ASSUME Init PROVE ConsoleInv
  OBVIOUS
<1>1. TypeOK
  BY ConsoleAssumption DEF Init, TypeOK, Slots
<1>2. count = 0 /\ groupDepth = 0
  BY DEF Init
<1> QED BY <1>1, <1>2 DEF ConsoleInv, Filled, IdsConsecutive, NestingContinuous

LEMMA PushInv ==
  ASSUME ConsoleInv, NEW kind \in Kinds \union {GroupKind},
         NEW text \in Texts, NEW url \in Texts, AddMessage(kind, text, url),
         groupDepth' \in 0 .. MaxDepth,
         groupDepth' <= Inside(New(kind, text, url))
  PROVE  ConsoleInv'
<1> DEFINE new == New(kind, text, url)
<1> USE DEF ConsoleInv
<1>1. /\ new \in Message
      /\ messages' = [messages EXCEPT ![NextSlot] = new]
      /\ head' = HeadAfter
      /\ count' = IF count = Capacity THEN count ELSE count + 1
      /\ totalLogged' = totalLogged + 1
      /\ totalLogged' \in 0 .. MaxLogged
  BY AddMessageFacts
<1>2. /\ new.id = (totalLogged + 1) % IdModulus
      /\ new.content.depth = groupDepth
  BY DEF New
<1> HIDE DEF new
<1>3. /\ messages' \in [Slots -> Message \union {Blank}]
      /\ head' \in Slots
      /\ count' \in 1 .. Capacity
      /\ \A i \in 0 .. count' - 1 :
           MessageAt(i)' = IF i = count' - 1 THEN new
                           ELSE IF count = Capacity THEN MessageAt(i + 1)
                           ELSE MessageAt(i)
  BY <1>1, Push
<1>4. /\ Capacity \in Nat \ {0} /\ count \in 0 .. Capacity
      /\ totalLogged \in Nat /\ groupDepth \in Nat
  BY ConsoleAssumption DEF TypeOK
<1>5. TypeOK'
  BY <1>1, <1>3, <1>4 DEF TypeOK
<1>6. Filled'
  <2> SUFFICES ASSUME NEW i \in 0 .. count' - 1 PROVE MessageAt(i)' \in Message
    BY DEF Filled
  <2>1. CASE i = count' - 1
    BY <2>1, <1>1, <1>3
  <2>2. CASE i # count' - 1 /\ count = Capacity
    <3>1. i + 1 \in 0 .. count - 1
      BY <2>2, <1>1, <1>4
    <3> QED BY <3>1, <2>2, <1>3 DEF Filled
  <2>3. CASE i # count' - 1 /\ count # Capacity
    <3>1. i \in 0 .. count - 1
      BY <2>3, <1>1, <1>4
    <3> QED BY <3>1, <2>3, <1>3 DEF Filled
  <2> QED BY <2>1, <2>2, <2>3
<1>7. IdsConsecutive'
  <2> SUFFICES ASSUME NEW i \in 0 .. count' - 1
               PROVE  MessageAt(i)'.id = (totalLogged' - (count' - 1 - i)) % IdModulus
    BY DEF IdsConsecutive
  <2>1. CASE i = count' - 1
    <3>1. totalLogged' - (count' - 1 - i) = totalLogged + 1
      BY <2>1, <1>1, <1>3, <1>4
    <3> QED BY <3>1, <2>1, <1>2, <1>3
  <2>2. CASE i # count' - 1 /\ count = Capacity
    <3>1. i + 1 \in 0 .. count - 1
      BY <2>2, <1>1, <1>4
    <3>2. totalLogged' - (count' - 1 - i) = totalLogged - (count - 1 - (i + 1))
      BY <2>2, <1>1, <1>4
    <3>3. MessageAt(i + 1).id = (totalLogged - (count - 1 - (i + 1))) % IdModulus
      BY <3>1 DEF IdsConsecutive
    <3> QED BY <3>2, <3>3, <2>2, <1>3
  <2>3. CASE i # count' - 1 /\ count # Capacity
    <3>1. i \in 0 .. count - 1
      BY <2>3, <1>1, <1>4
    <3>2. totalLogged' - (count' - 1 - i) = totalLogged - (count - 1 - i)
      BY <2>3, <1>1, <1>4
    <3>3. MessageAt(i).id = (totalLogged - (count - 1 - i)) % IdModulus
      BY <3>1 DEF IdsConsecutive
    <3> QED BY <3>2, <3>3, <2>3, <1>3
  <2> QED BY <2>1, <2>2, <2>3
<1>8. NestingContinuous'
  <2> SUFFICES ASSUME NEW i \in 0 .. count' - 1
               PROVE  IF i = count' - 1 THEN groupDepth' <= Inside(MessageAt(i)')
                      ELSE MessageAt(i + 1)'.content.depth <= Inside(MessageAt(i)')
    BY DEF NestingContinuous, Inside
  <2>1. CASE i = count' - 1
    <3>1. MessageAt(i)' = new
      BY <2>1, <1>3
    <3> QED BY <3>1, <2>1 DEF new
  <2>2. CASE i # count' - 1
    <3>1. i + 1 \in 0 .. count' - 1
      <4>1. \A n \in Nat : \A k \in 0 .. n - 1 : k # n - 1 => k + 1 \in 0 .. n - 1
        OBVIOUS
      <4>2. count' \in Nat
        BY <1>3, <1>4
      <4> QED BY <2>2, <4>1, <4>2
    <3>2. MessageAt(i)' = IF count = Capacity THEN MessageAt(i + 1) ELSE MessageAt(i)
      BY <2>2, <1>3
    <3>3. CASE i + 1 = count' - 1
      <4>1. MessageAt(i + 1)' = new
        BY <3>1, <3>3, <1>3
      <4>2. PICK j \in 0 .. count - 1 : j = count - 1 /\ MessageAt(i)' = MessageAt(j)
        <5>1. CASE count = Capacity
          <6>1. i + 1 = count - 1 /\ i + 1 \in 0 .. count - 1
            BY <5>1, <3>3, <1>1, <1>4
          <6> QED BY <6>1, <5>1, <3>2
        <5>2. CASE count # Capacity
          <6>1. i = count - 1 /\ i \in 0 .. count - 1
            BY <5>2, <3>3, <1>1, <1>4
          <6> QED BY <6>1, <5>2, <3>2
        <5> QED BY <5>1, <5>2
      <4>3. groupDepth <= Inside(MessageAt(j))
        BY <4>2 DEF NestingContinuous
      <4>4. MessageAt(i + 1)'.content.depth <= Inside(MessageAt(i)')
        BY <4>1, <4>2, <4>3, <1>2
      <4> QED BY <4>4, <2>2
    <3>4. CASE i + 1 # count' - 1 /\ count = Capacity
      <4>1. /\ i + 1 \in 0 .. count - 1 /\ i + 1 # count - 1
            /\ (i + 1) + 1 = i + 2
        BY <3>1, <3>4, <1>1, <1>4
      <4>2. MessageAt(i)' = MessageAt(i + 1)
        BY <3>2, <3>4
      <4>3. MessageAt(i + 1)' = MessageAt((i + 1) + 1)
        BY <3>1, <3>4, <1>3
      <4>4. MessageAt((i + 1) + 1).content.depth <= Inside(MessageAt(i + 1))
        BY <4>1 DEF NestingContinuous
      <4> QED BY <4>2, <4>3, <4>4, <2>2
    <3>5. CASE i + 1 # count' - 1 /\ count # Capacity
      <4>1. i \in 0 .. count - 1 /\ i # count - 1
        BY <3>1, <3>5, <1>1, <1>4
      <4>2. MessageAt(i)' = MessageAt(i)
        BY <3>2, <3>5
      <4>3. MessageAt(i + 1)' = MessageAt(i + 1)
        BY <3>1, <3>5, <1>3
      <4>4. MessageAt(i + 1).content.depth <= Inside(MessageAt(i))
        BY <4>1 DEF NestingContinuous
      <4> QED BY <4>2, <4>3, <4>4, <2>2
    <3> QED BY <3>3, <3>4, <3>5
  <2> QED BY <2>1, <2>2
<1> QED BY <1>5, <1>6, <1>7, <1>8

LEMMA LogInv ==
  ASSUME ConsoleInv, NEW kind \in Kinds, NEW text \in Texts, NEW url \in Texts,
         Log(kind, text, url)
  PROVE  ConsoleInv'
<1>1. AddMessage(kind, text, url) /\ groupDepth' = groupDepth
  BY DEF Log
<1>2. groupDepth \in 0 .. MaxDepth
  BY DEF ConsoleInv, TypeOK
<1>3. New(kind, text, url).content.depth = groupDepth
  BY DEF New
<1>4. groupDepth <= Inside(New(kind, text, url))
  BY <1>2, <1>3 DEF Inside
<1> QED BY <1>1, <1>2, <1>4, PushInv

LEMMA GroupInv ==
  ASSUME ConsoleInv, NEW title \in Texts, NEW url \in Texts, Group(title, url)
  PROVE  ConsoleInv'
<1>1. /\ AddMessage(GroupKind, title, url)
      /\ groupDepth < MaxDepth
      /\ groupDepth' = groupDepth + 1
  BY DEF Group
<1>2. groupDepth \in 0 .. MaxDepth /\ MaxDepth \in Nat
  BY ConsoleAssumption DEF ConsoleInv, TypeOK
<1>3. New(GroupKind, title, url).content.depth = groupDepth
      /\ New(GroupKind, title, url).content.kind.type = "GROUP"
  BY DEF New, GroupKind
<1>4. groupDepth' <= Inside(New(GroupKind, title, url))
  BY <1>1, <1>2, <1>3 DEF Inside
<1>5. groupDepth' \in 0 .. MaxDepth
  BY <1>1, <1>2
<1> QED BY <1>1, <1>4, <1>5, PushInv

LEMMA GroupEndInv ==
  ASSUME ConsoleInv, GroupEnd
  PROVE  ConsoleInv'
<1> USE DEF ConsoleInv
<1>1. /\ UNCHANGED ringVars
      /\ groupDepth' \in 0 .. MaxDepth
      /\ groupDepth' <= groupDepth /\ groupDepth \in Nat
  BY ConsoleAssumption DEF GroupEnd, TypeOK
<1>2. \A i : MessageAt(i)' = MessageAt(i)
  BY <1>1 DEF MessageAt, SlotAt, ringVars
<1>3. TypeOK' /\ Filled' /\ IdsConsecutive'
  BY <1>1, <1>2 DEF TypeOK, Filled, IdsConsecutive, ringVars
<1>4. NestingContinuous'
  <2> SUFFICES ASSUME NEW i \in 0 .. count - 1
               PROVE  IF i = count - 1 THEN groupDepth' <= Inside(MessageAt(i))
                      ELSE MessageAt(i + 1).content.depth <= Inside(MessageAt(i))
    BY <1>1, <1>2 DEF NestingContinuous, Inside, ringVars
  <2>1. CASE i = count - 1
    <3>1. groupDepth <= Inside(MessageAt(i))
      BY <2>1 DEF NestingContinuous
    <3>2. Inside(MessageAt(i)) \in Int
      <4>1. MessageAt(i).content.depth \in 0 .. MaxDepth
        BY DEF Filled, Message, Content
      <4> QED BY <4>1, ConsoleAssumption DEF Inside
    <3> QED BY <3>1, <3>2, <1>1, <2>1
  <2>2. CASE i # count - 1
    BY <2>2 DEF NestingContinuous
  <2> QED BY <2>1, <2>2
<1> QED BY <1>3, <1>4

LEMMA StepInv == ConsoleInv /\ [Next]_vars => ConsoleInv'
<1> SUFFICES ASSUME ConsoleInv, [Next]_vars
             PROVE  ConsoleInv'
  OBVIOUS
<1>1. ASSUME NEW kind \in Kinds, NEW text \in Texts, NEW url \in Texts,
             Log(kind, text, url)
      PROVE  ConsoleInv'
  BY <1>1, LogInv
<1>2. ASSUME NEW title \in Texts, NEW url \in Texts, Group(title, url)
      PROVE  ConsoleInv'
  BY <1>2, GroupInv
<1>3. CASE GroupEnd
  BY <1>3, GroupEndInv
<1>4. CASE Clear \/ Reset
  <2>1. /\ count' = 0 /\ head' = 0 /\ messages' = messages
        /\ totalLogged' \in 0 .. MaxLogged /\ groupDepth' \in 0 .. MaxDepth
    BY <1>4, ConsoleAssumption DEF Clear, Reset, ConsoleInv, TypeOK
  <2>2. TypeOK'
    BY <2>1, ConsoleAssumption DEF ConsoleInv, TypeOK, Slots
  <2> QED BY <2>1, <2>2 DEF ConsoleInv, Filled, IdsConsecutive, NestingContinuous
<1>5. CASE UNCHANGED vars
  BY <1>5 DEF vars, ConsoleInv, TypeOK, Filled, IdsConsecutive,
              NestingContinuous, MessageAt, SlotAt
<1> QED BY <1>1, <1>2, <1>3, <1>4, <1>5 DEF Next

LEMMA InvHolds == Spec => []ConsoleInv
<1> QED BY InitInv, StepInv, PTL DEF Spec

\* The ring's variables stay in their ranges.
THEOREM ConsoleTypeOK == Spec => []TypeOK
<1>1. ConsoleInv => TypeOK BY DEF ConsoleInv
<1> QED BY InvHolds, <1>1, PTL

\* The messages kept are numbered consecutively, whatever the id width.
THEOREM ConsoleIdsConsecutive == Spec => []IdsConsecutive
<1>1. ConsoleInv => IdsConsecutive BY DEF ConsoleInv
<1> QED BY InvHolds, <1>1, PTL

\* A message is at most one level deeper than the one above it, and groupEnd
\* never takes the depth below 0.
THEOREM ConsoleNesting == Spec => []NestingContinuous
<1>1. ConsoleInv => NestingContinuous BY DEF ConsoleInv
<1> QED BY InvHolds, <1>1, PTL

----------------------------------------------------------------------------
\* The refinement: what the ring shows a reader is a sequence, and a push on
\* the ring is a Record on the log.
LEMMA RetainedSeq ==
  ASSUME ConsoleInv
  PROVE  /\ Retained \in Seq(Message)
         /\ Len(Retained) = count
         /\ \A i \in 1 .. count : Retained[i] = MessageAt(i - 1)
<1>1. count \in Nat
  BY ConsoleAssumption DEF ConsoleInv, TypeOK
<1>2. \A i \in 1 .. count : i - 1 \in 0 .. count - 1
  BY <1>1
<1>3. \A i \in 1 .. count : MessageAt(i - 1) \in Message
  BY <1>2 DEF ConsoleInv, Filled
<1>4. Retained \in [1 .. count -> Message]
  BY <1>3 DEF Retained
<1> QED BY <1>1, <1>4 DEF Retained

LEMMA PushIsRecord ==
  ASSUME ConsoleInv, ConsoleInv', NEW kind \in Kinds \union {GroupKind},
         NEW text \in Texts, NEW url \in Texts, AddMessage(kind, text, url)
  PROVE  MessageLog!Next
<1> DEFINE new == New(kind, text, url)
           content == [kind |-> kind, depth |-> groupDepth,
                       text |-> text, url |-> url]
<1>1. /\ new \in Message
      /\ messages' = [messages EXCEPT ![NextSlot] = new]
      /\ head' = HeadAfter
      /\ count' = IF count = Capacity THEN count ELSE count + 1
      /\ totalLogged' = totalLogged + 1
  BY AddMessageFacts DEF ConsoleInv
<1>2. content \in Content /\ new = MessageLog!Numbered(content)
  BY DEF ConsoleInv, TypeOK, Content, New, MessageLog!Numbered
<1> HIDE DEF new, content
<1>3. /\ count' \in 1 .. Capacity
      /\ \A i \in 0 .. count' - 1 :
           MessageAt(i)' = IF i = count' - 1 THEN new
                           ELSE IF count = Capacity THEN MessageAt(i + 1)
                           ELSE MessageAt(i)
  BY <1>1, Push DEF ConsoleInv
<1>4. Capacity \in Nat \ {0} /\ count \in 0 .. Capacity
  BY ConsoleAssumption DEF ConsoleInv, TypeOK
<1>5. /\ Retained \in Seq(Message) /\ Len(Retained) = count
      /\ \A i \in 1 .. count : Retained[i] = MessageAt(i - 1)
  BY RetainedSeq
<1>6. /\ Retained' \in Seq(Message) /\ Len(Retained') = count'
      /\ \A i \in 1 .. count' : Retained'[i] = MessageAt(i - 1)'
  <2>1. count' \in Nat
    BY <1>3, <1>4
  <2>2. \A i \in 1 .. count' : i - 1 \in 0 .. count' - 1
    <3>1. \A n \in Nat : \A i \in 1 .. n : i - 1 \in 0 .. n - 1
      OBVIOUS
    <3> QED BY <2>1, <3>1
  <2>3. \A i \in 1 .. count' : MessageAt(i - 1)' \in Message
    BY <2>2 DEF ConsoleInv, Filled
  <2>4. Retained' \in [1 .. count' -> Message]
    BY <2>3 DEF Retained
  <2> QED BY <2>1, <2>4 DEF Retained
<1> DEFINE after == IF Len(Retained) < Capacity THEN Append(Retained, new)
                    ELSE Append(Tail(Retained), new)
<1>7. Retained' = after
  <2>1. CASE count # Capacity
    <3>1. after = Append(Retained, new) /\ count < Capacity
      BY <2>1, <1>4, <1>5
    <3>2. /\ after \in Seq(Message) /\ Len(after) = count + 1
          /\ \A i \in 1 .. count + 1 :
               after[i] = IF i = count + 1 THEN new ELSE Retained[i]
      BY <3>1, <1>1, <1>4, <1>5
    <3> HIDE DEF after
    <3>3. ASSUME NEW i \in 1 .. Len(Retained')
          PROVE  Retained'[i] = after[i]
      <4>1. /\ i \in 1 .. count' /\ i - 1 \in 0 .. count' - 1
            /\ count' = count + 1
        BY <1>1, <1>4, <1>6, <2>1
      <4>2. Retained'[i] = IF i - 1 = count' - 1 THEN new ELSE MessageAt(i - 1)
        BY <4>1, <1>3, <1>6, <2>1
      <4>3. CASE i = count + 1
        BY <4>1, <4>2, <4>3, <3>2
      <4>4. CASE i # count + 1
        <5>1. i \in 1 .. count /\ i - 1 # count' - 1
          BY <4>1, <4>4, <1>4
        <5> QED BY <5>1, <4>1, <4>2, <4>4, <3>2, <1>5
      <4> QED BY <4>3, <4>4
    <3>4. Len(Retained') = Len(after)
      BY <3>2, <1>1, <1>6, <2>1
    <3> QED BY <3>2, <3>3, <3>4, <1>6, SeqEqual
  <2>2. CASE count = Capacity
    <3>1. after = Append(Tail(Retained), new) /\ Retained # << >>
      BY <2>2, <1>4, <1>5
    <3>2. /\ Tail(Retained) \in Seq(Message) /\ Len(Tail(Retained)) = count - 1
          /\ \A i \in 1 .. count - 1 : Tail(Retained)[i] = Retained[i + 1]
      BY <3>1, <1>5, HeadTailProperties
    <3>3. /\ after \in Seq(Message) /\ Len(after) = count
          /\ \A i \in 1 .. count :
               after[i] = IF i = count THEN new ELSE Retained[i + 1]
      BY <3>1, <3>2, <1>1, <1>4, <2>2
    <3> HIDE DEF after
    <3>4. ASSUME NEW i \in 1 .. Len(Retained')
          PROVE  Retained'[i] = after[i]
      <4>1. /\ i \in 1 .. count' /\ i - 1 \in 0 .. count' - 1
            /\ count' = count /\ (i - 1) + 1 = i /\ (i + 1) - 1 = i
        BY <1>1, <1>4, <1>6, <2>2
      <4>2. Retained'[i] = IF i - 1 = count' - 1 THEN new ELSE MessageAt((i - 1) + 1)
        BY <4>1, <1>3, <1>6, <2>2
      <4>3. CASE i = count
        BY <4>1, <4>2, <4>3, <3>3
      <4>4. CASE i # count
        <5>1. i + 1 \in 1 .. count /\ i - 1 # count' - 1
          BY <4>1, <4>4, <1>4
        <5>2. Retained[i + 1] = MessageAt(i)
          BY <5>1, <4>1, <1>5
        <5> QED BY <5>1, <5>2, <4>1, <4>2, <4>4, <3>3
      <4> QED BY <4>3, <4>4
    <3>5. Len(Retained') = Len(after)
      BY <3>3, <1>1, <1>6, <2>2
    <3> QED BY <3>3, <3>4, <3>5, <1>6, SeqEqual
  <2> QED BY <2>1, <2>2
<1>8. MessageLog!Record(content)
  BY <1>1, <1>2, <1>7 DEF MessageLog!Record
<1> QED BY <1>2, <1>8 DEF MessageLog!Next

LEMMA StepRefines ==
  ConsoleInv /\ ConsoleInv' /\ [Next]_vars => [MessageLog!Next]_(MessageLog!logVars)
<1> SUFFICES ASSUME ConsoleInv, ConsoleInv', [Next]_vars
             PROVE  [MessageLog!Next]_(MessageLog!logVars)
  OBVIOUS
<1>1. ASSUME NEW kind \in Kinds, NEW text \in Texts, NEW url \in Texts,
             Log(kind, text, url)
      PROVE  MessageLog!Next
  BY <1>1, PushIsRecord DEF Log
<1>2. ASSUME NEW title \in Texts, NEW url \in Texts, Group(title, url)
      PROVE  MessageLog!Next
  BY <1>2, PushIsRecord DEF Group
<1>3. CASE GroupEnd \/ UNCHANGED vars
  <2>1. UNCHANGED ringVars
    BY <1>3 DEF GroupEnd, vars, ringVars
  <2> QED BY <2>1 DEF MessageLog!logVars, Retained, MessageAt, SlotAt, ringVars
<1>4. CASE Clear \/ Reset
  <2>1. count' = 0 /\ (totalLogged' = totalLogged \/ totalLogged' = 0)
    BY <1>4 DEF Clear, Reset
  <2>2. Retained' = << >>
    <3>1. Retained' = [i \in 1 .. count' |-> MessageAt(i - 1)']
      BY DEF Retained
    <3>2. 1 .. count' = {}
      BY <2>1
    <3> QED BY <3>1, <3>2
  <2> QED BY <2>1, <2>2 DEF MessageLog!Next, MessageLog!Clear, MessageLog!Restart
<1> QED BY <1>1, <1>2, <1>3, <1>4 DEF Next

LEMMA InitRefines == Init => MessageLog!Init
BY DEF Init, MessageLog!Init, Retained

\* For every capacity the ring implements the log of latest messages.
THEOREM ConsoleRefinesLog == Spec => RingIsLog
<1> QED BY InitRefines, InvHolds, StepRefines, PTL
        DEF Spec, RingIsLog, MessageLog!Spec

----------------------------------------------------------------------------
(* Pages.                                                                  *)

\* The loops that select and cut are what their recursions say.
LEMMA MatchingSteps ==
  ASSUME ConsoleInv
  PROVE  \E f : /\ f[0] = << >>
                /\ \A i \in 1 .. count :
                     f[i] = IF Selects(view.level, view.query, MessageAt(i - 1))
                            THEN Append(f[i - 1], MessageAt(i - 1)) ELSE f[i - 1]
                /\ Matching = f[count]
<1> DEFINE Chosen(i) == Selects(view.level, view.query, Retained[i])
           V == Seq(Message)
           step == [a \in Nat \X V |-> IF a[1] \in 1 .. count /\ Chosen(a[1])
                                       THEN Append(a[2], Retained[a[1]]) ELSE a[2]]
<1>1. /\ count \in Nat /\ \A i \in 1 .. count : Retained[i] = MessageAt(i - 1)
      /\ \A i \in 1 .. count : Retained[i] \in Message
  BY RetainedSeq, ElementOfSeq
<1>2. step \in [Nat \X V -> V] /\ << >> \in V
  BY <1>1
<1>3. PICK f \in [0 .. count -> V] : Recursive(f, count, << >>, step)
  <2> HIDE DEF V, step
  <2> QED BY <1>1, <1>2, Recursion
<1>4. ASSUME NEW i \in 1 .. count
      PROVE  f[i] = IF Chosen(i) THEN Append(f[i - 1], Retained[i]) ELSE f[i - 1]
  <2>1. i \in Nat /\ i - 1 \in 0 .. count
    BY <1>1
  <2>2. f[i - 1] \in V /\ f[i] = step[<<i, f[i - 1]>>]
    BY <2>1, <1>3 DEF Recursive
  <2> QED BY <2>1, <2>2
<1>5. f = [i \in 0 .. count |-> IF i = 0 THEN << >>
             ELSE IF Chosen(i) THEN Append(f[i - 1], Retained[i]) ELSE f[i - 1]]
  <2>1. f = [i \in 0 .. count |-> f[i]] /\ f[0] = << >>
    BY <1>3 DEF Recursive
  <2>2. \A i \in 0 .. count : i # 0 => i \in 1 .. count
    BY <1>1
  <2> HIDE DEF Chosen
  <2> QED BY <2>1, <2>2, <1>4
<1> HIDE DEF V, step
<1> DEFINE e == CHOOSE among : among = [i \in 0 .. count |-> IF i = 0 THEN << >>
                  ELSE IF Chosen(i) THEN Append(among[i - 1], Retained[i]) ELSE among[i - 1]]
<1>6. e = [i \in 0 .. count |-> IF i = 0 THEN << >>
             ELSE IF Chosen(i) THEN Append(e[i - 1], Retained[i]) ELSE e[i - 1]]
  <2> HIDE DEF Chosen
  <2> QED BY <1>5
<1>7. Matching = e[count]
  BY DEF Matching
<1> HIDE DEF e
<1>8. e[0] = << >> /\ \A i \in 1 .. count :
        e[i] = IF Chosen(i) THEN Append(e[i - 1], Retained[i]) ELSE e[i - 1]
  <2>1. 0 \in 0 .. count /\ \A i \in 1 .. count : i \in 0 .. count /\ i # 0
    BY <1>1
  <2> HIDE DEF Chosen
  <2> QED BY <2>1, <1>6
<1> QED BY <1>1, <1>7, <1>8

LEMMA ScanSteps ==
  ASSUME ConsoleInv, NEW offset \in Nat, NEW limit \in Nat
  PROVE  \E f : /\ f[0] = [matched |-> 0, out |-> << >>]
                /\ \A i \in 1 .. count :
                     f[i] = IF ~ Selects(view.level, view.query, MessageAt(i - 1)) THEN f[i - 1]
                            ELSE [matched |-> f[i - 1].matched + 1,
                                  out |-> IF f[i - 1].matched >= offset /\ Len(f[i - 1].out) < limit
                                          THEN Append(f[i - 1].out, MessageAt(i - 1))
                                          ELSE f[i - 1].out]
                /\ FilterAndPaginate(view.level, view.query, offset, limit) = f[count].out
<1> DEFINE Chosen(i) == Selects(view.level, view.query, MessageAt(i - 1))
           After(acc, i) ==
             IF ~ Chosen(i) THEN acc
             ELSE [matched |-> acc.matched + 1,
                   out |-> IF acc.matched >= offset /\ Len(acc.out) < limit
                           THEN Append(acc.out, MessageAt(i - 1)) ELSE acc.out]
           V == [matched : Nat, out : Seq(Message)]
           start == [matched |-> 0, out |-> << >>]
           step == [a \in Nat \X V |-> IF a[1] \in 1 .. count THEN After(a[2], a[1]) ELSE a[2]]
<1>1. /\ count \in Nat /\ \A i \in 1 .. count : MessageAt(i - 1) \in Message
  BY RetainedSeq, ElementOfSeq
<1>2. step \in [Nat \X V -> V] /\ start \in V
  <2>1. << >> \in Seq(Message)
    OBVIOUS
  <2>2. \A acc \in V, i \in 1 .. count : After(acc, i) \in V
    BY <1>1
  <2>3. start \in V
    BY <2>1
  <2> HIDE DEF After, V
  <2> QED BY <2>2, <2>3
<1>3. PICK f \in [0 .. count -> V] : Recursive(f, count, start, step)
  <2> HIDE DEF V, step, start
  <2> QED BY <1>1, <1>2, Recursion
<1>4. ASSUME NEW i \in 1 .. count PROVE f[i] = After(f[i - 1], i)
  <2>1. i \in Nat /\ i - 1 \in 0 .. count
    BY <1>1
  <2> HIDE DEF After, V
  <2>2. f[i - 1] \in V /\ f[i] = step[<<i, f[i - 1]>>]
    BY <2>1, <1>3 DEF Recursive
  <2> QED BY <2>1, <2>2
<1>5. f = [i \in 0 .. count |-> IF i = 0 THEN start ELSE After(f[i - 1], i)]
  <2>1. f = [i \in 0 .. count |-> f[i]] /\ f[0] = start
    BY <1>3 DEF Recursive
  <2>2. \A i \in 0 .. count : i # 0 => i \in 1 .. count
    BY <1>1
  <2> HIDE DEF After, start
  <2> QED BY <2>1, <2>2, <1>4
<1> HIDE DEF V, step
<1> DEFINE e == CHOOSE scan : scan = [i \in 0 .. count |->
                                        IF i = 0 THEN start ELSE After(scan[i - 1], i)]
<1>6. e = [i \in 0 .. count |-> IF i = 0 THEN start ELSE After(e[i - 1], i)]
  <2> HIDE DEF After, start
  <2> QED BY <1>5
<1>7. FilterAndPaginate(view.level, view.query, offset, limit) = e[count].out
  BY DEF FilterAndPaginate, OnPage, SlotToRead, MessageAt, SlotAt
<1> HIDE DEF e
<1>8. e[0] = start /\ \A i \in 1 .. count : e[i] = After(e[i - 1], i)
  <2>1. 0 \in 0 .. count /\ \A i \in 1 .. count : i \in 0 .. count /\ i # 0
    BY <1>1
  <2> HIDE DEF After, start
  <2> QED BY <2>1, <1>6
<1> QED BY <1>7, <1>8

\* Slices as a function of the sequence they are cut from, and how one more
\* element changes them.
LEMMA Cuts ==
  ASSUME NEW offset \in Nat, NEW limit \in Nat
  PROVE  \E cut : /\ \A q \in Seq(Message) :
                       cut[q] = SubSeq(q, offset + 1, Min({offset + limit, Len(q)}))
                  /\ cut[<< >>] = << >>
                  /\ \A q \in Seq(Message), e \in Message :
                       cut[Append(q, e)] = IF Len(q) >= offset /\ Len(cut[q]) < limit
                                           THEN Append(cut[q], e) ELSE cut[q]
<1> DEFINE cut == [q \in Seq(Message) |-> SubSeq(q, offset + 1, Min({offset + limit, Len(q)}))]
           none == << >>
<1>1. \A q \in Seq(Message) :
        cut[q] = SubSeq(q, offset + 1, Min({offset + limit, Len(q)}))
  OBVIOUS
<1>2. none \in Seq(Message) /\ Len(none) = 0
  OBVIOUS
<1> HIDE DEF cut, none
<1>3. cut[none] = none
  <2>1. ASSUME NEW q \in Seq(Message), Len(q) = 0
        PROVE  LET t == SubSeq(q, offset + 1, Min({offset + limit, Len(q)})) IN
               t \in Seq(Message) /\ Len(t) = 0
    <3> DEFINE t == SubSeq(q, offset + 1, Min({offset + limit, Len(q)}))
               n == IF Len(q) <= offset THEN 0
                    ELSE IF Len(q) <= offset + limit THEN Len(q) - offset ELSE limit
    <3>1. /\ t \in Seq(Message) /\ Len(t) = n /\ n \in Nat
          /\ \A i \in 1 .. n : t[i] = q[offset + i] /\ offset + i \in 1 .. Len(q)
      BY Slice
    <3>2. n = 0
      BY <2>1
    <3> HIDE DEF n
    <3> QED BY <3>1, <3>2
  <2> DEFINE t == SubSeq(none, offset + 1, Min({offset + limit, Len(none)}))
  <2>2. t \in Seq(Message) /\ Len(t) = 0
    BY <1>2, <2>1
  <2>3. cut[none] = t
    BY <1>1, <1>2
  <2> HIDE DEF t
  <2>4. cut[none] \in Seq(Message) /\ Len(cut[none]) = 0
    BY <2>2, <2>3
  <2> QED BY <1>2, <2>4, SeqEqual
<1>4. ASSUME NEW q \in Seq(Message), NEW e \in Message
      PROVE  cut[Append(q, e)] = IF Len(q) >= offset /\ Len(cut[q]) < limit
                                 THEN Append(cut[q], e) ELSE cut[q]
  <2> DEFINE more == Append(q, e)
             t == SubSeq(q, offset + 1, Min({offset + limit, Len(q)}))
             u == SubSeq(more, offset + 1, Min({offset + limit, Len(more)}))
  <2>1. u = IF Len(q) >= offset /\ Len(t) < limit THEN Append(t, e) ELSE t
    BY SliceMore
  <2>2. more \in Seq(Message)
    BY AppendProperties
  <2>3. cut[q] = t
    BY <1>1
  <2>4. cut[more] = u
    <3> HIDE DEF more
    <3> QED BY <1>1, <2>2
  <2> HIDE DEF t, u
  <2> QED BY <2>1, <2>3, <2>4
<1> QED BY <1>1, <1>3, <1>4 DEF none

\* The page is a slice of what is selected, whatever the offset.
LEMMA PageOf ==
  ASSUME ConsoleInv, NEW offset \in Nat, NEW limit \in Nat
  PROVE  /\ Matching \in Seq(Message)
         /\ FilterAndPaginate(view.level, view.query, offset, limit)
              = SubSeq(Matching, offset + 1, Min({offset + limit, Len(Matching)}))
<1> DEFINE chosen == {i \in 1 .. count : Selects(view.level, view.query, MessageAt(i - 1))}
           at == [i \in 1 .. count |-> MessageAt(i - 1)]
<1>a. PICK f : /\ f[0] = << >>
               /\ \A i \in 1 .. count :
                    f[i] = IF Selects(view.level, view.query, MessageAt(i - 1))
                           THEN Append(f[i - 1], MessageAt(i - 1)) ELSE f[i - 1]
               /\ Matching = f[count]
  BY MatchingSteps
<1>1. /\ f[0] = << >>
      /\ \A i \in 1 .. count :
           f[i] = IF i \in chosen THEN Append(f[i - 1], at[i]) ELSE f[i - 1]
      /\ Matching = f[count]
  BY <1>a
<1>b. PICK g :
        /\ g[0] = [matched |-> 0, out |-> << >>]
        /\ \A i \in 1 .. count :
             g[i] = IF ~ Selects(view.level, view.query, MessageAt(i - 1)) THEN g[i - 1]
                    ELSE [matched |-> g[i - 1].matched + 1,
                          out |-> IF g[i - 1].matched >= offset /\ Len(g[i - 1].out) < limit
                                  THEN Append(g[i - 1].out, MessageAt(i - 1))
                                  ELSE g[i - 1].out]
        /\ FilterAndPaginate(view.level, view.query, offset, limit) = g[count].out
  BY ScanSteps
<1>2. /\ g[0] = [matched |-> 0, out |-> << >>]
      /\ \A i \in 1 .. count :
           g[i] = IF i \notin chosen THEN g[i - 1]
                  ELSE [matched |-> g[i - 1].matched + 1,
                        out |-> IF g[i - 1].matched >= offset /\ Len(g[i - 1].out) < limit
                                THEN Append(g[i - 1].out, at[i]) ELSE g[i - 1].out]
      /\ FilterAndPaginate(view.level, view.query, offset, limit) = g[count].out
  <2>1. \A i \in 1 .. count : at[i] = MessageAt(i - 1)
    OBVIOUS
  <2>2. \A i \in 1 .. count : i \in chosen <=> Selects(view.level, view.query, MessageAt(i - 1))
    OBVIOUS
  <2> HIDE DEF at, chosen
  <2> QED BY <1>b, <2>1, <2>2
<1>3. PICK cut : /\ \A q \in Seq(Message) :
                       cut[q] = SubSeq(q, offset + 1, Min({offset + limit, Len(q)}))
                 /\ cut[<< >>] = << >>
                 /\ \A q \in Seq(Message), e \in Message :
                       cut[Append(q, e)] = IF Len(q) >= offset /\ Len(cut[q]) < limit
                                           THEN Append(cut[q], e) ELSE cut[q]
  BY Cuts
<1>4. /\ count \in Nat /\ \A i \in 1 .. count : at[i] \in Message
  BY RetainedSeq, ElementOfSeq
<1> HIDE DEF chosen, at
<1> DEFINE S == {i \in Nat : i <= count => /\ f[i] \in Seq(Message)
                                           /\ g[i].matched = Len(f[i])
                                           /\ g[i].out = cut[f[i]]}
<1>5. 0 \in S
  <2> DEFINE none == << >>
  <2>1. none \in Seq(Message) /\ Len(none) = 0
    OBVIOUS
  <2>2. f[0] = none /\ cut[none] = none /\ g[0].matched = 0 /\ g[0].out = none
    BY <1>1, <1>2, <1>3
  <2> HIDE DEF none
  <2> QED BY <2>1, <2>2
<1>6. ASSUME NEW i \in Nat, i \in S PROVE i + 1 \in S
  <2> SUFFICES ASSUME i + 1 <= count
               PROVE  /\ f[i + 1] \in Seq(Message)
                      /\ g[i + 1].matched = Len(f[i + 1])
                      /\ g[i + 1].out = cut[f[i + 1]]
    OBVIOUS
  <2>1. i + 1 \in 1 .. count /\ (i + 1) - 1 = i /\ i <= count
    BY <1>4
  <2> DEFINE q == f[i]
             e == at[i + 1]
             acc == g[i]
  <2>2. q \in Seq(Message) /\ acc.matched = Len(q) /\ acc.out = cut[q] /\ e \in Message
    BY <2>1, <1>4, <1>6
  <2>3. f[i + 1] = IF i + 1 \in chosen THEN Append(q, e) ELSE q
    BY <2>1, <1>1
  <2>4. g[i + 1] = IF i + 1 \notin chosen THEN acc
                   ELSE [matched |-> acc.matched + 1,
                         out |-> IF acc.matched >= offset /\ Len(acc.out) < limit
                                 THEN Append(acc.out, e) ELSE acc.out]
    BY <2>1, <1>2
  <2> HIDE DEF q, e, acc
  <2>5. CASE i + 1 \notin chosen
    BY <2>2, <2>3, <2>4, <2>5
  <2>6. CASE i + 1 \in chosen
    <3>1. f[i + 1] = Append(q, e)
      BY <2>3, <2>6
    <3>2. Append(q, e) \in Seq(Message) /\ Len(Append(q, e)) = Len(q) + 1
      BY <2>2, AppendProperties
    <3>3. cut[Append(q, e)] = IF Len(q) >= offset /\ Len(cut[q]) < limit
                              THEN Append(cut[q], e) ELSE cut[q]
      BY <1>3, <2>2
    <3>4. /\ g[i + 1].matched = acc.matched + 1
          /\ g[i + 1].out = IF acc.matched >= offset /\ Len(acc.out) < limit
                            THEN Append(acc.out, e) ELSE acc.out
      BY <2>4, <2>6
    <3>5. g[i + 1].out = cut[Append(q, e)]
      BY <2>2, <3>3, <3>4
    <3> QED BY <2>2, <3>1, <3>2, <3>4, <3>5
  <2> QED BY <2>5, <2>6
<1>7. \A i \in Nat : i \in S
  <2> HIDE DEF S
  <2> QED BY <1>5, <1>6, Induction
<1>8. f[count] \in Seq(Message) /\ g[count].out = cut[f[count]]
  <2>1. count \in S
    <3> HIDE DEF S
    <3> QED BY <1>4, <1>7
  <2> QED BY <2>1, <1>4
<1> QED BY <1>1, <1>2, <1>3, <1>8

----------------------------------------------------------------------------
(* Reading on.                                                             *)

\* f collects, one by one, the chosen ones of n messages numbered from base.
Collects(f, chosen, V, at, n, base) ==
  /\ f[0] = << >>
  /\ \A i \in 1 .. n : /\ at[i] \in V /\ at[i].id = base + i
                       /\ f[i] = IF i \in chosen THEN Append(f[i - 1], at[i]) ELSE f[i - 1]

\* What has been collected in q.
Selection(q, chosen, n, base) ==
  /\ \A i, j \in 1 .. Len(q) : i < j => q[i].id < q[j].id
  /\ \A i \in 1 .. Len(q) : \E k \in 1 .. n : k \in chosen /\ q[i].id = base + k
  /\ \A k \in 1 .. n : k \in chosen => \E i \in 1 .. Len(q) : q[i].id = base + k

\* Numbers going up, and m as the list of all of W.
Ascends(s, n) == \A i, j \in 1 .. n : i < j => s[i] < s[j]
Lists(m, M, W) ==
  /\ Ascends(m, M)
  /\ \A i \in 1 .. M : m[i] \in W
  /\ \A n \in W : \E i \in 1 .. M : m[i] = n

\* W has no more numbers up to the last one of s than s has.
Covers(s, W) == Len(s) # 0 => Cardinality({n \in W : n <= s[Len(s)]}) <= Len(s)

\* t goes on after s with p numbers from m.
Continues(t, s, m, p) ==
  /\ Len(t) = Len(s) + p
  /\ \A i \in 1 .. Len(s) : t[i] = s[i]
  /\ \A i \in 1 .. p : t[Len(s) + i] = m[Len(s) + i]

\* t is the part of q from offset on, p long.
IsCut(t, q, offset, p) ==
  /\ t \in Seq(Message) /\ Len(t) = p
  /\ p = 0 \/ offset + p <= Len(q)
  /\ \A i \in 1 .. p : t[i] = q[offset + i] /\ offset + i \in 1 .. Len(q)

\* The numbers of s that are not wanted any more are among the last ones lost;
\* the ones below the last of s that it does not have.
Keeps(s, W, gone, lost) ==
  \A k \in 1 .. Len(s) : gone - lost < s[k] /\ (s[k] > gone => s[k] \in W)
Missed(m, M, s) ==
  {i \in 1 .. M : m[i] < s[Len(s)] /\ ~ \E k \in 1 .. Len(s) : s[k] = m[i]}

LEMMA CutOut ==
  ASSUME NEW q \in Seq(Message), NEW offset \in Nat, NEW limit \in Nat
  PROVE  \E p \in Nat : IsCut(SubSeq(q, offset + 1, Min({offset + limit, Len(q)})), q, offset, p)
<1> DEFINE t == SubSeq(q, offset + 1, Min({offset + limit, Len(q)}))
           n == IF Len(q) <= offset THEN 0
                ELSE IF Len(q) <= offset + limit THEN Len(q) - offset ELSE limit
<1>1. /\ t \in Seq(Message) /\ Len(t) = n /\ n \in Nat
      /\ \A i \in 1 .. n : t[i] = q[offset + i] /\ offset + i \in 1 .. Len(q)
  BY Slice
<1>2. n = 0 \/ offset + n <= Len(q)
  <2>1. Len(q) \in Nat
    OBVIOUS
  <2> QED BY <2>1
<1> HIDE DEF t, n
<1>3. IsCut(t, q, offset, n)
  BY <1>1, <1>2 DEF IsCut
<1> QED BY <1>1, <1>3 DEF t

LEMMA JoinedContinues ==
  ASSUME NEW s \in Seq(Nat), NEW g \in Seq(Nat), NEW m, NEW p \in Nat, Len(g) = p,
         \A i \in 1 .. p : g[i] = m[Len(s) + i]
  PROVE  s \o g \in Seq(Nat) /\ Continues(s \o g, s, m, p)
<1> DEFINE t == s \o g
<1>0. t = s \o g
  OBVIOUS
<1> HIDE DEF t
<1>1. /\ t \in Seq(Nat) /\ Len(t) = Len(s) + Len(g)
      /\ \A i \in 1 .. Len(s) : t[i] = s[i]
      /\ \A i \in 1 .. Len(g) : t[Len(s) + i] = g[i]
  BY ONLY <1>0, Joined, s \in Seq(Nat), g \in Seq(Nat)
<1>2. Continues(t, s, m, p)
  BY <1>1 DEF Continues
<1> QED BY <1>1, <1>2 DEF t

\* The messages collected: their numbers go up, and every chosen number is there.
LEMMA Filtered ==
  ASSUME NEW V, NEW n \in Nat, NEW at, NEW chosen, NEW base \in Nat, NEW f,
         Collects(f, chosen, V, at, n, base)
  PROVE  f[n] \in Seq(V) /\ Selection(f[n], chosen, n, base)
<1> USE DEF Collects
<1> DEFINE S == {m \in Nat : m <= n =>
                   /\ f[m] \in Seq(V)
                   /\ \A i, j \in 1 .. Len(f[m]) : i < j => f[m][i].id < f[m][j].id
                   /\ \A i \in 1 .. Len(f[m]) : \E k \in 1 .. m : k \in chosen /\ f[m][i].id = base + k
                   /\ \A k \in 1 .. m : k \in chosen => \E i \in 1 .. Len(f[m]) : f[m][i].id = base + k}
<1>1. 0 \in S
  <2> DEFINE none == << >>
  <2>1. none \in Seq(V) /\ Len(none) = 0
    OBVIOUS
  <2> HIDE DEF none
  <2>2. f[0] = none /\ 1 .. 0 = {}
    BY DEF none
  <2> QED BY <2>1, <2>2
<1>2. ASSUME NEW m \in Nat, m \in S PROVE m + 1 \in S
  <2> SUFFICES ASSUME m + 1 <= n
               PROVE  /\ f[m + 1] \in Seq(V)
                      /\ \A i, j \in 1 .. Len(f[m + 1]) : i < j => f[m + 1][i].id < f[m + 1][j].id
                      /\ \A i \in 1 .. Len(f[m + 1]) :
                           \E k \in 1 .. m + 1 : k \in chosen /\ f[m + 1][i].id = base + k
                      /\ \A k \in 1 .. m + 1 :
                           k \in chosen => \E i \in 1 .. Len(f[m + 1]) : f[m + 1][i].id = base + k
    OBVIOUS
  <2> DEFINE q == f[m]
             e == at[m + 1]
             t == f[m + 1]
  <2>1. /\ q \in Seq(V)
        /\ \A i, j \in 1 .. Len(q) : i < j => q[i].id < q[j].id
        /\ \A i \in 1 .. Len(q) : \E k \in 1 .. m : k \in chosen /\ q[i].id = base + k
        /\ \A k \in 1 .. m : k \in chosen => \E i \in 1 .. Len(q) : q[i].id = base + k
    BY <1>2
  <2>2. e \in V /\ e.id = base + (m + 1) /\ t = IF m + 1 \in chosen THEN Append(q, e) ELSE q
    <3>1. m + 1 \in 1 .. n /\ (m + 1) - 1 = m
      OBVIOUS
    <3> QED BY <3>1
  <2> HIDE DEF q, e, t
  <2>3. CASE m + 1 \notin chosen
    <3>1. t = q
      BY <2>2, <2>3
    <3>2. \A k \in 1 .. m + 1 : k \in chosen => k \in 1 .. m
      BY <2>3
    <3>3. \A k \in 1 .. m : k \in 1 .. m + 1
      OBVIOUS
    <3> QED BY <2>1, <3>1, <3>2, <3>3 DEF t
  <2>4. CASE m + 1 \in chosen
    <3>1. /\ t \in Seq(V) /\ Len(t) = Len(q) + 1 /\ Len(q) \in Nat
          /\ t[Len(q) + 1] = e
          /\ \A i \in 1 .. Len(q) : t[i] = q[i]
      BY <2>1, <2>2, <2>4, AppendProperties
    <3>2. \A i \in 1 .. Len(t) : i \in 1 .. Len(q) \/ i = Len(q) + 1
      BY <3>1
    <3>3. ASSUME NEW i \in 1 .. Len(t), NEW j \in 1 .. Len(t), i < j
          PROVE  t[i].id < t[j].id
      <4>1. i \in 1 .. Len(q)
        BY <3>1, <3>3
      <4>2. CASE j \in 1 .. Len(q)
        BY <4>1, <4>2, <3>1, <3>3, <2>1
      <4>3. CASE j = Len(q) + 1
        <5>1. PICK k \in 1 .. m : q[i].id = base + k
          BY <4>1, <2>1
        <5>2. base + k < base + (m + 1)
          OBVIOUS
        <5> QED BY <4>1, <4>3, <5>1, <5>2, <3>1, <2>2
      <4> QED BY <3>2, <4>2, <4>3
    <3>4. ASSUME NEW i \in 1 .. Len(t)
          PROVE  \E k \in 1 .. m + 1 : k \in chosen /\ t[i].id = base + k
      <4>1. CASE i \in 1 .. Len(q)
        <5>1. PICK k \in 1 .. m : k \in chosen /\ q[i].id = base + k
          BY <4>1, <2>1
        <5>2. k \in 1 .. m + 1
          OBVIOUS
        <5> QED BY <4>1, <5>1, <5>2, <3>1
      <4>2. CASE i = Len(q) + 1
        <5>1. m + 1 \in 1 .. m + 1
          OBVIOUS
        <5> QED BY <4>2, <5>1, <3>1, <2>2, <2>4
      <4> QED BY <3>2, <4>1, <4>2
    <3>5. ASSUME NEW k \in 1 .. m + 1, k \in chosen
          PROVE  \E i \in 1 .. Len(t) : t[i].id = base + k
      <4>1. CASE k \in 1 .. m
        <5>1. PICK i \in 1 .. Len(q) : q[i].id = base + k
          BY <4>1, <3>5, <2>1
        <5>2. i \in 1 .. Len(t)
          BY <3>1
        <5> QED BY <5>1, <5>2, <3>1
      <4>2. CASE k = m + 1
        <5>1. Len(q) + 1 \in 1 .. Len(t)
          BY <3>1
        <5> QED BY <4>2, <5>1, <3>1, <2>2
      <4>3. k \in 1 .. m \/ k = m + 1
        OBVIOUS
      <4> QED BY <4>1, <4>2, <4>3
    <3> QED BY <3>1, <3>3, <3>4, <3>5 DEF t
  <2> QED BY <2>3, <2>4
<1>3. \A m \in Nat : m \in S
  <2> HIDE DEF S
  <2> QED BY <1>1, <1>2, Induction
<1>4. n \in S
  <2> HIDE DEF S
  <2> QED BY <1>3
<1> QED BY <1>4 DEF Selection

\* Going on after the Len(s) numbers read: the next ones wanted are greater
\* than the last one read, and t then has read enough of them.
LEMMA OnePage ==
  ASSUME NEW W \in SUBSET Nat, IsFiniteSet(W), NEW M \in Nat, NEW m, Lists(m, M, W),
         NEW s \in Seq(Nat), Ascends(s, Len(s)), Covers(s, W),
         NEW p \in Nat, p = 0 \/ Len(s) + p <= M,
         NEW t \in Seq(Nat), Continues(t, s, m, p)
  PROVE  Ascends(t, Len(t)) /\ Covers(t, W)
<1> USE DEF Ascends, Lists, Covers, Continues
<1> DEFINE L == Len(s)
<1>1. L \in Nat /\ \A i \in 1 .. L : s[i] \in Nat
  BY ElementOfSeq
<1>2. \A i \in 1 .. M : m[i] \in Nat
  OBVIOUS
<1>a. /\ Len(t) = L + p
      /\ \A i \in 1 .. L : t[i] = s[i]
      /\ \A i, j \in 1 .. L : i < j => s[i] < s[j]
      /\ \A i \in 1 .. p : t[L + i] = m[L + i] /\ L + i \in 1 .. M
  <2>1. \A i \in 1 .. p : L + i \in 1 .. M
    BY <1>1
  <2> HIDE DEF L
  <2> QED BY <2>1 DEF L
<1>3. ASSUME p > 0, L > 0 PROVE s[L] < m[L + 1]
  <2> SUFFICES ASSUME m[L + 1] <= s[L] PROVE FALSE
    BY <1>1, <1>2, <1>3
  <2> DEFINE A == {n \in W : n <= s[L]}
  <2>1. L \in 1 .. L /\ s[L] \in Nat /\ L + 1 \in 1 .. M
    BY <1>1, <1>3
  <2>2. \A i \in 1 .. L + 1 : i \in 1 .. M /\ (i = L + 1 \/ i < L + 1)
    BY <1>1, <2>1
  <2>3. \A i \in 1 .. L + 1 : m[i] <= m[L + 1]
    <3>1. \A a, b \in 1 .. M : a < b => m[a] < m[b]
      OBVIOUS
    <3> QED BY ONLY <1>2, <2>1, <2>2, <3>1
  <2>4. \A i \in 1 .. L + 1 : m[i] \in A
    BY <1>2, <2>1, <2>2, <2>3
  <2>5. ASSUME NEW i \in 1 .. L + 1, NEW j \in 1 .. L + 1, m[i] = m[j] PROVE i = j
    <3>1. i \in 1 .. M /\ j \in 1 .. M /\ m[i] \in Nat /\ m[j] \in Nat
      BY <1>2, <2>2
    <3>2. \A a, b \in 1 .. M : a < b => m[a] < m[b]
      OBVIOUS
    <3>3. ~ (i < j) /\ ~ (j < i)
      BY ONLY <3>1, <3>2, <2>5
    <3> QED BY ONLY <3>1, <3>3, M \in Nat
  <2>6. IsFiniteSet(A) /\ Cardinality(A) <= L /\ Cardinality(A) \in Nat
    <3>1. IsFiniteSet(A)
      BY FS_Subset
    <3> QED BY <3>1, <1>3, FS_CardinalityType
  <2> HIDE DEF A
  <2>7. Cardinality(1 .. L + 1) <= Cardinality(A)
    BY <2>4, <2>5, <2>6, Injected
  <2>8. Cardinality(1 .. L + 1) = L + 1
    BY <1>1, UpTo
  <2> QED BY <1>1, <2>6, <2>7, <2>8
<1> HIDE DEF L
<1>4. \A i \in 1 .. Len(t) : i \in 1 .. L \/ \E k \in 1 .. p : i = L + k
  <2>1. ASSUME NEW i \in 1 .. Len(t), ~ (i \in 1 .. L)
        PROVE  i - L \in 1 .. p /\ i = L + (i - L)
    BY <1>1, <1>a, <2>1
  <2> QED BY <2>1
<1>5. ASSUME NEW i \in 1 .. Len(t), NEW j \in 1 .. Len(t), i < j
      PROVE  t[i] < t[j]
  <2>1. CASE j \in 1 .. L
    <3>1. i \in 1 .. L
      BY <1>5, <2>1, <1>1, <1>a
    <3> QED BY <1>5, <1>a, <2>1, <3>1
  <2>2. ASSUME NEW k \in 1 .. p, j = L + k PROVE t[i] < t[j]
    <3>1. t[j] = m[L + k] /\ L + k \in 1 .. M /\ L + 1 \in 1 .. M
      BY <2>2, <1>1, <1>a
    <3>2. m[L + 1] <= m[L + k] /\ m[L + 1] \in Nat /\ m[L + k] \in Nat
      <4>1. k = 1 \/ L + 1 < L + k
        BY ONLY <1>1, k \in 1 .. p, p \in Nat
      <4>2. \A a, b \in 1 .. M : a < b => m[a] < m[b]
        OBVIOUS
      <4> QED BY ONLY <3>1, <4>1, <4>2, <1>2
    <3>3. CASE i \in 1 .. L
      <4>1. s[i] <= s[L] /\ s[i] \in Nat /\ s[L] \in Nat /\ L > 0
        <5>1. L \in 1 .. L /\ (i = L \/ i < L) /\ L > 0
          BY ONLY <1>1, <3>3
        <5> QED BY ONLY <5>1, <1>1, <1>a, <3>3
      <4>2. s[L] < m[L + 1]
        BY <1>3, <4>1
      <4>3. t[i] = s[i]
        BY <1>a, <3>3
      <4>4. s[i] < m[L + k]
        <5> DEFINE x == m[L + k]
                   y == m[L + 1]
        <5>1. /\ s[i] \in Nat /\ s[L] \in Nat /\ x \in Nat /\ y \in Nat
              /\ s[i] <= s[L] /\ s[L] < y /\ y <= x
          BY ONLY <4>1, <4>2, <3>2
        <5> HIDE DEF x, y
        <5>2. s[i] < x
          BY ONLY <5>1
        <5> QED BY <5>2 DEF x
      <4> QED BY <4>3, <4>4, <3>1
    <3>4. ASSUME NEW l \in 1 .. p, i = L + l PROVE t[i] < t[j]
      <4>1. t[i] = m[L + l] /\ L + l \in 1 .. M /\ L + l < L + k
        BY <1>5, <2>2, <3>4, <1>1, <1>a
      <4> QED BY <4>1, <3>1
    <3> QED BY <1>4, <3>3, <3>4
  <2> QED BY <1>4, <2>1, <2>2
<1>6. ASSUME Len(t) # 0
      PROVE  Cardinality({n \in W : n <= t[Len(t)]}) <= Len(t)
  <2>1. CASE p = 0
    <3>1. Len(t) = L /\ L \in 1 .. L
      BY <1>1, <1>a, <1>6, <2>1
    <3>2. t[Len(t)] = s[L]
      BY <3>1, <1>a
    <3>3. Len(t) = Len(s) /\ t[Len(t)] = s[Len(s)]
      BY <3>1, <3>2 DEF L
    <3> QED BY <3>3, <1>6
  <2>2. CASE p # 0
    <3> DEFINE A == {n \in W : n <= m[L + p]}
    <3>0. p \in 1 .. p
      BY <2>2
    <3>1. p \in 1 .. p /\ Len(t) = L + p /\ L + p \in 1 .. M
      BY <3>0, <1>a
    <3>2. t[Len(t)] = m[L + p]
      BY <3>1, <1>a
    <3>3. \A n \in A : \E i \in 1 .. L + p : m[i] = n
      <4> SUFFICES ASSUME NEW n \in W, n <= m[L + p] PROVE \E i \in 1 .. L + p : m[i] = n
        OBVIOUS
      <4>1. PICK i \in 1 .. M : m[i] = n
        OBVIOUS
      <4>2. ~ (L + p < i)
        BY <4>1, <1>2, <3>1
      <4>3. i \in 1 .. L + p
        BY <4>2, <1>1, <1>a
      <4> QED BY <4>1, <4>3
    <3>4. L + p \in Nat
      BY <1>1, <1>a
    <3> HIDE DEF A
    <3>5. Cardinality(A) <= L + p
      BY <3>3, <3>4, Enumerated
    <3> QED BY <3>1, <3>2, <3>5 DEF A
  <2> QED BY <2>1, <2>2
<1> QED BY <1>5, <1>6

\* What a reader has missed is no more than what is gone: for each number that
\* should have been in s, s has one that is not wanted any more.
LEMMA Missing ==
  ASSUME NEW W \in SUBSET Nat, IsFiniteSet(W), NEW M \in Nat, NEW m, Lists(m, M, W),
         NEW s \in Seq(Nat), Ascends(s, Len(s)), Covers(s, W), Len(s) # 0,
         NEW gone \in Nat, NEW lost \in Nat, Keeps(s, W, gone, lost)
  PROVE  Cardinality(Missed(m, M, s)) <= lost
<1> USE DEF Ascends, Lists, Covers, Keeps
<1> DEFINE L == Len(s)
           A == {n \in W : n <= s[L]}
           B == {n \in A : \E k \in 1 .. L : s[k] = n}
           C == A \ B
           G == {k \in 1 .. L : s[k] <= gone}
           H == (1 .. L) \ G
           miss == {i \in 1 .. M : m[i] < s[L] /\ ~ \E k \in 1 .. L : s[k] = m[i]}
<1>1. L \in Nat /\ L \in 1 .. L /\ \A i \in 1 .. L : s[i] \in Nat
  BY ElementOfSeq
<1>2. \A i \in 1 .. M : m[i] \in Nat
  OBVIOUS
<1>3. /\ \A i \in 1 .. L : s[i] <= s[L]
      /\ \A i, j \in 1 .. L : s[i] = s[j] => i = j
  <2>1. \A i, j \in 1 .. L : i < j => s[i] < s[j]
    OBVIOUS
  <2>2. \A i \in 1 .. L : i = L \/ i < L
    BY ONLY <1>1
  <2>3. \A i, j \in 1 .. L : i = j \/ i < j \/ j < i
    BY ONLY <1>1
  <2>4. \A i \in 1 .. L : s[i] <= s[L]
    BY ONLY <1>1, <2>1, <2>2
  <2>5. \A i, j \in 1 .. L : s[i] = s[j] => i = j
    BY ONLY <1>1, <2>1, <2>3
  <2> QED BY ONLY <2>4, <2>5
<1>4. /\ \A i \in miss : m[i] \in C
      /\ \A i, j \in miss : m[i] = m[j] => i = j
  BY <1>1, <1>2
<1>5. /\ \A k \in H : s[k] \in B
      /\ \A i, j \in H : s[i] = s[j] => i = j
  BY <1>1, <1>3
<1>6. /\ \A k \in G : s[k] \in gone - lost + 1 .. gone
      /\ \A i, j \in G : s[i] = s[j] => i = j
  BY <1>1, <1>3
<1>7. IsFiniteSet(A) /\ B \subseteq A /\ G \subseteq 1 .. L
  BY FS_Subset
<1>8. Cardinality(A) <= L
  OBVIOUS
<1> HIDE DEF A, B, G
<1>9. IsFiniteSet(B) /\ IsFiniteSet(C) /\ Cardinality(C) = Cardinality(A) - Cardinality(B)
  <2>1. A \cap B = B
    BY <1>7
  <2>2. IsFiniteSet(B)
    BY <1>7, FS_Subset
  <2> QED BY <2>1, <2>2, <1>7, FS_Difference
<1>10. IsFiniteSet(G) /\ IsFiniteSet(H) /\ Cardinality(H) = L - Cardinality(G)
  <2>1. IsFiniteSet(1 .. L) /\ Cardinality(1 .. L) = L
    BY <1>1, UpTo
  <2>2. (1 .. L) \cap G = G
    BY <1>7
  <2>3. IsFiniteSet(G)
    BY <2>1, <1>7, FS_Subset
  <2> DEFINE all == 1 .. L
  <2>4. IsFiniteSet(all) /\ all \cap G = G /\ Cardinality(all) = L
    BY <2>1, <2>2
  <2> HIDE DEF all
  <2>5. IsFiniteSet(all \ G)
    BY <2>4, FS_Subset
  <2>6. Cardinality(all \ G) = Cardinality(all) - Cardinality(all \cap G)
    BY <2>4, FS_Difference
  <2> QED BY <2>3, <2>4, <2>5, <2>6 DEF all
<1> HIDE DEF C, H, miss
<1>11. Cardinality(miss) <= Cardinality(C) /\ Cardinality(miss) \in Nat
  BY <1>4, <1>9, Injected
<1>12. Cardinality(H) <= Cardinality(B) /\ Cardinality(H) \in Nat
  BY <1>5, <1>9, Injected
<1>13. Cardinality(G) <= lost /\ Cardinality(G) \in Nat
  <2> DEFINE old == gone - lost + 1 .. gone
  <2>1. IsFiniteSet(old) /\ Cardinality(old) = lost
    <3>1. /\ gone - lost + 1 \in Int /\ gone \in Int /\ gone - (gone - lost + 1) + 1 = lost
          /\ (gone - lost + 1 > gone => lost = 0)
      OBVIOUS
    <3> QED BY <3>1, FS_Interval
  <2> HIDE DEF old
  <2>2. \A k \in G : s[k] \in old
    BY <1>6 DEF old
  <2> QED BY <1>6, <2>1, <2>2, Injected
<1>14. Cardinality(A) \in Nat /\ Cardinality(B) \in Nat
  BY <1>7, <1>9, FS_CardinalityType
<1>15. Cardinality(miss) <= lost
  <2> DEFINE a == Cardinality(A)
             b == Cardinality(B)
             g == Cardinality(G)
             x == Cardinality(miss)
  <2>1. /\ a \in Nat /\ b \in Nat /\ g \in Nat /\ x \in Nat
        /\ a <= L /\ x <= a - b /\ L - g <= b /\ g <= lost
    BY <1>8, <1>9, <1>10, <1>11, <1>12, <1>13, <1>14
  <2> HIDE DEF a, b, g, x, L
  <2>2. x <= lost
    BY <2>1, <1>1
  <2> QED BY <2>2 DEF x
<1> QED BY <1>15 DEF miss, Missed

\* Numbers the console has given away, and the numbers of the messages it has
\* that the filter selects.
Gone == totalLogged - count
Numbered(n) == MessageAt(n - Gone - 1)
Wanted == {n \in Gone + 1 .. totalLogged : Selects(view.level, view.query, Numbered(n))}

\* What has been read, while ids do not start again: numbers going up, of
\* messages still wanted or given away since reading started; and of the
\* messages wanted up to the last one read there are no more than were read.
ReadingInv ==
  /\ Ascends(seen, Len(seen))
  /\ \A k \in 1 .. Len(seen) : /\ Gone - dropped < seen[k] /\ seen[k] <= totalLogged
                               /\ seen[k] > Gone => seen[k] \in Wanted
  /\ Covers(seen, Wanted)

PagingInv ==
  /\ ConsoleInv
  /\ count <= totalLogged
  /\ seen \in Seq(Nat)
  /\ dropped \in Nat
  /\ totalLogged < IdModulus => ReadingInv

LEMMA Numbers ==
  ASSUME PagingInv
  PROVE  /\ count \in Nat /\ totalLogged \in Nat /\ Gone \in Nat
         /\ IdModulus \in Nat \ {0}
         /\ Wanted \in SUBSET Nat /\ IsFiniteSet(Wanted)
         /\ \A n \in Wanted : Gone < n /\ n <= totalLogged
<1>1. /\ count \in Nat /\ totalLogged \in Nat /\ IdModulus \in Nat \ {0}
      /\ count <= totalLogged
  BY ConsoleAssumption DEF PagingInv, ConsoleInv, TypeOK
<1>2. Gone \in Nat
  BY <1>1 DEF Gone
<1>3. IsFiniteSet(Gone + 1 .. totalLogged)
  BY <1>1, <1>2, FS_Interval
<1>4. Wanted \subseteq Gone + 1 .. totalLogged
  BY DEF Wanted
<1>5. IsFiniteSet(Wanted)
  BY <1>3, <1>4, FS_Subset
<1> QED BY <1>1, <1>2, <1>4, <1>5

\* What the filter selects, by number.
LEMMA MatchingIs ==
  ASSUME PagingInv, totalLogged < IdModulus
  PROVE  /\ Matching \in Seq(Message)
         /\ \A i, j \in 1 .. Len(Matching) : i < j => Matching[i].id < Matching[j].id
         /\ \A i \in 1 .. Len(Matching) : Matching[i].id \in Wanted
         /\ \A n \in Wanted : \E i \in 1 .. Len(Matching) : Matching[i].id = n
<1> DEFINE chosen == {i \in 1 .. count : Selects(view.level, view.query, MessageAt(i - 1))}
           at == [i \in 1 .. count |-> MessageAt(i - 1)]
<1>1. /\ count \in Nat /\ totalLogged \in Nat /\ Gone \in Nat /\ Gone = totalLogged - count
      /\ IdModulus \in Nat \ {0}
  BY Numbers DEF Gone
<1>2. ConsoleInv
  BY DEF PagingInv
<1>3. PICK f : /\ f[0] = << >>
               /\ \A i \in 1 .. count :
                    f[i] = IF Selects(view.level, view.query, MessageAt(i - 1))
                           THEN Append(f[i - 1], MessageAt(i - 1)) ELSE f[i - 1]
               /\ Matching = f[count]
  BY <1>2, MatchingSteps
<1>4. ASSUME NEW i \in 1 .. count
      PROVE  /\ at[i] \in Message /\ at[i].id = Gone + i
             /\ f[i] = IF i \in chosen THEN Append(f[i - 1], at[i]) ELSE f[i - 1]
  <2>1. MessageAt(i - 1) \in Message
    BY <1>1, <1>2, RetainedSeq, ElementOfSeq
  <2>2. MessageAt(i - 1).id = (totalLogged - (count - 1 - (i - 1))) % IdModulus
    <3>1. i - 1 \in 0 .. count - 1
      BY <1>1
    <3> QED BY <1>2, <3>1 DEF ConsoleInv, IdsConsecutive
  <2>3. totalLogged - (count - 1 - (i - 1)) = Gone + i /\ Gone + i \in Nat /\ Gone + i < IdModulus
    BY <1>1
  <2>4. (Gone + i) % IdModulus = Gone + i
    BY <1>1, <2>3, ModBelow
  <2> QED BY <1>3, <2>1, <2>2, <2>3, <2>4
<1>5. \A n \in Nat : n \in Wanted <=> \E k \in 1 .. count : k \in chosen /\ n = Gone + k
  <2>1. ASSUME NEW n \in Wanted
        PROVE  n - Gone \in 1 .. count /\ n - Gone \in chosen /\ n = Gone + (n - Gone)
    <3>1. n \in Gone + 1 .. totalLogged
          /\ Selects(view.level, view.query, MessageAt(n - Gone - 1))
      BY DEF Wanted, Numbered
    <3>2. n - Gone \in 1 .. count /\ n = Gone + (n - Gone)
      BY <3>1, <1>1
    <3> QED BY <3>1, <3>2
  <2>2. ASSUME NEW k \in 1 .. count, k \in chosen
        PROVE  Gone + k \in Wanted
    <3>1. Gone + k \in Gone + 1 .. totalLogged /\ (Gone + k) - Gone - 1 = k - 1
      BY <1>1
    <3>2. Selects(view.level, view.query, MessageAt(k - 1))
      BY <2>2
    <3> QED BY <3>1, <3>2 DEF Wanted, Numbered
  <2> HIDE DEF chosen
  <2> QED BY <2>1, <2>2
<1> HIDE DEF chosen, at
<1>a. Collects(f, chosen, Message, at, count, Gone)
  BY <1>3, <1>4 DEF Collects
<1> DEFINE q == f[count]
<1>6. q \in Seq(Message) /\ Selection(q, chosen, count, Gone)
  BY <1>1, <1>a, Filtered
<1> HIDE DEF q
<1>7. /\ q \in Seq(Message)
      /\ \A i, j \in 1 .. Len(q) : i < j => q[i].id < q[j].id
      /\ \A i \in 1 .. Len(q) : \E k \in 1 .. count : k \in chosen /\ q[i].id = Gone + k
      /\ \A k \in 1 .. count : k \in chosen => \E i \in 1 .. Len(q) : q[i].id = Gone + k
  BY <1>6 DEF Selection
<1>8. ASSUME NEW i \in 1 .. Len(q) PROVE q[i].id \in Wanted
  <2>1. PICK k \in 1 .. count : k \in chosen /\ q[i].id = Gone + k
    BY <1>7
  <2>2. Gone + k \in Nat
    BY <1>1
  <2> QED BY <2>1, <2>2, <1>5
<1>9. \A n \in Wanted : n \in Nat
  BY <1>1 DEF Wanted
<1>10. ASSUME NEW n \in Wanted PROVE \E i \in 1 .. Len(q) : q[i].id = n
  <2>1. PICK k \in 1 .. count : k \in chosen /\ n = Gone + k
    BY <1>5, <1>9
  <2> QED BY <2>1, <1>7
<1>11. Matching = q
  BY <1>3 DEF q
<1> QED BY <1>7, <1>8, <1>10, <1>11

----------------------------------------------------------------------------
\* What a step of the engine leaves of the numbers wanted.
LEMMA EngineEffect ==
  ASSUME PagingInv, ConsoleInv', Engine
  PROVE  /\ totalLogged' \in Nat /\ totalLogged <= totalLogged' /\ count' <= totalLogged'
         /\ Gone' \in Nat /\ Gone <= Gone' /\ Gone' - dropped' = Gone - dropped
         /\ dropped' \in Nat /\ seen' = seen
         /\ \A n \in Gone' + 1 .. totalLogged : n \in Wanted' <=> n \in Wanted
<1>1. /\ count \in Nat /\ totalLogged \in Nat /\ Gone \in Nat /\ Gone = totalLogged - count
      /\ count <= totalLogged /\ dropped \in Nat /\ ConsoleInv /\ TypeOK /\ Filled
  BY Numbers DEF Gone, PagingInv, ConsoleInv
<1>2. /\ Next /\ ~ Reset /\ view' = view /\ seen' = seen
      /\ dropped' = dropped + (totalLogged' - totalLogged) - (count' - count)
      /\ Gone' = totalLogged' - count'
  BY DEF Engine, Gone
<1>3. /\ Capacity \in Nat \ {0} /\ count \in 0 .. Capacity
  BY <1>1, ConsoleAssumption DEF TypeOK
<1> DEFINE Stays == \A n \in Gone' + 1 .. totalLogged :
                      n <= totalLogged' /\ Numbered(n)' = Numbered(n)
<1>4. ASSUME NEW kind \in Kinds \union {GroupKind}, NEW text \in Texts, NEW url \in Texts,
             AddMessage(kind, text, url)
      PROVE  /\ totalLogged' = totalLogged + 1
             /\ count' = IF count = Capacity THEN count ELSE count + 1
             /\ Stays
  <2> DEFINE new == New(kind, text, url)
  <2>1. /\ new \in Message
        /\ messages' = [messages EXCEPT ![NextSlot] = new]
        /\ head' = HeadAfter
        /\ count' = IF count = Capacity THEN count ELSE count + 1
        /\ totalLogged' = totalLogged + 1
    BY <1>1, <1>4, AddMessageFacts
  <2> HIDE DEF new
  <2>2. \A i \in 0 .. count' - 1 :
          MessageAt(i)' = IF i = count' - 1 THEN new
                          ELSE IF count = Capacity THEN MessageAt(i + 1)
                          ELSE MessageAt(i)
    BY <1>1, <2>1, Push
  <2>3. ASSUME NEW n \in Gone' + 1 .. totalLogged
        PROVE  n <= totalLogged' /\ Numbered(n)' = Numbered(n)
    <3> DEFINE g == Gone'
               t == totalLogged'
               c == count'
    <3>a. /\ n \in g + 1 .. totalLogged /\ g = t - c /\ t = totalLogged + 1
          /\ c = IF count = Capacity THEN count ELSE count + 1
      BY <1>2, <2>1
    <3> HIDE DEF g, t, c
    <3>b. g \in Nat /\ c \in Nat /\ t \in Nat
      BY <3>a, <1>1
    <3>1. PICK i \in Int : i = n - g - 1
      BY <3>a, <3>b
    <3>c. /\ i \in 0 .. c - 1 /\ i # c - 1 /\ n <= t
          /\ (count = Capacity => i + 1 = n - Gone - 1)
          /\ (count # Capacity => i = n - Gone - 1)
      BY <3>a, <3>b, <3>1, <1>1
    <3>2. /\ i \in 0 .. count' - 1 /\ i # count' - 1 /\ n <= totalLogged'
          /\ (count = Capacity => i + 1 = n - Gone - 1)
          /\ (count # Capacity => i = n - Gone - 1)
          /\ i = n - Gone' - 1
      BY <3>c, <3>1 DEF g, t, c
    <3>3. MessageAt(i)' = IF count = Capacity THEN MessageAt(i + 1) ELSE MessageAt(i)
      BY <2>2, <3>2
    <3>4. Numbered(n)' = MessageAt(i)'
      BY <3>2 DEF Numbered, MessageAt, SlotAt
    <3>5. Numbered(n) = IF count = Capacity THEN MessageAt(i + 1) ELSE MessageAt(i)
      BY <3>2 DEF Numbered
    <3> QED BY <3>2, <3>3, <3>4, <3>5
  <2> QED BY <2>1, <2>3
<1> DEFINE Moves == /\ totalLogged' \in Nat /\ count' \in Nat /\ totalLogged <= totalLogged'
                    /\ count' <= totalLogged' /\ count' - count <= totalLogged' - totalLogged
                    /\ Stays
<1>5. ASSUME NEW kind \in Kinds \union {GroupKind}, NEW text \in Texts, NEW url \in Texts,
             AddMessage(kind, text, url)
      PROVE  Moves
  <2> HIDE DEF Stays
  <2> QED BY <1>1, <1>4, <1>5
<1>6. ASSUME GroupEnd PROVE Moves
  <2>1. /\ messages' = messages /\ head' = head /\ count' = count /\ totalLogged' = totalLogged
    BY <1>6 DEF GroupEnd, ringVars
  <2>2. Gone' = Gone
    BY <1>1, <1>2, <2>1
  <2>3. \A n : Numbered(n)' = Numbered(n)
    BY <2>1, <2>2 DEF Numbered, MessageAt, SlotAt
  <2>4. Stays
    BY <1>1, <2>1, <2>2, <2>3
  <2> HIDE DEF Stays
  <2> QED BY <1>1, <2>1, <2>4
<1>7. ASSUME Clear PROVE Moves
  <2>1. count' = 0 /\ totalLogged' = totalLogged
    BY <1>7 DEF Clear
  <2>2. Gone' = totalLogged
    BY <1>1, <1>2, <2>1
  <2>3. Gone' + 1 .. totalLogged = {}
    BY <1>1, <2>2
  <2>4. Stays
    BY <2>3
  <2> HIDE DEF Stays
  <2> QED BY <1>1, <2>1, <2>4
<1>8. Moves
  <2> HIDE DEF Moves
  <2>1. ASSUME NEW kind \in Kinds, NEW text \in Texts, NEW url \in Texts, Log(kind, text, url)
        PROVE  Moves
    BY <2>1, <1>5 DEF Log
  <2>2. ASSUME NEW title \in Texts, NEW url \in Texts, Group(title, url)
        PROVE  Moves
    BY <2>2, <1>5 DEF Group
  <2> QED BY <1>2, <2>1, <2>2, <1>6, <1>7 DEF Next
<1>9. /\ Gone' \in Nat /\ Gone <= Gone' /\ Gone' - dropped' = Gone - dropped /\ dropped' \in Nat
  <2> HIDE DEF Stays
  <2>1. /\ totalLogged' \in Nat /\ count' \in Nat /\ totalLogged <= totalLogged'
        /\ count' <= totalLogged' /\ count' - count <= totalLogged' - totalLogged
    BY <1>8
  <2> DEFINE g == Gone'
             t == totalLogged'
             c == count'
             d == dropped'
  <2>2. /\ t \in Nat /\ c \in Nat /\ totalLogged <= t /\ c <= t /\ c - count <= t - totalLogged
        /\ g = t - c /\ d = dropped + (t - totalLogged) - (c - count)
    BY <1>2, <2>1
  <2> HIDE DEF g, t, c, d
  <2>3. g \in Nat /\ Gone <= g /\ g - d = Gone - dropped /\ d \in Nat
    BY <1>1, <2>2
  <2> QED BY <2>3 DEF g, d
<1>10. ASSUME NEW n \in Gone' + 1 .. totalLogged
       PROVE  n \in Wanted' <=> n \in Wanted
  <2>1. Numbered(n)' = Numbered(n)
    BY <1>8
  <2>2. totalLogged' \in Nat /\ totalLogged <= totalLogged'
    BY <1>8
  <2> DEFINE g == Gone'
             t == totalLogged'
  <2>a. n \in g + 1 .. totalLogged /\ g \in Nat /\ Gone <= g /\ t \in Nat /\ totalLogged <= t
    BY <1>9, <2>2
  <2> HIDE DEF g, t
  <2>b. n \in g + 1 .. t /\ n \in Gone + 1 .. totalLogged
    BY <1>1, <2>a
  <2>3. n \in Gone' + 1 .. totalLogged' /\ n \in Gone + 1 .. totalLogged
    BY <2>b DEF g, t
  <2>4. n \in Wanted' <=> Selects(view.level, view.query, Numbered(n))
    BY <1>2, <2>1, <2>3 DEF Wanted, Selects
  <2>5. n \in Wanted <=> Selects(view.level, view.query, Numbered(n))
    BY <2>3 DEF Wanted
  <2> QED BY <2>4, <2>5
<1> HIDE DEF Stays
<1> QED BY <1>2, <1>8, <1>9, <1>10

LEMMA EngineInv == PagingInv /\ ConsoleInv' /\ Engine => PagingInv'
<1> SUFFICES ASSUME PagingInv, ConsoleInv', Engine PROVE PagingInv'
  OBVIOUS
<1>1. /\ totalLogged' \in Nat /\ totalLogged <= totalLogged' /\ count' <= totalLogged'
      /\ Gone' \in Nat /\ Gone <= Gone' /\ Gone' - dropped' = Gone - dropped
      /\ dropped' \in Nat /\ seen' = seen
      /\ \A n \in Gone' + 1 .. totalLogged : n \in Wanted' <=> n \in Wanted
  BY EngineEffect
<1>2. /\ totalLogged \in Nat /\ IdModulus \in Nat \ {0} /\ Gone \in Nat
      /\ Wanted \in SUBSET Nat /\ IsFiniteSet(Wanted)
      /\ \A n \in Wanted : Gone < n /\ n <= totalLogged
  BY Numbers
<1>3. seen \in Seq(Nat) /\ dropped \in Nat
  BY DEF PagingInv
<1>4. ASSUME totalLogged' < IdModulus PROVE ReadingInv'
  <2>1. ReadingInv
    BY <1>1, <1>2, <1>4 DEF PagingInv
  <2>2. Ascends(seen', Len(seen'))
    BY <2>1, <1>1 DEF ReadingInv, Ascends
  <2>3. ASSUME NEW k \in 1 .. Len(seen)
        PROVE  /\ Gone' - dropped' < seen[k] /\ seen[k] <= totalLogged'
               /\ seen[k] > Gone' => seen[k] \in Wanted'
    <3> DEFINE x == seen[k]
    <3>1. /\ Gone - dropped < x /\ x <= totalLogged /\ x \in Nat
          /\ x > Gone => x \in Wanted
      BY <2>1, <1>3, ElementOfSeq DEF ReadingInv
    <3> HIDE DEF x
    <3> DEFINE g == Gone'
    <3>a. g \in Nat /\ Gone <= g /\ g - dropped' = Gone - dropped /\ dropped' \in Nat
      BY <1>1
    <3> HIDE DEF g
    <3>2. x > g => x \in g + 1 .. totalLogged /\ x > Gone
      BY <3>1, <3>a, <1>2
    <3>3. x > g => x \in Wanted'
      BY <3>1, <3>2, <1>1 DEF g
    <3>4. totalLogged' \in Nat /\ totalLogged <= totalLogged'
      BY <1>1
    <3>5. g - dropped' < x
      BY <3>1, <3>a, <1>2, <1>3
    <3>6. x <= totalLogged'
      BY <3>1, <3>4, <1>2
    <3> QED BY <3>3, <3>5, <3>6 DEF x, g
  <2>4. ASSUME Len(seen) # 0
        PROVE  Cardinality({n \in Wanted' : n <= seen[Len(seen)]}) <= Len(seen)
    <3> DEFINE last == seen[Len(seen)]
               A == {n \in Wanted : n <= last}
               B == {n \in Wanted' : n <= last}
    <3>1. last \in Nat /\ last <= totalLogged /\ Cardinality(A) <= Len(seen) /\ Len(seen) \in Nat
      <4>1. Len(seen) \in 1 .. Len(seen) /\ Len(seen) \in Nat
        BY <1>3, <2>4
      <4> QED BY <4>1, <2>1, <2>4, <1>3, ElementOfSeq DEF ReadingInv, Covers
    <3>2. \A n \in Wanted' : n \in Gone' + 1 .. totalLogged'
      BY DEF Wanted
    <3> HIDE DEF last
    <3>3. B \subseteq A
      <4> SUFFICES ASSUME NEW n \in Wanted', n <= last PROVE n \in Wanted
        OBVIOUS
      <4>1. n \in Gone' + 1 .. totalLogged
        BY <3>1, <3>2, <1>1, <1>2
      <4> QED BY <4>1, <1>1
    <3>4. IsFiniteSet(A)
      BY <1>2, FS_Subset
    <3> HIDE DEF A, B
    <3>5. Cardinality(B) <= Cardinality(A) /\ Cardinality(B) \in Nat /\ Cardinality(A) \in Nat
      BY <3>3, <3>4, FS_Subset, FS_CardinalityType
    <3>6. Cardinality(B) <= Len(seen)
      BY <3>1, <3>5
    <3> QED BY <3>6 DEF B, last
  <2> QED BY <1>1, <2>2, <2>3, <2>4 DEF ReadingInv, Covers
<1> QED BY <1>1, <1>3, <1>4 DEF PagingInv

----------------------------------------------------------------------------
\* The page read goes on where the last one ended.
LEMMA ReadInv ==
  ASSUME PagingInv, ConsoleInv', NEW limit \in Limits, ReadPage(limit)
  PROVE  PagingInv'
<1> DEFINE page == FilterAndPaginate(view.level, view.query, Len(seen), limit)
           got == [i \in 1 .. Len(page) |-> page[i].id]
<1>1. seen' = seen \o got /\ UNCHANGED <<vars, view, dropped>>
  BY DEF ReadPage
<1>2. seen \in Seq(Nat) /\ Len(seen) \in Nat /\ dropped \in Nat /\ limit \in Nat /\ ConsoleInv
  BY PagingAssumption DEF PagingInv
<1>3. /\ Matching \in Seq(Message)
      /\ page = SubSeq(Matching, Len(seen) + 1, Min({Len(seen) + limit, Len(Matching)}))
  BY <1>2, PageOf
<1>4. PICK p \in Nat : IsCut(page, Matching, Len(seen), p)
  <2> HIDE DEF page
  <2> QED BY <1>2, <1>3, CutOut
<1> HIDE DEF page
<1>5. /\ page \in Seq(Message) /\ Len(page) = p
      /\ p = 0 \/ Len(seen) + p <= Len(Matching)
      /\ \A i \in 1 .. p : /\ page[i] = Matching[Len(seen) + i]
                           /\ Len(seen) + i \in 1 .. Len(Matching)
  BY <1>4 DEF IsCut
<1> DEFINE m == [i \in 1 .. Len(Matching) |-> Matching[i].id]
<1>6. /\ got \in Seq(Nat) /\ Len(got) = p
      /\ \A i \in 1 .. p : got[i] = m[Len(seen) + i]
  <2>1. ASSUME NEW i \in 1 .. p PROVE page[i].id \in Nat
    <3>1. page[i] \in Message
      BY <1>5, ElementOfSeq
    <3>2. page[i].id \in 0 .. IdModulus - 1
      BY <3>1 DEF Message
    <3> QED BY <3>2, ConsoleAssumption
  <2>2. got \in Seq(Nat) /\ Len(got) = p
    BY <2>1, <1>5
  <2>3. ASSUME NEW i \in 1 .. p PROVE got[i] = m[Len(seen) + i]
    BY <1>5
  <2> QED BY <2>2, <2>3
<1> HIDE DEF got, m
<1>7. seen' \in Seq(Nat) /\ Continues(seen', seen, m, p)
  <2>1. seen \o got \in Seq(Nat) /\ Continues(seen \o got, seen, m, p)
    BY <1>2, <1>6, JoinedContinues
  <2> QED BY <1>1, <2>1
<1>8. /\ totalLogged' = totalLogged /\ count' = count /\ dropped' = dropped
      /\ Gone' = Gone /\ Wanted' = Wanted
  BY <1>1 DEF vars, Gone, Wanted, Numbered, MessageAt, SlotAt
<1>9. ASSUME totalLogged < IdModulus PROVE ReadingInv'
  <2>1. ReadingInv
    BY <1>9 DEF PagingInv
  <2>2. /\ Wanted \in SUBSET Nat /\ IsFiniteSet(Wanted) /\ Gone \in Nat /\ totalLogged \in Nat
        /\ \A n \in Wanted : Gone < n /\ n <= totalLogged
    BY Numbers
  <2> DEFINE M == Len(Matching)
  <2>3. /\ Matching \in Seq(Message)
        /\ \A i, j \in 1 .. M : i < j => Matching[i].id < Matching[j].id
        /\ \A i \in 1 .. M : Matching[i].id \in Wanted
        /\ \A n \in Wanted : \E i \in 1 .. M : Matching[i].id = n
    BY <1>9, MatchingIs
  <2>4. M \in Nat /\ \A i \in 1 .. M : m[i] = Matching[i].id
    BY <2>3 DEF m
  <2>5. p = 0 \/ Len(seen) + p <= M
    BY <1>5
  <2> HIDE DEF M
  <2>6. Lists(m, M, Wanted)
    BY <2>3, <2>4 DEF Lists, Ascends
  <2>7. Ascends(seen', Len(seen')) /\ Covers(seen', Wanted)
    BY <1>2, <1>7, <2>1, <2>2, <2>4, <2>5, <2>6, OnePage DEF ReadingInv
  <2>8. ASSUME NEW k \in 1 .. Len(seen')
        PROVE  /\ Gone - dropped < seen'[k] /\ seen'[k] <= totalLogged
               /\ seen'[k] > Gone => seen'[k] \in Wanted
    <3>0. /\ Len(seen') = Len(seen) + p
          /\ \A i \in 1 .. Len(seen) : seen'[i] = seen[i]
          /\ \A i \in 1 .. p : seen'[Len(seen) + i] = m[Len(seen) + i]
      BY <1>7 DEF Continues
    <3>1. CASE k \in 1 .. Len(seen)
      BY <3>0, <3>1, <2>1 DEF ReadingInv
    <3>2. CASE k \notin 1 .. Len(seen)
      <4>1. k - Len(seen) \in 1 .. p /\ k = Len(seen) + (k - Len(seen))
        BY <3>0, <3>2, <1>2
      <4>2. PICK i \in 1 .. p : k = Len(seen) + i
        BY <4>1
      <4>3. k \in 1 .. M /\ seen'[k] = m[k]
        BY <3>0, <4>2, <1>5 DEF M
      <4> DEFINE x == seen'[k]
      <4>4. x \in Wanted /\ x \in Nat /\ Gone < x /\ x <= totalLogged
        BY <4>3, <2>2, <2>3, <2>4
      <4> HIDE DEF x
      <4>5. Gone - dropped < x
        BY <4>4, <2>2, <1>2
      <4> QED BY <4>4, <4>5 DEF x
    <3> QED BY <3>1, <3>2
  <2> QED BY <1>8, <2>7, <2>8 DEF ReadingInv
<1>10. count <= totalLogged
  BY DEF PagingInv
<1> QED BY <1>2, <1>7, <1>8, <1>9, <1>10 DEF PagingInv

\* Wherever reading starts the invariant holds: nothing has been read.
LEMMA FreshReading ==
  ASSUME ConsoleInv, count <= totalLogged, seen = << >>, dropped = 0
  PROVE  PagingInv
<1>1. seen \in Seq(Nat) /\ Len(seen) = 0 /\ dropped \in Nat
  OBVIOUS
<1>2. 1 .. Len(seen) = {}
  BY <1>1
<1> QED BY <1>1, <1>2 DEF PagingInv, ReadingInv, Ascends, Covers

LEMMA PagingInitInv == PagingInit => PagingInv
<1> SUFFICES ASSUME PagingInit PROVE PagingInv
  OBVIOUS
<1>1. ConsoleInv /\ count <= totalLogged
  BY InitInv DEF PagingInit, Init
<1> QED BY <1>1, FreshReading DEF PagingInit

LEMMA PagingStepInv == PagingInv /\ [PagingNext]_allVars => PagingInv'
<1> SUFFICES ASSUME PagingInv, [PagingNext]_allVars PROVE PagingInv'
  OBVIOUS
<1>1. ConsoleInv'
  <2>1. [Next]_vars
    BY DEF PagingNext, Engine, ReadPage, ChangeView, allVars, Next, vars
  <2> QED BY <2>1, StepInv DEF PagingInv
<1>2. CASE Engine
  BY <1>1, <1>2, EngineInv
<1>3. ASSUME NEW limit \in Limits, ReadPage(limit) PROVE PagingInv'
  BY <1>1, <1>3, ReadInv
<1>4. CASE ChangeView
  <2>1. count' <= totalLogged' /\ seen' = << >> /\ dropped' = 0
    <3>1. CASE UNCHANGED vars
      BY <3>1, <1>4 DEF ChangeView, vars, PagingInv
    <3>2. CASE Reset
      BY <3>2, <1>4 DEF ChangeView, Reset
    <3> QED BY <3>1, <3>2, <1>4 DEF ChangeView
  <2>2. seen' \in Seq(Nat) /\ Len(seen') = 0 /\ dropped' \in Nat /\ 1 .. 0 = {}
    BY <2>1
  <2> QED BY <1>1, <2>1, <2>2 DEF PagingInv, ReadingInv, Ascends, Covers
<1>5. CASE UNCHANGED allVars
  <2>1. /\ messages' = messages /\ head' = head /\ count' = count /\ totalLogged' = totalLogged
        /\ view' = view /\ seen' = seen /\ dropped' = dropped
    BY <1>5 DEF allVars, vars, pageVars
  <2>2. Gone' = Gone /\ Wanted' = Wanted
    BY <2>1 DEF Gone, Wanted, Numbered, MessageAt, SlotAt
  <2> QED BY <1>1, <2>1, <2>2 DEF PagingInv, ReadingInv
<1> QED BY <1>2, <1>3, <1>4, <1>5 DEF PagingNext

LEMMA PagingInvHolds == PagingSpec => []PagingInv
<1> QED BY PagingInitInv, PagingStepInv, PTL DEF PagingSpec

\* Every page is a slice of what the filter selects at that moment, whatever
\* the offset and the page size.
THEOREM PagesAreSlices == PagingSpec => []PageIsSlice
<1>1. PagingInv => PageIsSlice
  <2> SUFFICES ASSUME PagingInv, NEW limit \in Limits, NEW offset \in 0 .. Capacity
               PROVE  FilterAndPaginate(view.level, view.query, offset, limit)
                        = SubSeq(Matching, offset + 1, Min({offset + limit, Len(Matching)}))
    BY DEF PageIsSlice
  <2>1. ConsoleInv /\ limit \in Nat /\ offset \in Nat
    BY PagingAssumption, ConsoleAssumption DEF PagingInv
  <2> QED BY <2>1, PageOf
<1> QED BY PagingInvHolds, <1>1, PTL

\* A reader who goes on page by page sees nothing twice and nothing out of
\* order, and of what is kept misses no more than was given up meanwhile.
THEOREM ReaderMissesFew == PagingSpec => []PagesInOrder
<1>1. PagingInv => PagesInOrder
  <2> SUFFICES ASSUME PagingInv, totalLogged < IdModulus
               PROVE  /\ \A i, j \in 1 .. Len(seen) : i < j => seen[i] < seen[j]
                      /\ LET missed == {i \in 1 .. Len(Matching) :
                                          /\ seen # << >>
                                          /\ Matching[i].id < Last(seen)
                                          /\ ~ Contains(seen, Matching[i].id)}
                         IN Cardinality(missed) <= dropped
    BY DEF PagesInOrder
  <2> DEFINE missed == {i \in 1 .. Len(Matching) : /\ seen # << >>
                                                   /\ Matching[i].id < Last(seen)
                                                   /\ ~ Contains(seen, Matching[i].id)}
  <2>1. ReadingInv /\ seen \in Seq(Nat) /\ dropped \in Nat
    BY DEF PagingInv
  <2>2. CASE seen = << >>
    <3>1. missed = {}
      BY <2>2
    <3>2. Cardinality(missed) = 0
      BY <3>1, FS_EmptySet
    <3> QED BY <3>2, <2>1 DEF ReadingInv, Ascends
  <2>3. CASE seen # << >>
    <3> DEFINE M == Len(Matching)
               m == [i \in 1 .. M |-> Matching[i].id]
    <3>1. M \in Nat /\ Lists(m, M, Wanted)
      BY MatchingIs DEF Lists, Ascends
    <3>2. missed = Missed(m, M, seen)
      BY <2>1, <2>3 DEF Contains, Last, Missed
    <3>3. Len(seen) # 0
      BY <2>1, <2>3
    <3>4. Wanted \in SUBSET Nat /\ IsFiniteSet(Wanted) /\ Gone \in Nat
      BY Numbers
    <3>5. /\ Ascends(seen, Len(seen)) /\ Covers(seen, Wanted)
          /\ Keeps(seen, Wanted, Gone, dropped)
      BY <2>1, <3>3 DEF ReadingInv, Keeps
    <3> HIDE DEF M, m
    <3>6. Cardinality(Missed(m, M, seen)) <= dropped
      BY <2>1, <3>1, <3>3, <3>4, <3>5, Missing
    <3> QED BY <3>2, <3>5, <3>6 DEF Ascends
  <2> QED BY <2>2, <2>3
<1> QED BY PagingInvHolds, <1>1, PTL
=============================================================================

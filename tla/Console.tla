------------------------------ MODULE Console ------------------------------
(***************************************************************************)
(* ConsoleEngine (console.h): the ring of messages and the group nesting.  *)
(* The timers of the same class share no state with it and have a module   *)
(* of their own, ConsoleTimers; reading pages is in ConsolePaging.         *)
(*                                                                         *)
(* The ring is there: at the real sizes its buffer ("messages" of          *)
(* DevToolsPlan) is placed by every start, so add_message never takes its  *)
(* early return.                                                           *)
(***************************************************************************)
EXTENDS Integers, Sequences

CONSTANTS
  Capacity,   (* slots of the ring (max_msgs)                              *)
  IdModulus,  (* a message id is the low part of total_logged: 2^32        *)
  Kinds,      (* the [type, level] pairs callers log                       *)
  Texts,      (* message texts, titles and urls                            *)
  MaxLogged,  (* bound on total_logged                                     *)
  MaxDepth,   (* bound on the nesting of groups                            *)
  Blank       (* a slot never written                                      *)

ASSUME ConsoleAssumption ==
  /\ Capacity \in Nat \ {0}
  /\ IdModulus \in Nat \ {0}
  /\ MaxLogged \in Nat
  /\ MaxDepth \in Nat

VARIABLES
  messages,      (* the ring                                               *)
  head,          (* slot of the oldest message                             *)
  count,         (* how many messages there are                            *)
  totalLogged,   (* total_logged                                           *)
  groupDepth     (* current_group_depth                                    *)

ringVars == <<messages, head, count, totalLogged>>
vars == <<messages, head, count, totalLogged, groupDepth>>

Slots == 0 .. Capacity - 1

GroupKind == [type |-> "GROUP", level |-> 1]

Content == [kind : Kinds \union {GroupKind}, depth : 0 .. MaxDepth,
            text : Texts, url : Texts]
Message == [id : 0 .. IdModulus - 1, content : Content]

----------------------------------------------------------------------------
\* Slips: the slot after the last, computed without head; an insertion that
\* leaves head where it is.
NextSlotFromCount == count % Capacity
HeadStays == head

\* The slot the next message is written to.
NextSlot == (head + count) % Capacity

\* head after one more message: a full ring gives up its oldest.
HeadAfter == IF count = Capacity THEN (head + 1) % Capacity ELSE head

\* The message at index i, counted from the oldest (get_message_at).
SlotAt(i) == (head + i) % Capacity
MessageAt(i) == messages[SlotAt(i)]

----------------------------------------------------------------------------
Init ==
  /\ messages = [s \in Slots |-> Blank]
  /\ head = 0
  /\ count = 0
  /\ totalLogged = 0
  /\ groupDepth = 0

\* add_message with the depth the open groups give it.
AddMessage(kind, text, url) ==
  /\ totalLogged < MaxLogged
  /\ messages' = [messages EXCEPT ![NextSlot] =
                   [id |-> (totalLogged + 1) % IdModulus,
                    content |-> [kind |-> kind, depth |-> groupDepth,
                                 text |-> text, url |-> url]]]
  /\ head' = HeadAfter
  /\ count' = IF count = Capacity THEN count ELSE count + 1
  /\ totalLogged' = totalLogged + 1

\* log, warn, error, dir, table, memory and the exports console_log and
\* console_log_full: they differ in the kind they pass.
Log(kind, text, url) ==
  /\ AddMessage(kind, text, url)
  /\ UNCHANGED groupDepth

\* Slip: a group that counts twice.
GroupTwice(title, url) ==
  /\ groupDepth + 1 < MaxDepth
  /\ AddMessage(GroupKind, title, url)
  /\ groupDepth' = groupDepth + 2

\* The title of a group is logged at the depth around it.
Group(title, url) ==
  /\ groupDepth < MaxDepth
  /\ AddMessage(GroupKind, title, url)
  /\ groupDepth' = groupDepth + 1

GroupEnd ==
  /\ groupDepth' = IF groupDepth > 0 THEN groupDepth - 1 ELSE 0
  /\ UNCHANGED ringVars

\* clear: the Console.clearMessages command.  Numbers and nesting go on.
Clear ==
  /\ head' = 0
  /\ count' = 0
  /\ UNCHANGED <<messages, totalLogged, groupDepth>>

\* reset, and what devtools_reset makes of the engine.
Reset ==
  /\ head' = 0
  /\ count' = 0
  /\ totalLogged' = 0
  /\ groupDepth' = 0
  /\ UNCHANGED messages

Next ==
  \/ \E kind \in Kinds, text, url \in Texts : Log(kind, text, url)
  \/ \E title, url \in Texts : Group(title, url)
  \/ GroupEnd
  \/ Clear
  \/ Reset

Spec == Init /\ [][Next]_vars

----------------------------------------------------------------------------
TypeOK ==
  /\ messages \in [Slots -> Message \union {Blank}]
  /\ head \in Slots
  /\ count \in 0 .. Capacity
  /\ totalLogged \in 0 .. MaxLogged
  /\ groupDepth \in 0 .. MaxDepth

\* The messages a reader gets, oldest first.
Retained == [i \in 1 .. count |-> MessageAt(i - 1)]

MessageLog == INSTANCE MessageLog
                WITH Contents <- Content, log <- Retained, logged <- totalLogged

\* The ring of slots behaves as a log of the latest messages: nothing newer
\* than the oldest kept message is ever lost, repeated or out of order, also
\* when the ring is full and after a clear in the middle of it.
RingIsLog == MessageLog!Spec

\* The messages kept are numbered consecutively up to total_logged, also
\* where the 32-bit id wraps around: the page can tell how many it missed.
IdsConsecutive ==
  \A i \in 0 .. count - 1 :
    MessageAt(i).id = (totalLogged - (count - 1 - i)) % IdModulus

\* How deep the message after m may be: one level further below a title.
Inside(m) == m.content.depth + (IF m.content.kind.type = "GROUP" THEN 1 ELSE 0)

\* Nesting as the page draws it: a message is at most one level deeper than
\* the one before, and only below a group title; what is logged next goes no
\* deeper than that either.  (The latest message's title may have been
\* cleared away: then nothing is above it.)  However many groupEnds come
\* without a group, the depth does not pass below 0, which its unsigned
\* counter would show as the deepest level of all.
NestingContinuous ==
  /\ groupDepth >= 0
  /\ \A i \in 0 .. count - 1 :
       IF i = count - 1 THEN groupDepth <= Inside(MessageAt(i))
       ELSE MessageAt(i + 1).content.depth <= Inside(MessageAt(i))
============================================================================

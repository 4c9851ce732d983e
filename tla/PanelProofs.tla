----------------------------- MODULE PanelProofs -----------------------------
(***************************************************************************)
(* The smaller engines for any bounds, ids, labels, paths, boxes and       *)
(* sizes: the timers are a map from labels to start times, the requests    *)
(* and the service workers are reached newest first, the virtual files are *)
(* a map from paths to contents, the list shows what its filter selects    *)
(* and draws the rows in view, and a point finds the innermost box.        *)
(***************************************************************************)
EXTENDS ConsoleTimers, Network, ServiceWorkers, VirtualFiles, VirtualList, Profiler,
        LayoutTree, DataLemmas

----------------------------------------------------------------------------
(* The timers (console.h).                                                 *)

Timer == [label : Labels, start : Nat]

\* A label of one's own has at most one timer; cut labels may have several.
TableOk(t) ==
  /\ t \in Seq(Timer)
  /\ \A i, j \in DOMAIN t :
       t[i].label = t[j].label /\ t[i].label \in OwnLabels => i = j

TimersInv == TableOk(timers)

\* SlotOf and RunningTimers of any table.
SlotIn(t, label) == SelectInSeq(t, LAMBDA timer : timer.label = label)
RunningIn(t) ==
  [label \in OwnLabels |-> IF SlotIn(t, label) = 0 THEN None ELSE t[SlotIn(t, label)].start]

LEMMA OfTheTable ==
  /\ \A label : SlotOf(label) = SlotIn(timers, label)
  /\ RunningTimers = RunningIn(timers) /\ RunningTimers' = RunningIn(timers')
  /\ TimersInv' = TableOk(timers')
<1>1. \A label : SlotOf(label) = SlotIn(timers, label)
  BY DEF SlotOf, SlotIn
<1>2. RunningTimers = RunningIn(timers)
  BY <1>1 DEF RunningTimers, RunningIn
<1>3. RunningTimers' = RunningIn(timers')
  BY DEF RunningTimers, RunningIn, SlotOf, SlotIn, SelectInSeq, OwnLabels
<1>4. TimersInv' = TableOk(timers')
  BY DEF TimersInv, TableOk, OwnLabels
<1> QED BY <1>1, <1>2, <1>3, <1>4

\* The loop over the table stops at the first timer of the label.
LEMMA SlotIsFirst ==
  ASSUME NEW t \in Seq(Timer), NEW label
  PROVE  /\ SlotIn(t, label) = 0 => \A i \in DOMAIN t : t[i].label # label
         /\ SlotIn(t, label) # 0 => /\ SlotIn(t, label) \in DOMAIN t
                                   /\ t[SlotIn(t, label)].label = label
<1> DEFINE I == {i \in 1 .. Len(t) : t[i].label = label}
<1>1. SlotIn(t, label) = IF I # {} THEN Min(I) ELSE 0
  BY DEF SlotIn, SelectInSeq
<1>2. Len(t) \in Nat /\ DOMAIN t = 1 .. Len(t) /\ I \in SUBSET Nat
  OBVIOUS
<1>3. I # {} => Min(I) \in I
  BY <1>2, MinOf
<1> QED BY <1>1, <1>2, <1>3

\* What the map of running timers says, slot by slot.
LEMMA RunningSlots ==
  ASSUME NEW t, TableOk(t), NEW label \in OwnLabels
  PROVE  /\ \A i \in DOMAIN t : t[i].label = label => RunningIn(t)[label] = t[i].start
         /\ (\A i \in DOMAIN t : t[i].label # label) => RunningIn(t)[label] = None
         /\ RunningIn(t)[label] # None =>
              \E i \in DOMAIN t : t[i].label = label /\ i = SlotIn(t, label)
<1>1. t \in Seq(Timer)
  BY DEF TableOk
<1>2. RunningIn(t)[label] = IF SlotIn(t, label) = 0 THEN None ELSE t[SlotIn(t, label)].start
  BY DEF RunningIn
<1> QED BY <1>1, <1>2, SlotIsFirst DEF TableOk

LEMMA RunningIs ==
  ASSUME NEW t, TableOk(t),
         NEW f, DOMAIN f = OwnLabels, f = [label \in OwnLabels |-> f[label]],
         \A i \in DOMAIN t : t[i].label \in OwnLabels => f[t[i].label] = t[i].start,
         \A label \in OwnLabels : (\A i \in DOMAIN t : t[i].label # label) => f[label] = None
  PROVE  RunningIn(t) = f
<1>1. ASSUME NEW label \in OwnLabels PROVE RunningIn(t)[label] = f[label]
  BY RunningSlots
<1> QED BY <1>1 DEF RunningIn

LEMMA NoTimers == TableOk(<< >>) /\ RunningIn(<< >>) = [label \in OwnLabels |-> None]
<1>1. TableOk(<< >>)
  BY DEF TableOk
<1>2. ASSUME NEW label PROVE SlotIn(<< >>, label) = 0
  <2>1. << >> \in Seq(Timer) /\ DOMAIN << >> = {}
    OBVIOUS
  <2> QED BY <2>1, SlotIsFirst
<1> QED BY <1>1, <1>2 DEF RunningIn

\* A timer that is added or whose start is set.
LEMMA StartKeeps ==
  ASSUME TimersInv, NEW label \in Labels, NEW now \in Times, TimeStart(label, now)
  PROVE  /\ TimersInv'
         /\ label \notin OwnLabels => UNCHANGED RunningTimers
         /\ label \in OwnLabels => RunningTimers' = [RunningTimers EXCEPT ![label] = now]
<1> DEFINE r == RunningIn(timers)
           f == IF label \in OwnLabels THEN [r EXCEPT ![label] = now] ELSE r
           s == SlotIn(timers, label)
<1>1. /\ timers \in Seq(Timer) /\ DOMAIN timers = 1 .. Len(timers) /\ Len(timers) \in Nat
      /\ \A i \in DOMAIN timers : timers[i] \in Timer
  BY ElementOfSeq DEF TimersInv, TableOk
<1>2. now \in Nat /\ Stored[label] \in Labels
      /\ (label \in OwnLabels => Stored[label] = label)
      /\ (label \notin OwnLabels => Stored[label] \notin OwnLabels)
  BY TimersAssumption DEF OwnLabels
<1>3. DOMAIN r = OwnLabels /\ r = [l \in OwnLabels |-> r[l]]
  BY DEF RunningIn
<1>4. DOMAIN f = OwnLabels /\ f = [l \in OwnLabels |-> f[l]]
      /\ \A l \in OwnLabels : f[l] = IF l = label THEN now ELSE r[l]
  BY <1>3
<1>5. TableOk(timers) /\ SlotOf(label) = s
  BY OfTheTable DEF TimersInv
<1> HIDE DEF r
<1>6. TableOk(timers') /\ RunningIn(timers') = f
  <2>1. CASE s # 0
    <3> DEFINE t == [timers[s] EXCEPT !.start = now]
    <3>1. s \in DOMAIN timers /\ timers[s].label = label
      BY <2>1, <1>1, SlotIsFirst
    <3>2. timers' = [timers EXCEPT ![s] = t]
      BY <2>1, <1>5 DEF TimeStart
    <3>3. t \in Timer /\ t.label = label /\ t.start = now
      BY <3>1, <1>1, <1>2 DEF Timer
    <3> HIDE DEF t
    <3>4. timers' \in Seq(Timer) /\ DOMAIN timers' = DOMAIN timers
          /\ \A i \in DOMAIN timers : timers'[i] = IF i = s THEN t ELSE timers[i]
      BY <3>1, <3>2, <3>3, <1>1, ExceptSeq
    <3> HIDE DEF s
    <3>5. \A i \in DOMAIN timers : timers'[i].label = timers[i].label
      BY <3>1, <3>3, <3>4
    <3>6. TableOk(timers')
      BY <3>4, <3>5, <1>5 DEF TableOk
    <3>7. ASSUME NEW i \in DOMAIN timers', timers'[i].label \in OwnLabels
          PROVE  f[timers'[i].label] = timers'[i].start
      <4>1. CASE i = s
        BY <4>1, <3>1, <3>3, <3>4, <3>7, <1>4
      <4>2. CASE i # s
        <5>1. timers'[i] = timers[i] /\ i \in DOMAIN timers
          BY <4>2, <3>4
        <5>2. timers[i].label # label
          BY <4>2, <5>1, <3>1, <3>7, <1>5 DEF TableOk
        <5> QED BY <5>1, <5>2, <3>7, <1>4, RunningSlots, <1>5 DEF r
      <4> QED BY <4>1, <4>2
    <3>8. ASSUME NEW l \in OwnLabels, \A i \in DOMAIN timers' : timers'[i].label # l
          PROVE  f[l] = None
      <4>1. l # label /\ \A i \in DOMAIN timers : timers[i].label # l
        BY <3>1, <3>4, <3>5, <3>8
      <4> QED BY <4>1, <1>4, RunningSlots, <1>5 DEF r
    <3> QED BY <3>6, <3>7, <3>8, <1>4, RunningIs
  <2>2. CASE s = 0
    <3> DEFINE t == [label |-> Stored[label], start |-> now]
               n == Len(timers)
    <3>1. \A i \in DOMAIN timers : timers[i].label # label
      BY <2>2, <1>1, SlotIsFirst
    <3>2. timers' = Append(timers, t)
      BY <2>2, <1>5 DEF TimeStart
    <3>3. t \in Timer /\ t.label = Stored[label] /\ t.start = now
      BY <1>2 DEF Timer
    <3> HIDE DEF t
    <3>4. timers' \in Seq(Timer) /\ DOMAIN timers' = 1 .. n + 1
          /\ (\A i \in DOMAIN timers : timers'[i] = timers[i]) /\ timers'[n + 1] = t
      BY <3>2, <3>3, <1>1, AppendProperties
    <3>5. DOMAIN timers' = DOMAIN timers \union {n + 1} /\ n + 1 \notin DOMAIN timers
      BY <3>4, <1>1
    <3> HIDE DEF n, s
    <3>6. TableOk(timers')
      BY <3>1, <3>3, <3>4, <3>5, <1>2, <1>5 DEF TableOk
    <3>7. ASSUME NEW i \in DOMAIN timers', timers'[i].label \in OwnLabels
          PROVE  f[timers'[i].label] = timers'[i].start
      <4>1. CASE i = n + 1
        BY <4>1, <3>3, <3>4, <3>7, <1>2, <1>4
      <4>2. CASE i \in DOMAIN timers
        BY <4>2, <3>1, <3>4, <3>7, <1>4, RunningSlots, <1>5 DEF r
      <4> QED BY <4>1, <4>2, <3>5
    <3>8. ASSUME NEW l \in OwnLabels, \A i \in DOMAIN timers' : timers'[i].label # l
          PROVE  f[l] = None
      <4>1. l # label /\ \A i \in DOMAIN timers : timers[i].label # l
        BY <3>3, <3>4, <3>5, <3>8, <1>2
      <4> QED BY <4>1, <1>4, RunningSlots, <1>5 DEF r
    <3> QED BY <3>6, <3>7, <3>8, <1>4, RunningIs
  <2> QED BY <2>1, <2>2
<1> QED BY <1>6, OfTheTable DEF r

\* A timer that is ended: the later ones move up a slot.
LEMMA EndKeeps ==
  ASSUME TimersInv, NEW label \in Labels, NEW now \in Times, TimeEnd(label, now)
  PROVE  /\ TimersInv'
         /\ elapsed' \in Nat
         /\ label \notin OwnLabels => UNCHANGED RunningTimers
         /\ label \in OwnLabels =>
              /\ RunningTimers' = [RunningTimers EXCEPT ![label] = None]
              /\ RunningTimers[label] # None
              /\ elapsed' = IF now > RunningTimers[label] THEN now - RunningTimers[label] ELSE 0
<1> DEFINE r == RunningIn(timers)
           f == IF label \in OwnLabels THEN [r EXCEPT ![label] = None] ELSE r
           s == SlotIn(timers, label)
           n == Len(timers)
<1>1. /\ timers \in Seq(Timer) /\ DOMAIN timers = 1 .. n /\ n \in Nat
      /\ \A i \in DOMAIN timers : timers[i] \in Timer /\ timers[i].start \in Nat
  <2>1. timers \in Seq(Timer) /\ DOMAIN timers = 1 .. n /\ n \in Nat
    BY DEF TimersInv, TableOk
  <2>2. ASSUME NEW i \in DOMAIN timers PROVE timers[i] \in Timer /\ timers[i].start \in Nat
    <3>1. timers[i] \in Timer
      BY <2>1, ElementOfSeq
    <3> QED BY <3>1 DEF Timer
  <2> QED BY <2>1, <2>2
<1>2. now \in Nat
  BY TimersAssumption
<1>3. DOMAIN r = OwnLabels /\ r = [l \in OwnLabels |-> r[l]]
  BY DEF RunningIn
<1>4. DOMAIN f = OwnLabels /\ f = [l \in OwnLabels |-> f[l]]
      /\ \A l \in OwnLabels : f[l] = IF l = label THEN None ELSE r[l]
  BY <1>3
<1>5. TableOk(timers) /\ SlotOf(label) = s
  BY OfTheTable DEF TimersInv
<1>6. s \in 1 .. n /\ timers[s].label = label /\ s # 0
  BY <1>1, <1>5, SlotIsFirst DEF TimeEnd
<1>7. /\ timers' \in Seq(Timer) /\ DOMAIN timers' = 1 .. n - 1
      /\ \A i \in 1 .. n - 1 : timers'[i] = IF i < s THEN timers[i] ELSE timers[i + 1]
  <2>1. timers' = RemoveAt(timers, s)
    BY <1>5 DEF TimeEnd, Closed
  <2> QED BY <2>1, <1>1, <1>6, TakenOut
<1>8. elapsed' = IF now > timers[s].start THEN now - timers[s].start ELSE 0
  BY <1>5 DEF TimeEnd, Since
<1>9. label \in OwnLabels => r[label] = timers[s].start
  BY <1>1, <1>5, <1>6, RunningSlots
<1> HIDE DEF r, s, n
<1>10. \A i \in 1 .. n - 1 : \E j \in 1 .. n :
         j # s /\ timers'[i] = timers[j] /\ j = IF i < s THEN i ELSE i + 1
  BY <1>1, <1>6, <1>7
<1>11. \A j \in 1 .. n : j # s => \E i \in 1 .. n - 1 : timers'[i] = timers[j]
  <2>1. ASSUME NEW j \in 1 .. n, j # s PROVE \E i \in 1 .. n - 1 : timers'[i] = timers[j]
    <3>1. CASE j < s
      <4>1. j \in 1 .. n - 1 /\ timers'[j] = timers[j]
        BY <3>1, <1>1, <1>6, <1>7
      <4> QED BY <4>1
    <3>2. CASE j > s
      <4>1. j - 1 \in 1 .. n - 1 /\ ~ (j - 1 < s) /\ (j - 1) + 1 = j
        BY <3>2, <1>1, <1>6
      <4>2. timers'[j - 1] = timers[j]
        BY <4>1, <1>7
      <4> QED BY <4>1, <4>2
    <3> QED BY <3>1, <3>2, <2>1, <1>1, <1>6
  <2> QED BY <2>1
<1>12. TableOk(timers')
  <2>1. ASSUME NEW i \in 1 .. n - 1, NEW k \in 1 .. n - 1,
               timers'[i].label = timers'[k].label, timers'[i].label \in OwnLabels
        PROVE  i = k
    <3>1. PICK a \in 1 .. n : a # s /\ timers'[i] = timers[a] /\ a = IF i < s THEN i ELSE i + 1
      BY <1>10
    <3>2. PICK b \in 1 .. n : b # s /\ timers'[k] = timers[b] /\ b = IF k < s THEN k ELSE k + 1
      BY <1>10
    <3>3. a = b
      BY <2>1, <3>1, <3>2, <1>1, <1>5 DEF TableOk
    <3> QED BY <3>1, <3>2, <3>3, <1>1, <1>6
  <2> QED BY <2>1, <1>7 DEF TableOk
<1>13. RunningIn(timers') = f
  <2>1. ASSUME NEW i \in DOMAIN timers', timers'[i].label \in OwnLabels
        PROVE  f[timers'[i].label] = timers'[i].start
    <3>1. PICK j \in 1 .. n : j # s /\ timers'[i] = timers[j]
      BY <1>7, <1>10
    <3>2. timers[j].label # label
      BY <3>1, <2>1, <1>1, <1>5, <1>6 DEF TableOk
    <3> QED BY <3>1, <3>2, <2>1, <1>1, <1>4, <1>5, RunningSlots DEF r
  <2>2. ASSUME NEW l \in OwnLabels, \A i \in DOMAIN timers' : timers'[i].label # l
        PROVE  f[l] = None
    <3>1. CASE l = label
      BY <3>1, <1>4
    <3>2. CASE l # label
      <4>1. \A j \in DOMAIN timers : timers[j].label # l
        BY <3>2, <2>2, <1>1, <1>6, <1>7, <1>11
      <4> QED BY <3>2, <4>1, <1>4, <1>5, RunningSlots DEF r
    <3> QED BY <3>1, <3>2
  <2> HIDE DEF f
  <2> QED BY <2>1, <2>2, <1>4, <1>12, RunningIs
<1>14. elapsed' \in Nat
  BY <1>1, <1>2, <1>6, <1>8
<1>15. label \in OwnLabels => timers[s].start # None
  BY <1>1, <1>6, TimersAssumption
<1>16. RunningTimers = r
  BY OfTheTable DEF r
<1> QED BY <1>8, <1>9, <1>12, <1>13, <1>14, <1>15, <1>16, OfTheTable

\* Fewer labels run than there are timers.
LEMMA RunningFits ==
  ASSUME TimersInv
  PROVE  /\ IsFiniteSet(RunningMap!Running) /\ Cardinality(RunningMap!Running) <= Len(timers)
         /\ Cardinality(RunningMap!Running) \in Nat
<1> DEFINE f == [i \in 1 .. Len(timers) |-> timers[i].label]
           n == Len(timers)
<1>1. TableOk(timers) /\ n \in Nat /\ DOMAIN timers = 1 .. n
  BY DEF TimersInv, TableOk
<1>2. ASSUME NEW label \in RunningMap!Running PROVE \E i \in 1 .. n : f[i] = label
  BY <1>1, RunningSlots, OfTheTable DEF RunningMap!Running
<1> HIDE DEF f, n
<1>3. /\ IsFiniteSet(RunningMap!Running) /\ Cardinality(RunningMap!Running) <= n
      /\ Cardinality(RunningMap!Running) \in Nat
  BY <1>1, <1>2, Enumerated
<1> QED BY <1>3 DEF n

\* What a step does to the table it does to the map.
LEMMA TimersStep ==
  ASSUME TimersInv, [TimersNext]_timerVars
  PROVE  TimersInv' /\ [RunningMap!Next]_(RunningMap!mapVars)
<1> USE DEF RunningMap!Next, RunningMap!mapVars
<1>1. ASSUME NEW label \in Labels, NEW now \in Times, TimeStart(label, now)
      PROVE  TimersInv' /\ [RunningMap!Next]_(RunningMap!mapVars)
  <2>1. TimersInv'
    BY <1>1, StartKeeps
  <2>2. CASE label \in OwnLabels
    <3>1. Len(timers) < MaxTimers /\ Len(timers) \in Nat /\ MaxTimers \in Nat
      BY <1>1, TimersAssumption DEF TimeStart, TimersInv, TableOk
    <3>2. RunningMap!Cardinality(RunningMap!Running) = Cardinality(RunningMap!Running)
      BY DEF RunningMap!Cardinality, Cardinality
    <3>3. RunningMap!Cardinality(RunningMap!Running) < MaxTimers
      BY <3>1, <3>2, RunningFits
    <3>4. RunningTimers' = [RunningTimers EXCEPT ![label] = now] /\ UNCHANGED elapsed
      BY <1>1, <2>2, StartKeeps DEF TimeStart
    <3>5. RunningMap!Start(label, now)
      BY <3>3, <3>4 DEF RunningMap!Start
    <3> QED BY <2>1, <2>2, <3>5
  <2>3. CASE label \notin OwnLabels
    BY <1>1, <2>1, <2>3, StartKeeps DEF TimeStart
  <2> QED BY <2>2, <2>3
<1>2. ASSUME NEW label \in Labels, NEW now \in Times, TimeEnd(label, now)
      PROVE  TimersInv' /\ [RunningMap!Next]_(RunningMap!mapVars)
  <2>1. TimersInv'
    BY <1>2, EndKeeps
  <2>2. CASE label \in OwnLabels
    <3>1. RunningMap!End(label, now)
      BY <1>2, <2>2, EndKeeps DEF RunningMap!End
    <3> QED BY <2>1, <2>2, <3>1
  <2>3. CASE label \notin OwnLabels
    <3>1. RunningMap!EndOther
      BY <1>2, <2>3, EndKeeps DEF RunningMap!EndOther
    <3> QED BY <2>1, <3>1
  <2> QED BY <2>2, <2>3
<1>3. ASSUME NEW label \in Labels, TimeEndUnknown(label)
      PROVE  TimersInv' /\ [RunningMap!Next]_(RunningMap!mapVars)
  <2>1. TimersInv' /\ UNCHANGED RunningTimers
    BY <1>3, OfTheTable DEF TimeEndUnknown, TimersInv
  <2>2. RunningMap!EndOther
    BY <1>3, <2>1 DEF TimeEndUnknown, RunningMap!EndOther
  <2> QED BY <2>1, <2>2
<1>4. ASSUME ResetTimers
      PROVE  TimersInv' /\ [RunningMap!Next]_(RunningMap!mapVars)
  <2>1. timers' = << >>
    BY <1>4 DEF ResetTimers
  <2>2. TableOk(timers') /\ RunningIn(timers') = [label \in OwnLabels |-> None]
    BY <2>1, NoTimers
  <2>3. RunningMap!Restart
    BY <1>4, <2>2, OfTheTable DEF ResetTimers, RunningMap!Restart
  <2> QED BY <2>2, <2>3, OfTheTable
<1>5. ASSUME UNCHANGED timerVars
      PROVE  TimersInv' /\ [RunningMap!Next]_(RunningMap!mapVars)
  BY <1>5, OfTheTable DEF timerVars, TimersInv
<1>6. ASSUME NEW label \in Labels, NEW now \in Times, TimeStartFull(label, now)
      PROVE  TimersInv' /\ [RunningMap!Next]_(RunningMap!mapVars)
  BY <1>5, <1>6 DEF TimeStartFull
<1> QED BY <1>1, <1>2, <1>3, <1>4, <1>5, <1>6 DEF TimersNext

\* The table of timers is a map from labels to start times, for every set of
\* labels, with any of them cut short, and any size of the table (time_start,
\* time_end and reset, console.h).
THEOREM TimersAreMap == TimersSpec => TableIsMap
<1>1. TimersInit => RunningMap!Init
  <2>1. TimersInit => timers = << >>
    BY DEF TimersInit
  <2>2. TimersInit => RunningIn(timers) = [label \in OwnLabels |-> None]
    BY <2>1, NoTimers
  <2> QED BY <2>2, OfTheTable DEF TimersInit, RunningMap!Init
<1>2. TimersInit => TimersInv
  BY NoTimers DEF TimersInit, TimersInv
<1> QED BY <1>1, <1>2, TimersStep, PTL DEF TimersSpec, TableIsMap, RunningMap!Spec

----------------------------------------------------------------------------
(* The requests (network.h).                                               *)

\* A chain holds the requests whose ids it is for, the newer ones in front.
ChainFor(c) ==
  /\ requestMap[c] \in Seq(1 .. Len(requests))
  /\ \A n \in DOMAIN requestMap[c] : requests[requestMap[c][n]].id % MapCapacity = c
  /\ \A m, n \in DOMAIN requestMap[c] : m < n => requestMap[c][m] > requestMap[c][n]
  /\ \A k \in DOMAIN requests :
       requests[k].id % MapCapacity = c => \E n \in DOMAIN requestMap[c] : requestMap[c][n] = k

ChainInv ==
  /\ \E R : requests \in Seq(R)
  /\ DOMAIN requestMap = Chains
  /\ \A c \in Chains : ChainFor(c)

LEMMA IdsHaveChains ==
  ASSUME NEW id \in RequestIds
  PROVE  id \in Nat /\ id % MapCapacity \in Chains
BY NetworkAssumption DEF Chains

\* What get_request returns is the newest request of the id, or 0 if none is.
LEMMA GetIsNewest ==
  ASSUME ChainInv, NEW id \in RequestIds
  PROVE  /\ GetRequest(id) # 0 => Newest!Newest(id, GetRequest(id))
         /\ GetRequest(id) = 0 => \A k \in DOMAIN requests : requests[k].id # id
<1> DEFINE c == id % MapCapacity
           chain == requestMap[c]
<1>1. c \in Chains /\ ChainFor(c)
  BY IdsHaveChains DEF ChainInv
<1>2. chain \in Seq(1 .. Len(requests)) /\ DOMAIN chain = 1 .. Len(chain)
      /\ Len(chain) \in Nat /\ DOMAIN requests = 1 .. Len(requests) /\ Len(requests) \in Nat
  BY <1>1 DEF ChainInv, ChainFor
<1>3. ChainOf(id) = chain
  BY DEF ChainOf
<1>4. \A k \in DOMAIN requests : requests[k].id = id =>
        \E n \in Hits(id) : chain[n] = k
  BY <1>1, <1>3 DEF ChainFor, Hits
<1>5. CASE Hits(id) = {}
  BY <1>4, <1>5 DEF GetRequest
<1>6. CASE Hits(id) # {}
  <2> DEFINE first == CHOOSE n \in Hits(id) : \A m \in Hits(id) : n <= m
  <2>1. Hits(id) \in SUBSET Nat
    BY <1>2, <1>3 DEF Hits
  <2>2. first \in Hits(id) /\ \A m \in Hits(id) : first <= m
    BY <1>6, <2>1, LeastOf
  <2> HIDE DEF first
  <2>3. GetRequest(id) = chain[first]
    BY <1>6, <1>3 DEF GetRequest, first
  <2>4. first \in DOMAIN chain /\ requests[chain[first]].id = id
    BY <2>2, <1>3 DEF Hits
  <2>5. chain[first] \in DOMAIN requests /\ chain[first] # 0
    BY <2>4, <1>2, ElementOfSeq
  <2>6. ASSUME NEW l \in DOMAIN requests, requests[l].id = id
        PROVE  l <= chain[first]
    <3>1. PICK n \in Hits(id) : chain[n] = l
      BY <1>4, <2>6
    <3>2. n \in DOMAIN chain /\ first <= n /\ n \in Nat /\ first \in Nat
      BY <3>1, <2>2, <2>1, <1>3 DEF Hits
    <3>3. first < n => chain[first] > l
      BY <3>1, <3>2, <2>4, <1>1 DEF ChainFor
    <3> QED BY <3>1, <3>2, <3>3, <2>5, <1>2
  <2> QED BY <2>3, <2>4, <2>5, <2>6 DEF Newest!Newest
<1> QED BY <1>5, <1>6

----------------------------------------------------------------------------
LEMMA ChainInitInv == NetInit => ChainInv
<1> SUFFICES ASSUME NetInit PROVE ChainInv
  OBVIOUS
<1>1. requests \in Seq({}) /\ Len(requests) = 0 /\ DOMAIN requests = {}
  BY DEF NetInit
<1>2. ASSUME NEW c \in Chains PROVE ChainFor(c)
  <2>1. requestMap[c] = << >>
    BY DEF NetInit
  <2> QED BY <2>1, <1>1 DEF ChainFor
<1> QED BY <1>1, <1>2 DEF ChainInv, NetInit

\* A new request at the head of its chain.
LEMMA BeginInv ==
  ASSUME ChainInv, NEW id \in RequestIds, NEW now, BeginRequest(id, now)
  PROVE  ChainInv'
<1> DEFINE c == id % MapCapacity
           n == Len(requests)
           new == requests'[n + 1]
<1>1. c \in Chains
  BY IdsHaveChains
<1>2. PICK R : requests \in Seq(R)
  BY DEF ChainInv
<1>3. PICK r : requests' = Append(requests, r) /\ r.id = id
  BY DEF BeginRequest
<1>4. /\ requests' \in Seq(R \union {r})
      /\ n \in Nat /\ Len(requests') = n + 1
      /\ DOMAIN requests = 1 .. n /\ DOMAIN requests' = 1 .. n + 1
      /\ \A k \in 1 .. n : requests'[k] = requests[k]
      /\ requests'[n + 1] = r
  <2>1. requests \in Seq(R \union {r})
    BY <1>2
  <2> QED BY <2>1, <1>2, <1>3, AppendProperties
<1>5. /\ DOMAIN requestMap' = Chains
      /\ requestMap'[c] = <<n + 1>> \o requestMap[c]
      /\ \A d \in Chains \ {c} : requestMap'[d] = requestMap[d]
  BY <1>1 DEF ChainInv, BeginRequest, Chained, ChainOf
<1>6. ASSUME NEW d \in Chains, d # c PROVE ChainFor(d)'
  <2>1. ChainFor(d) /\ requestMap'[d] = requestMap[d]
    BY <1>5, <1>6 DEF ChainInv
  <2>2. requestMap[d] \in Seq(1 .. n + 1)
    BY <2>1, <1>4 DEF ChainFor
  <2>3. \A m \in DOMAIN requestMap[d] : requestMap[d][m] \in 1 .. n
    BY <2>1, ElementOfSeq DEF ChainFor
  <2> QED BY <2>1, <2>2, <2>3, <1>3, <1>4, <1>6 DEF ChainFor
<1>7. ChainFor(c)'
  <2> DEFINE old == requestMap[c]
             chain == requestMap'[c]
  <2>1. ChainFor(c)
    BY <1>1 DEF ChainInv
  <2>2. old \in Seq(1 .. n) /\ Len(old) \in Nat /\ DOMAIN old = 1 .. Len(old)
        /\ \A m \in 1 .. Len(old) : old[m] \in 1 .. n
    BY <2>1, ElementOfSeq DEF ChainFor
  <2>3. /\ chain \in Seq(1 .. n + 1)
        /\ DOMAIN chain = 1 .. Len(old) + 1
        /\ chain[1] = n + 1
        /\ \A m \in 2 .. Len(old) + 1 : chain[m] = old[m - 1]
    <3>1. <<n + 1>> \in Seq(1 .. n + 1) /\ old \in Seq(1 .. n + 1) /\ Len(<<n + 1>>) = 1
      BY <2>2, <1>4
    <3> QED BY <3>1, <2>2, <1>4, <1>5, ConcatProperties
  <2> HIDE DEF chain, old
  <2>4. \A m \in DOMAIN chain : m = 1 \/ (m \in 2 .. Len(old) + 1 /\ m - 1 \in 1 .. Len(old))
    BY <2>2, <2>3
  <2>5. ASSUME NEW m \in DOMAIN chain
        PROVE  requests'[chain[m]].id % MapCapacity = c
    <3>1. CASE m = 1
      BY <3>1, <2>3, <1>3, <1>4
    <3>2. CASE m \in 2 .. Len(old) + 1 /\ m - 1 \in 1 .. Len(old)
      <4>1. chain[m] = old[m - 1] /\ old[m - 1] \in 1 .. n
        BY <3>2, <2>2, <2>3
      <4>2. requests[old[m - 1]].id % MapCapacity = c
        BY <3>2, <2>1, <2>2 DEF ChainFor, old
      <4> QED BY <4>1, <4>2, <1>4
    <3> QED BY <3>1, <3>2, <2>4
  <2>6. ASSUME NEW l \in DOMAIN chain, NEW m \in DOMAIN chain, l < m
        PROVE  chain[l] > chain[m]
    <3>1. m \in 2 .. Len(old) + 1 /\ m - 1 \in 1 .. Len(old) /\ chain[m] = old[m - 1]
      BY <2>6, <2>2, <2>3
    <3>2. CASE l = 1
      BY <3>1, <3>2, <2>2, <2>3, <1>4
    <3>3. CASE l \in 2 .. Len(old) + 1 /\ l - 1 \in 1 .. Len(old)
      <4>1. l - 1 < m - 1 /\ chain[l] = old[l - 1]
        BY <2>2, <2>3, <2>6, <3>1, <3>3
      <4> QED BY <4>1, <3>1, <3>3, <2>1, <2>2 DEF ChainFor, old
    <3> QED BY <3>2, <3>3, <2>4
  <2>7. ASSUME NEW k \in DOMAIN requests', requests'[k].id % MapCapacity = c
        PROVE  \E m \in DOMAIN chain : chain[m] = k
    <3>1. CASE k = n + 1
      BY <3>1, <2>2, <2>3
    <3>2. CASE k \in 1 .. n
      <4>1. PICK m \in DOMAIN old : old[m] = k
        BY <3>2, <2>7, <2>1, <1>4 DEF ChainFor, old
      <4>2. m + 1 \in 2 .. Len(old) + 1 /\ (m + 1) - 1 = m
        BY <4>1, <2>2
      <4>3. chain[m + 1] = old[m] /\ m + 1 \in DOMAIN chain
        BY <4>2, <2>2, <2>3
      <4> QED BY <4>1, <4>3
    <3> QED BY <3>1, <3>2, <2>7, <1>4
  <2> QED BY <2>3, <2>5, <2>6, <2>7, <1>4 DEF ChainFor, chain
<1> QED BY <1>4, <1>5, <1>6, <1>7 DEF ChainInv

\* A call that changes the request it finds, and not its id.
ChangesNewest(id) ==
  /\ asked' = id
  /\ UNCHANGED requestMap
  /\ DOMAIN requests' = DOMAIN requests
  /\ Len(requests') = Len(requests)
  /\ \E R : requests' \in Seq(R)
  /\ \A k \in DOMAIN requests :
       /\ requests'[k].id = requests[k].id
       /\ ~ Newest!Newest(id, k) => requests'[k] = requests[k]

LEMMA ChangesInv ==
  ASSUME ChainInv, NEW id, ChangesNewest(id)
  PROVE  ChainInv'
<1>1. ASSUME NEW c \in Chains PROVE ChainFor(c)'
  <2>1. ChainFor(c) /\ requestMap'[c] = requestMap[c]
    BY DEF ChainInv, ChangesNewest
  <2>2. \A n \in DOMAIN requestMap[c] : requestMap[c][n] \in DOMAIN requests
    BY <2>1, ElementOfSeq DEF ChainFor, ChainInv
  <2> QED BY <2>1, <2>2 DEF ChainFor, ChangesNewest
<1> QED BY <1>1 DEF ChainInv, ChangesNewest

\* A request changed in place.
LEMMA InPlace ==
  ASSUME ChainInv, NEW id \in RequestIds, GetRequest(id) # 0,
         NEW r, r.id = requests[GetRequest(id)].id,
         requests' = [requests EXCEPT ![GetRequest(id)] = r],
         asked' = id, UNCHANGED requestMap
  PROVE  ChangesNewest(id)
<1>1. PICK R : requests \in Seq(R)
  BY DEF ChainInv
<1>2. Newest!Newest(id, GetRequest(id))
  BY GetIsNewest
<1>3. GetRequest(id) \in DOMAIN requests
  BY <1>2 DEF Newest!Newest
<1>4. requests \in Seq(R \union {r})
  BY <1>1
<1>5. requests' \in Seq(R \union {r}) /\ Len(requests') = Len(requests)
      /\ DOMAIN requests' = DOMAIN requests
  BY <1>3, <1>4, ExceptSeq
<1>6. \A k \in DOMAIN requests :
        requests'[k] = IF k = GetRequest(id) THEN r ELSE requests[k]
  BY <1>3
<1> QED BY <1>2, <1>5, <1>6 DEF ChangesNewest

LEMMA CallsChangeNewest ==
  ASSUME ChainInv, NEW id \in RequestIds,
         \/ \E kind \in {"request", "response"}, header \in Headers : AddHeader(id, kind, header)
         \/ \E size \in Sizes, now \in Moments :
              FinishRequest(id, size, now) \/ AddDataChunk(id, size, now)
  PROVE  ChangesNewest(id)
<1> DEFINE k == GetRequest(id)
<1>1. ASSUME NEW kind, NEW header, AddHeader(id, kind, header)
      PROVE  ChangesNewest(id)
  <2> DEFINE r == [requests[k] EXCEPT !.headers[kind] = <<header>> \o @]
  <2>1. k # 0 /\ requests' = [requests EXCEPT ![k] = r] /\ asked' = id /\ UNCHANGED requestMap
    BY <1>1 DEF AddHeader
  <2>2. r.id = requests[k].id
    OBVIOUS
  <2> QED BY <2>1, <2>2, InPlace
<1>2. ASSUME NEW size, NEW now, FinishRequest(id, size, now)
      PROVE  ChangesNewest(id)
  <2> DEFINE r == [requests[k] EXCEPT !.transfer = AfterEnd(@, size), !.end = now,
                                      !.state = "Finished"]
  <2>1. k # 0 /\ requests' = [requests EXCEPT ![k] = r] /\ asked' = id /\ UNCHANGED requestMap
    BY <1>2 DEF FinishRequest
  <2>2. r.id = requests[k].id
    OBVIOUS
  <2> QED BY <2>1, <2>2, InPlace
<1>3. ASSUME NEW size, NEW now, AddDataChunk(id, size, now)
      PROVE  ChangesNewest(id)
  <2> DEFINE r == [requests[k] EXCEPT !.chunks = Append(@, [length |-> size, time |-> now]),
                                      !.transfer = AfterChunk(@, size)]
  <2>1. k # 0 /\ requests' = [requests EXCEPT ![k] = r] /\ asked' = id /\ UNCHANGED requestMap
    BY <1>3 DEF AddDataChunk
  <2>2. r.id = requests[k].id
    OBVIOUS
  <2> QED BY <2>1, <2>2, InPlace
<1> QED BY <1>1, <1>2, <1>3

LEMMA ChainNextInv == ChainInv /\ [NetNext]_netVars => ChainInv'
<1> SUFFICES ASSUME ChainInv, [NetNext]_netVars PROVE ChainInv'
  OBVIOUS
<1>1. ASSUME NEW id \in RequestIds, NEW now, BeginRequest(id, now) PROVE ChainInv'
  BY <1>1, BeginInv
<1>2. ASSUME NEW id \in RequestIds, BeginRefused(id) \/ Unheard(id) PROVE ChainInv'
  BY <1>2 DEF BeginRefused, Unheard, ChainInv, ChainFor
<1>3. ASSUME NEW id \in RequestIds,
             \/ \E kind \in {"request", "response"}, header \in Headers :
                  AddHeader(id, kind, header)
             \/ \E size \in Sizes, now \in Moments :
                  FinishRequest(id, size, now) \/ AddDataChunk(id, size, now)
      PROVE  ChainInv'
  BY <1>3, CallsChangeNewest, ChangesInv
<1>4. CASE UNCHANGED netVars
  BY <1>4 DEF netVars, ChainInv, ChainFor
<1> QED BY <1>1, <1>2, <1>3, <1>4 DEF NetNext

LEMMA ChainInvariant == NetSpec => []ChainInv
BY ChainInitInv, ChainNextInv, PTL DEF NetSpec

----------------------------------------------------------------------------
LEMMA NetInitRefines == NetInit => Newest!Init
BY DEF NetInit, Newest!Init

LEMMA BeginRefines ==
  ASSUME ChainInv, NEW id \in RequestIds, NEW now, BeginRequest(id, now)
  PROVE  Newest!Begin(id)
<1>1. PICK R : requests \in Seq(R)
  BY DEF ChainInv
<1>2. PICK r : requests' = Append(requests, r) /\ r.id = id /\ asked' = id
  BY DEF BeginRequest
<1>3. requests \in Seq(R \union {r})
  BY <1>1
<1> QED BY <1>2, <1>3, AppendProperties DEF Newest!Begin

LEMMA ChangesRefine ==
  ASSUME NEW id, ChangesNewest(id)
  PROVE  Newest!Tell(id)
BY DEF ChangesNewest, Newest!Tell

LEMMA NetNextRefines == ChainInv /\ [NetNext]_netVars => [Newest!Next]_(Newest!newestVars)
<1> SUFFICES ASSUME ChainInv, [NetNext]_netVars
             PROVE  Newest!Next \/ UNCHANGED Newest!newestVars
  OBVIOUS
<1>1. ASSUME NEW id \in RequestIds, NEW now, BeginRequest(id, now) PROVE Newest!Next
  BY <1>1, BeginRefines DEF Newest!Next
<1>2. ASSUME NEW id \in RequestIds, BeginRefused(id) \/ Unheard(id) PROVE Newest!Next
  BY <1>2 DEF BeginRefused, Unheard, Newest!Next, Newest!Tell
<1>3. ASSUME NEW id \in RequestIds,
             \/ \E kind \in {"request", "response"}, header \in Headers :
                  AddHeader(id, kind, header)
             \/ \E size \in Sizes, now \in Moments :
                  FinishRequest(id, size, now) \/ AddDataChunk(id, size, now)
      PROVE  Newest!Next
  BY <1>3, CallsChangeNewest, ChangesRefine DEF Newest!Next
<1>4. CASE UNCHANGED netVars
  BY <1>4 DEF netVars, Newest!newestVars
<1> QED BY <1>1, <1>2, <1>3, <1>4 DEF NetNext

\* Whatever the ids, the number of chains and the order of the calls: a call
\* reaches the newest request of its id and no other request changes.
THEOREM NetworkReachesNewest == NetSpec => RequestsAreNewest
BY NetInitRefines, ChainInvariant, NetNextRefines, PTL
   DEF NetSpec, RequestsAreNewest, Newest!Spec

----------------------------------------------------------------------------
\* What was received according to the reports: the last end, and the chunks
\* after it.
EndsOf(reports) == {i \in DOMAIN reports : reports[i].op = "end"}
FromOf(reports) ==
  IF EndsOf(reports) = {} THEN 1
  ELSE CHOOSE i \in EndsOf(reports) : \A l \in EndsOf(reports) : l <= i
Counted(reports, from) == [i \in DOMAIN reports |-> IF i < from THEN 0 ELSE reports[i].size]

LEMMA ReceivedIs ==
  \A reports : Received(reports) = SumOf(Counted(reports, FromOf(reports))) % SizeModulus
BY DEF Received, EndsOf, FromOf, Counted

LEMMA CountedIsSeq ==
  ASSUME NEW reports \in Seq(Report), NEW from
  PROVE  /\ Counted(reports, from) \in Seq(Nat) /\ Counted(reports, from) \in Seq(Int)
         /\ Len(Counted(reports, from)) = Len(reports)
         /\ \A i \in 1 .. Len(reports) :
              Counted(reports, from)[i] = IF i < from THEN 0 ELSE reports[i].size
<1>1. Len(reports) \in Nat /\ DOMAIN reports = 1 .. Len(reports)
  OBVIOUS
<1>2. \A i \in 1 .. Len(reports) : reports[i].size \in Nat
  <2>1. \A i \in 1 .. Len(reports) : reports[i] \in Report
    BY ElementOfSeq
  <2>2. \A size \in Sizes : size \in Nat
    BY NetworkAssumption
  <2> QED BY <2>1, <2>2 DEF Report
<1>3. Counted(reports, from) \in [1 .. Len(reports) -> Nat]
  BY <1>1, <1>2 DEF Counted
<1>4. Counted(reports, from) \in Seq(Nat) /\ Len(Counted(reports, from)) = Len(reports)
  BY <1>1, <1>3
<1>5. Counted(reports, from) \in Seq(Int)
  BY <1>4
<1> QED BY <1>1, <1>4, <1>5 DEF Counted

LEMMA FromIsEnd ==
  ASSUME NEW reports \in Seq(Report)
  PROVE  /\ EndsOf(reports) # {} =>
              /\ FromOf(reports) \in EndsOf(reports)
              /\ \A l \in EndsOf(reports) : l <= FromOf(reports)
         /\ FromOf(reports) \in 1 .. Len(reports) + 1
<1> DEFINE E == EndsOf(reports)
           n == Len(reports)
<1>1. n \in Nat /\ DOMAIN reports = 1 .. n /\ E \in SUBSET (0 .. n) /\ E \subseteq 1 .. n
  BY DEF EndsOf
<1> HIDE DEF E, n
<1>2. ASSUME E # {} PROVE FromOf(reports) \in E /\ \A l \in E : l <= FromOf(reports)
  <2>1. \E i \in E : \A l \in E : l <= i
    BY <1>1, <1>2, GreatestOf
  <2>2. FromOf(reports) = CHOOSE i \in E : \A l \in E : l <= i
    BY <1>2 DEF FromOf, E
  <2> QED BY <2>1, <2>2
<1>3. E = {} => FromOf(reports) = 1
  BY DEF FromOf, E
<1> QED BY <1>1, <1>2, <1>3 DEF E, n

\* One report more.
LEMMA ReceivedMore ==
  ASSUME NEW reports \in Seq(Report), NEW report \in Report
  PROVE  /\ Received(reports) \in Nat /\ Received(reports) < SizeModulus
         /\ Received(Append(reports, report)) =
              IF report.op = "end" THEN AfterEnd(Received(reports), report.size)
              ELSE AfterChunk(Received(reports), report.size)
<1> DEFINE n == Len(reports)
           t == Append(reports, report)
           from == FromOf(reports)
           old == Counted(reports, from)
           new == Counted(t, FromOf(t))
<1>1. /\ t \in Seq(Report) /\ Len(t) = n + 1 /\ n \in Nat
      /\ DOMAIN t = 1 .. n + 1 /\ DOMAIN reports = 1 .. n
      /\ (\A i \in 1 .. n : t[i] = reports[i]) /\ t[n + 1] = report
  BY AppendProperties
<1>2. report.size \in Nat /\ SizeModulus \in Nat \ {0}
  <2>1. \A size \in Sizes : size \in Nat
    BY NetworkAssumption
  <2> QED BY <2>1, NetworkAssumption DEF Report
<1> HIDE DEF t
<1>3. /\ old \in Seq(Nat) /\ old \in Seq(Int) /\ Len(old) = n
      /\ \A i \in 1 .. n : old[i] = IF i < from THEN 0 ELSE reports[i].size
  BY CountedIsSeq
<1>4. /\ new \in Seq(Int) /\ Len(new) = n + 1
      /\ \A i \in 1 .. n + 1 : new[i] = IF i < FromOf(t) THEN 0 ELSE t[i].size
  BY <1>1, CountedIsSeq
<1>5. SumOf(old) \in Nat
  BY <1>3, SumNat
<1>9. Received(reports) \in Nat /\ Received(reports) < SizeModulus
  <2>1. Received(reports) = SumOf(old) % SizeModulus
    BY ReceivedIs
  <2> QED BY <2>1, <1>2, <1>5, RemainderOfSum
<1> HIDE DEF n
<1>6. \A i \in 1 .. n + 1 : i \in 1 .. n \/ i = n + 1
  BY <1>1
<1>7. CASE report.op = "end"
  <2>1. EndsOf(t) = EndsOf(reports) \union {n + 1} /\ EndsOf(reports) \subseteq 1 .. n
    BY <1>1, <1>6, <1>7 DEF EndsOf
  <2>2. FromOf(t) = n + 1
    <3>1. FromOf(t) \in EndsOf(t) /\ \A l \in EndsOf(t) : l <= FromOf(t)
      BY <2>1, <1>1, FromIsEnd
    <3>2. FromOf(t) \in 1 .. n + 1 /\ n + 1 <= FromOf(t)
      BY <3>1, <2>1, <1>1
    <3> QED BY <3>2, <1>1
  <2> DEFINE f == [k \in 0 .. n + 1 |-> IF k = n + 1 THEN report.size ELSE 0]
  <2>3. f[0] = 0 /\ f[n + 1] = report.size
    BY <1>1
  <2>4. ASSUME NEW k \in 1 .. n + 1 PROVE f[k] = f[k - 1] + new[k]
    <3>1. k - 1 \in 0 .. n + 1 /\ k - 1 # n + 1 /\ k \in 0 .. n + 1
      BY <1>1
    <3>2. f[k - 1] = 0
      BY <3>1
    <3>3. f[k] = IF k = n + 1 THEN report.size ELSE 0
      BY <3>1
    <3>4. new[k] = IF k = n + 1 THEN report.size ELSE 0
      BY <2>2, <1>1, <1>4, <1>6
    <3> HIDE DEF f, new
    <3> QED BY <3>2, <3>3, <3>4, <1>2
  <2> HIDE DEF f, new
  <2>5. SumOf(new) = report.size
    BY <2>3, <2>4, <1>4, SumBy
  <2>6. Received(t) = report.size % SizeModulus
    BY <2>5, ReceivedIs DEF new
  <2> QED BY <2>6, <1>7, <1>9 DEF AfterEnd, t
<1>8. CASE report.op # "end"
  <2>1. EndsOf(t) = EndsOf(reports)
    BY <1>1, <1>6, <1>8 DEF EndsOf
  <2>2. FromOf(t) = from
    BY <2>1 DEF FromOf
  <2>3. from \in 1 .. n + 1
    BY FromIsEnd DEF n
  <2> HIDE DEF new, old, from
  <2>4. \A i \in 1 .. n + 1 : new[i] = IF i = n + 1 THEN report.size ELSE old[i]
    <3>1. ASSUME NEW i \in 1 .. n
          PROVE  i \in 1 .. n + 1 /\ i # n + 1 /\ new[i] = old[i]
      <4>1. i \in 1 .. n + 1 /\ i # n + 1
        BY <3>1, <1>1
      <4>2. new[i] = IF i < from THEN 0 ELSE t[i].size
        BY <4>1, <2>2, <1>4
      <4>3. old[i] = IF i < from THEN 0 ELSE reports[i].size
        BY <3>1, <1>3
      <4>4. t[i] = reports[i]
        BY <3>1, <1>1
      <4> QED BY <4>1, <4>2, <4>3, <4>4
    <3>2. n + 1 \in 1 .. n + 1 /\ ~ (n + 1 < from)
      BY <2>3, <1>1
    <3>3. new[n + 1] = report.size
      BY <3>2, <2>2, <1>1, <1>4
    <3> QED BY <3>1, <3>3, <1>6
  <2>5. /\ Append(old, report.size) \in Seq(Int) /\ Len(Append(old, report.size)) = n + 1
        /\ \A i \in 1 .. n + 1 : Append(old, report.size)[i] = IF i = n + 1 THEN report.size ELSE old[i]
    <3>1. report.size \in Int
      BY <1>2
    <3> QED BY <3>1, <1>1, <1>3, <1>6, AppendProperties
  <2>6. new = Append(old, report.size)
    BY <2>4, <2>5, <1>4, SeqEqual
  <2>7. SumOf(new) = SumOf(old) + report.size
    <3>1. report.size \in Int
      BY <1>2
    <3> QED BY <3>1, <2>6, <1>3, SumAppend
  <2>8. Received(t) = (SumOf(old) + report.size) % SizeModulus
    BY <2>7, ReceivedIs DEF new
  <2>9. Received(reports) = SumOf(old) % SizeModulus
    BY ReceivedIs DEF old, from
  <2>10. (Received(reports) + report.size) % SizeModulus = (SumOf(old) + report.size) % SizeModulus
    <3> DEFINE a == SumOf(old)
    <3>1. a \in Nat
      BY <1>5
    <3> HIDE DEF a
    <3>2. ((a % SizeModulus) + report.size) % SizeModulus = (a + report.size) % SizeModulus
      BY <3>1, <1>2, RemainderOfSum
    <3> QED BY <3>2, <2>9 DEF a
  <2> QED BY <2>8, <2>10, <1>8, <1>9 DEF AfterChunk, t
<1> QED BY <1>7, <1>8, <1>9 DEF t

----------------------------------------------------------------------------
\* A request knows the times of its reports, the last of them among what it
\* kept, and as much was transferred as the reports say.
Heard(r, reports) ==
  /\ r \in Request
  /\ r.transfer = Received(reports)
  /\ LastChunkTime(r.chunks) \in Nat
  /\ LastChunkTime(r.chunks) = 0 \/ \E i \in DOMAIN reports : reports[i].time = LastChunkTime(r.chunks)
  /\ r.end = 0 \/ \E i \in DOMAIN reports : reports[i].time = r.end
  /\ reports # << >> =>
       \/ LastChunkTime(r.chunks) = reports[Len(reports)].time
       \/ r.end = reports[Len(reports)].time

HeardInv ==
  /\ told \in Seq(Seq(Report)) /\ Len(told) = Len(requests)
  /\ \A k \in DOMAIN requests : Heard(requests[k], told[k])

LEMMA NetSizes ==
  /\ \A now \in Moments : now \in Nat
  /\ \A size \in Sizes : size \in Nat
BY NetworkAssumption

LEMMA RequestFields ==
  ASSUME NEW r \in Request
  PROVE  /\ r.id \in RequestIds /\ r.start \in Nat /\ r.end \in Nat
         /\ r.chunks \in Seq(Chunk) /\ r.transfer \in Nat
         /\ r.headers \in [{"request", "response"} -> Seq(Headers)]
<1>1. r.start \in Moments /\ r.end \in Moments \union {0} /\ r.transfer \in 0 .. SizeModulus - 1
  BY DEF Request
<1> QED BY <1>1, NetSizes DEF Request

LEMMA Transfers ==
  \A transfer \in Nat, size \in Sizes :
    /\ AfterEnd(transfer, size) \in 0 .. SizeModulus - 1
    /\ AfterChunk(transfer, size) \in 0 .. SizeModulus - 1
<1> SUFFICES ASSUME NEW transfer \in Nat, NEW size \in Sizes
             PROVE  /\ AfterEnd(transfer, size) \in 0 .. SizeModulus - 1
                    /\ AfterChunk(transfer, size) \in 0 .. SizeModulus - 1
  OBVIOUS
<1>1. size \in Nat /\ transfer + size \in Nat /\ SizeModulus \in Nat \ {0}
  BY NetSizes, NetworkAssumption
<1>2. \A n \in Nat : n % SizeModulus \in 0 .. SizeModulus - 1
  BY <1>1
<1> QED BY <1>1, <1>2 DEF AfterEnd, AfterChunk

\* A request after a chunk or an end.
LEMMA HeardMore ==
  ASSUME NEW r, NEW reports \in Seq(Report), Heard(r, reports),
         NEW size \in Sizes, NEW now \in Moments,
         NEW next, NEW op \in {"chunk", "end"},
         next \in Request, next.start = r.start,
         op = "chunk" => /\ next.chunks = Append(r.chunks, [length |-> size, time |-> now])
                         /\ next.transfer = AfterChunk(r.transfer, size)
                         /\ next.end = r.end,
         op = "end" => /\ next.chunks = r.chunks
                       /\ next.transfer = AfterEnd(r.transfer, size)
                       /\ next.end = now
  PROVE  LET report == [op |-> op, size |-> size, time |-> now] IN
         Append(reports, report) \in Seq(Report) /\ Heard(next, Append(reports, report))
<1> DEFINE report == [op |-> op, size |-> size, time |-> now]
           t == Append(reports, report)
           n == Len(reports)
<1>1. report \in Report /\ report.op = op /\ report.size = size /\ report.time = now
  BY DEF Report
<1> HIDE DEF report
<1>2. /\ t \in Seq(Report) /\ Len(t) = n + 1 /\ n \in Nat
      /\ DOMAIN t = 1 .. n + 1 /\ DOMAIN reports = 1 .. n
      /\ (\A i \in 1 .. n : t[i] = reports[i]) /\ t[n + 1] = report
      /\ n + 1 \in 1 .. n + 1 /\ 1 .. n \subseteq 1 .. n + 1
  BY <1>1, AppendProperties
<1>3. now \in Nat
  BY NetSizes
<1>4. next.transfer = Received(t)
  BY <1>1, ReceivedMore DEF Heard
<1> HIDE DEF t, n
<1>5. CASE op = "chunk"
  <2> DEFINE chunk == [length |-> size, time |-> now]
  <2>1. chunk \in Chunk /\ chunk.time = now
    BY DEF Chunk
  <2>2. r.chunks \in Seq(Chunk)
    BY RequestFields DEF Heard
  <2>3. next.chunks = Append(r.chunks, chunk) /\ next.end = r.end /\ next.start = r.start
    BY <1>5
  <2> HIDE DEF chunk
  <2>4. next.chunks \in Seq(Chunk) /\ LastChunkTime(next.chunks) = now
    BY <2>1, <2>2, <2>3, AppendProperties DEF LastChunkTime
  <2>5. next.end = 0 \/ \E i \in DOMAIN t : t[i].time = next.end
    BY <2>3, <1>2 DEF Heard
  <2> QED BY <2>3, <2>4, <2>5, <1>1, <1>2, <1>3, <1>4 DEF Heard, t, report
<1>6. CASE op = "end"
  <2>1. next.chunks = r.chunks /\ next.end = now /\ next.start = r.start
    BY <1>6
  <2>2. LastChunkTime(next.chunks) = 0 \/ \E i \in DOMAIN t : t[i].time = LastChunkTime(next.chunks)
    BY <2>1, <1>2 DEF Heard
  <2> QED BY <2>1, <2>2, <1>1, <1>2, <1>3, <1>4 DEF Heard, t, report
<1> QED BY <1>5, <1>6

\* A report about the newest request of an id.
LEMMA ReportInv ==
  ASSUME ChainInv, HeardInv, NEW id \in RequestIds, GetRequest(id) # 0,
         NEW next, requests' = [requests EXCEPT ![GetRequest(id)] = next],
         NEW reports, reports \in Seq(Report), Heard(next, reports),
         told' = [told EXCEPT ![GetRequest(id)] = reports]
  PROVE  HeardInv'
<1> DEFINE k == GetRequest(id)
<1>1. k \in DOMAIN requests /\ Len(told) = Len(requests) /\ told \in Seq(Seq(Report))
  BY GetIsNewest DEF Newest!Newest, HeardInv
<1>2. PICK R : requests \in Seq(R)
  BY DEF ChainInv
<1> HIDE DEF k
<1>3. requests' = [requests EXCEPT ![k] = next] /\ told' = [told EXCEPT ![k] = reports]
  BY DEF k
<1>4. /\ Len(requests') = Len(requests) /\ DOMAIN requests' = DOMAIN requests
      /\ \A l \in DOMAIN requests : requests'[l] = IF l = k THEN next ELSE requests[l]
  <2>1. requests \in Seq(R \union {next})
    BY <1>2
  <2> QED BY <2>1, <1>1, <1>3, ExceptSeq
<1>5. DOMAIN told = DOMAIN requests
  BY <1>1, <1>2
<1>6. /\ told' \in Seq(Seq(Report)) /\ Len(told') = Len(told)
      /\ \A l \in DOMAIN requests : told'[l] = IF l = k THEN reports ELSE told[l]
  <2> DEFINE t == [told EXCEPT ![k] = reports]
  <2>1. k \in 1 .. Len(told)
    BY <1>1, <1>5
  <2>2. t \in Seq(Seq(Report)) /\ Len(t) = Len(told)
        /\ \A l \in 1 .. Len(told) : t[l] = IF l = k THEN reports ELSE told[l]
    BY <1>1, <2>1, ExceptSeq
  <2> QED BY <1>1, <1>3, <1>5, <2>2
<1>7. ASSUME NEW l \in DOMAIN requests' PROVE Heard(requests'[l], told'[l])
  <2>1. Heard(requests[l], told[l])
    BY <1>4 DEF HeardInv
  <2> QED BY <2>1, <1>4, <1>6
<1>8. \A l \in DOMAIN requests' : Heard(requests[l], told[l])'
  BY <1>7 DEF Heard, Received, LastChunkTime
<1> QED BY <1>1, <1>4, <1>6, <1>8 DEF HeardInv

LEMMA HeardNext == ChainInv /\ HeardInv /\ [NetNext]_netVars => HeardInv'
<1> SUFFICES ASSUME ChainInv, HeardInv, [NetNext]_netVars PROVE HeardInv'
  OBVIOUS
<1>1. ASSUME NEW id \in RequestIds, NEW now \in Moments, BeginRequest(id, now) PROVE HeardInv'
  <2> DEFINE r == requests'[Len(requests) + 1]
             n == Len(requests)
  <2>1. PICK R : requests \in Seq(R)
    BY DEF ChainInv
  <2>2. PICK new : requests' = Append(requests, new) /\ new.start = now /\ new.end = 0
                   /\ new.transfer = 0 /\ new.chunks = << >> /\ new \in Request
    <3> DEFINE new == [id |-> id, state |-> "Pending", start |-> now, end |-> 0, transfer |-> 0,
                       chunks |-> << >>, headers |-> [request |-> << >>, response |-> << >>]]
    <3>1. [request |-> << >>, response |-> << >>] \in [{"request", "response"} -> Seq(Headers)]
      <4> DEFINE none == << >>
      <4>1. none \in Seq(Headers)
        OBVIOUS
      <4> HIDE DEF none
      <4>2. [request |-> none, response |-> none] \in [{"request", "response"} -> Seq(Headers)]
        BY <4>1
      <4> QED BY <4>2 DEF none
    <3>2. 0 \in 0 .. SizeModulus - 1
      BY NetworkAssumption
    <3>3. new \in Request
      BY <3>1, <3>2 DEF Request
    <3> QED BY <3>3, <1>1 DEF BeginRequest
  <2>3. requests \in Seq(R \union {new}) /\ new \in R \union {new}
    BY <2>1
  <2>4. /\ n \in Nat /\ Len(requests') = n + 1 /\ DOMAIN requests = 1 .. n /\ DOMAIN requests' = 1 .. n + 1
        /\ (\A k \in 1 .. n : requests'[k] = requests[k]) /\ requests'[n + 1] = new
    BY <2>2, <2>3, AppendProperties
  <2>5. told' = Append(told, << >>) /\ told \in Seq(Seq(Report)) /\ Len(told) = n
    BY <1>1 DEF BeginRequest, HeardInv
  <2>6. << >> \in Seq(Report)
    OBVIOUS
  <2>7. /\ told' \in Seq(Seq(Report)) /\ Len(told') = n + 1
        /\ (\A k \in 1 .. n : told'[k] = told[k]) /\ told'[n + 1] = << >>
    BY <2>5, <2>6, AppendProperties
  <2>8. Received(<< >>) = 0
    <3>1. EndsOf(<< >>) = {} /\ Counted(<< >>, FromOf(<< >>)) = << >>
      BY DEF EndsOf, Counted
    <3>2. 0 % SizeModulus = 0
      BY NetworkAssumption
    <3> QED BY <3>1, <3>2, ReceivedIs, SumEmpty
  <2>9. Heard(new, << >>)
    <3>1. << >> \in Seq(Chunk) /\ LastChunkTime(<< >>) = 0 /\ now \in Nat
      BY NetSizes DEF LastChunkTime
    <3> QED BY <3>1, <2>2, <2>8 DEF Heard
  <2>10. ASSUME NEW k \in DOMAIN requests' PROVE Heard(requests'[k], told'[k])
    <3>1. CASE k = n + 1
      BY <3>1, <2>4, <2>7, <2>9
    <3>2. CASE k \in 1 .. n
      BY <3>2, <2>4, <2>7 DEF HeardInv
    <3> QED BY <3>1, <3>2, <2>4
  <2>11. \A k \in DOMAIN requests' : Heard(requests[k], told[k])'
    BY <2>10 DEF Heard, Received, LastChunkTime
  <2> QED BY <2>4, <2>7, <2>11 DEF HeardInv
<1>2. ASSUME UNCHANGED <<requests, told>> PROVE HeardInv'
  <2>1. requests' = requests /\ told' = told
    BY <1>2
  <2>2. ASSUME NEW k \in DOMAIN requests' PROVE Heard(requests'[k], told'[k])
    BY <2>1 DEF HeardInv
  <2>3. \A k \in DOMAIN requests' : Heard(requests[k], told[k])'
    BY <2>2 DEF Heard, Received, LastChunkTime
  <2> QED BY <2>1, <2>3 DEF HeardInv
<1>3. ASSUME NEW id \in RequestIds, NEW kind \in {"request", "response"}, NEW header \in Headers,
             AddHeader(id, kind, header)
      PROVE  HeardInv'
  <2> DEFINE k == GetRequest(id)
             next == [requests[k] EXCEPT !.headers[kind] = <<header>> \o @]
  <2>1. k # 0 /\ requests' = [requests EXCEPT ![k] = next] /\ told' = told
    BY <1>3 DEF AddHeader
  <2>2. k \in DOMAIN requests
    BY <2>1, GetIsNewest DEF Newest!Newest
  <2>3. Heard(requests[k], told[k]) /\ told[k] \in Seq(Report) /\ told' = [told EXCEPT ![k] = told[k]]
    <3>1. DOMAIN told = DOMAIN requests /\ told \in Seq(Seq(Report))
      BY DEF HeardInv, ChainInv
    <3>2. told[k] \in Seq(Report)
      BY <3>1, <2>2, ElementOfSeq
    <3>3. told = [told EXCEPT ![k] = told[k]]
      BY <3>1, <2>2
    <3> QED BY <3>2, <3>3, <2>1, <2>2 DEF HeardInv
  <2>4. /\ next.start = requests[k].start /\ next.end = requests[k].end
        /\ next.chunks = requests[k].chunks /\ next.transfer = requests[k].transfer
        /\ next \in Request
    <3>1. requests[k] \in Request /\ requests[k].headers \in [{"request", "response"} -> Seq(Headers)]
      BY <2>3, RequestFields DEF Heard
    <3>2. <<header>> \o requests[k].headers[kind] \in Seq(Headers)
      BY <3>1, InFront
    <3> QED BY <3>1, <3>2 DEF Request
  <2> HIDE DEF next
  <2>5. Heard(next, told[k])
    BY <2>3, <2>4 DEF Heard
  <2> QED BY <2>1, <2>3, <2>5, ReportInv
<1>4. ASSUME NEW id \in RequestIds, GetRequest(id) # 0
      PROVE  /\ GetRequest(id) \in DOMAIN requests
             /\ told[GetRequest(id)] \in Seq(Report)
             /\ Heard(requests[GetRequest(id)], told[GetRequest(id)])
  <2>1. GetRequest(id) \in DOMAIN requests
    BY <1>4, GetIsNewest DEF Newest!Newest
  <2>2. DOMAIN told = DOMAIN requests /\ told \in Seq(Seq(Report))
    BY DEF HeardInv, ChainInv
  <2> QED BY <2>1, <2>2, ElementOfSeq DEF HeardInv
<1>5. ASSUME NEW id \in RequestIds, NEW size \in Sizes, NEW now \in Moments,
             FinishRequest(id, size, now)
      PROVE  HeardInv'
  <2> DEFINE k == GetRequest(id)
             next == [requests[k] EXCEPT !.transfer = AfterEnd(@, size), !.end = now,
                                         !.state = "Finished"]
             report == [op |-> "end", size |-> size, time |-> now]
             reports == Append(told[k], report)
  <2>1. k # 0 /\ requests' = [requests EXCEPT ![k] = next] /\ told' = [told EXCEPT ![k] = reports]
    BY <1>5 DEF FinishRequest
  <2>2. Heard(requests[k], told[k]) /\ told[k] \in Seq(Report)
    BY <2>1, <1>4
  <2>3. /\ next.start = requests[k].start /\ next.end = now /\ next.chunks = requests[k].chunks
        /\ next.transfer = AfterEnd(requests[k].transfer, size) /\ next \in Request
    <3>1. requests[k] \in Request /\ requests[k].transfer \in Nat /\ requests[k].chunks \in Seq(Chunk)
      BY <2>2, RequestFields DEF Heard
    <3>2. AfterEnd(requests[k].transfer, size) \in 0 .. SizeModulus - 1
      BY <3>1, Transfers
    <3>3. Append(requests[k].chunks, [length |-> size, time |-> now]) \in Seq(Chunk)
      BY <3>1 DEF Chunk
    <3> QED BY <3>1, <3>2, <3>3 DEF Request
  <2> HIDE DEF next, k
  <2>4. reports \in Seq(Report) /\ Heard(next, reports)
    BY <2>2, <2>3, HeardMore
  <2> HIDE DEF reports
  <2> QED BY <2>1, <2>4, ReportInv DEF k
<1>6. ASSUME NEW id \in RequestIds, NEW size \in Sizes, NEW now \in Moments,
             AddDataChunk(id, size, now)
      PROVE  HeardInv'
  <2> DEFINE k == GetRequest(id)
             next == [requests[k] EXCEPT !.chunks = Append(@, [length |-> size, time |-> now]),
                                         !.transfer = AfterChunk(@, size)]
             report == [op |-> "chunk", size |-> size, time |-> now]
             reports == Append(told[k], report)
  <2>1. k # 0 /\ requests' = [requests EXCEPT ![k] = next] /\ told' = [told EXCEPT ![k] = reports]
    BY <1>6 DEF AddDataChunk
  <2>2. Heard(requests[k], told[k]) /\ told[k] \in Seq(Report)
    BY <2>1, <1>4
  <2>3. /\ next.start = requests[k].start /\ next.end = requests[k].end
        /\ next.chunks = Append(requests[k].chunks, [length |-> size, time |-> now])
        /\ next.transfer = AfterChunk(requests[k].transfer, size) /\ next \in Request
    <3>1. requests[k] \in Request /\ requests[k].transfer \in Nat /\ requests[k].chunks \in Seq(Chunk)
      BY <2>2, RequestFields DEF Heard
    <3>2. AfterChunk(requests[k].transfer, size) \in 0 .. SizeModulus - 1
      BY <3>1, Transfers
    <3>3. Append(requests[k].chunks, [length |-> size, time |-> now]) \in Seq(Chunk)
      BY <3>1 DEF Chunk
    <3> QED BY <3>1, <3>2, <3>3 DEF Request
  <2> HIDE DEF next, k
  <2>4. reports \in Seq(Report) /\ Heard(next, reports)
    BY <2>2, <2>3, HeardMore
  <2> HIDE DEF reports
  <2> QED BY <2>1, <2>4, ReportInv DEF k
<1>7. ASSUME NEW id \in RequestIds, BeginRefused(id) \/ Unheard(id) PROVE HeardInv'
  BY <1>2, <1>7 DEF BeginRefused, Unheard
<1>8. CASE UNCHANGED netVars
  BY <1>2, <1>8 DEF netVars
<1> QED BY <1>1, <1>3, <1>5, <1>6, <1>7, <1>8 DEF NetNext

\* With a clock that does not step back the last report is the latest, and the
\* division is of what was received by the time up to it.
LEMMA HeardThroughput == ChainInv /\ HeardInv => ThroughputExact
<1> SUFFICES ASSUME ChainInv, HeardInv, NEW k \in DOMAIN requests,
                    Newest!Newest(requests[k].id, k), InTime(k)
             PROVE  LET last == IF told[k] = << >> THEN requests[k].start
                                ELSE told[k][Len(told[k])].time
                    IN Throughput(requests[k].id) =
                         IF requests[k].start = 0 \/ last = requests[k].start THEN << >>
                         ELSE <<Received(told[k]), last - requests[k].start>>
  BY DEF ThroughputExact
<1> DEFINE r == requests[k]
           reports == told[k]
           id == requests[k].id
           last == IF reports = << >> THEN r.start ELSE reports[Len(reports)].time
           chunkTime == LastChunkTime(r.chunks)
           end == IF r.end > 0 THEN r.end ELSE r.start
           until == IF chunkTime > end THEN chunkTime ELSE end
<1>1. Heard(r, reports) /\ reports \in Seq(Report)
  <2>1. DOMAIN told = DOMAIN requests /\ told \in Seq(Seq(Report))
    BY DEF HeardInv, ChainInv
  <2> QED BY <2>1, ElementOfSeq DEF HeardInv
<1>2. \A i \in 1 .. Len(reports) : reports[i].time \in Nat
  <2>1. \A i \in 1 .. Len(reports) : reports[i] \in Report
    BY <1>1, ElementOfSeq
  <2> QED BY <2>1, NetSizes DEF Report
<1>3. GetRequest(id) = k
  <2>1. id \in RequestIds
    BY <1>1, RequestFields DEF Heard
  <2>2. k \in DOMAIN requests /\ requests[k].id = id /\ \A l \in DOMAIN requests : requests[l].id = id => l <= k
    BY DEF Newest!Newest
  <2>3. GetRequest(id) # 0 /\ Newest!Newest(id, GetRequest(id))
    BY <2>1, <2>2, GetIsNewest
  <2>4. GetRequest(id) \in DOMAIN requests /\ GetRequest(id) <= k /\ k <= GetRequest(id)
    BY <2>2, <2>3 DEF Newest!Newest
  <2>5. DOMAIN requests \subseteq Int
    BY DEF ChainInv
  <2> QED BY <2>4, <2>5
<1>4. until = last
  <2>1. CASE reports = << >>
    <3>1. DOMAIN reports = {}
      BY <2>1
    <3> QED BY <2>1, <3>1, <1>1, RequestFields DEF Heard
  <2>2. CASE reports # << >>
    <3> DEFINE n == Len(reports)
    <3>1. n \in 1 .. n /\ DOMAIN reports = 1 .. n
      BY <2>2, <1>1, EmptySeq
    <3>2. r.start <= last /\ last = reports[n].time /\ last \in Nat
      BY <3>1, <2>2, <1>2 DEF InTime
    <3>3. \A i \in 1 .. n : reports[i].time <= last
      BY <3>1, <3>2 DEF InTime
    <3>4. r.start \in Nat /\ r.end \in Nat /\ chunkTime \in Nat
          /\ r.end <= last /\ chunkTime <= last
          /\ (chunkTime = last \/ r.end = last)
      BY <3>1, <3>2, <3>3, <2>2, <1>1, RequestFields DEF Heard
    <3> HIDE DEF chunkTime, last, r
    <3> QED BY <3>2, <3>4
  <2> QED BY <2>1, <2>2
<1>5. k # 0
  <2>1. DOMAIN requests = 1 .. Len(requests)
    BY DEF ChainInv
  <2> QED BY <2>1
<1>6. Throughput(id) = IF r.start = 0 \/ until = r.start THEN << >> ELSE <<r.transfer, until - r.start>>
  BY <1>3, <1>5 DEF Throughput
<1>7. r.transfer = Received(reports)
  BY <1>1 DEF Heard
<1> HIDE DEF until
<1> QED BY <1>4, <1>6, <1>7

\* Whatever the ids, the sizes and the order of chunks and ends: the
\* throughput of the newest request of an id is all it received over all the
\* time it took (calculate_throughput_bytes_per_sec, network.h).
THEOREM ThroughputIsExact == NetSpec => []ThroughputExact
<1>1. NetInit => HeardInv
  BY DEF NetInit, HeardInv
<1> QED BY <1>1, HeardNext, HeardThroughput, ChainInitInv, ChainNextInv, PTL DEF NetSpec

----------------------------------------------------------------------------
(* The service workers (service_worker.h).                                 *)

Worker == [id : Versions, status : Statuses \union {"new"}, events : Seq(EventNames)]

WorkersInv == workers \in Seq(Worker)

LEMMA Backwards ==
  ASSUME NEW S, NEW s \in Seq(S)
  PROVE  /\ Reverse(s) \in Seq(S) /\ Len(Reverse(s)) = Len(s) /\ Len(s) \in Nat
         /\ DOMAIN Reverse(s) = 1 .. Len(s) /\ DOMAIN s = 1 .. Len(s)
         /\ \A k \in 1 .. Len(s) : /\ Len(s) - k + 1 \in 1 .. Len(s)
                                   /\ Reverse(s)[k] = s[Len(s) - k + 1]
                                   /\ Reverse(s)[Len(s) - k + 1] = s[k]
<1> DEFINE n == Len(s)
<1>1. n \in Nat /\ DOMAIN s = 1 .. n /\ \A k \in 1 .. n : s[k] \in S
  BY ElementOfSeq
<1>2. Reverse(s) = [k \in 1 .. n |-> s[(n - k) + 1]]
  BY DEF Reverse
<1> HIDE DEF n
<1>3. \A k \in 1 .. n : n - k + 1 \in 1 .. n /\ n - (n - k + 1) + 1 = k
  BY <1>1
<1>4. Reverse(s) \in [1 .. n -> S]
  BY <1>1, <1>2, <1>3
<1>5. Reverse(s) \in Seq(S) /\ Len(Reverse(s)) = n
  BY <1>1, <1>4, LenProperties, SeqDef
<1> QED BY <1>1, <1>2, <1>3, <1>5 DEF n

\* The walk from the front stops at the newest worker of the version.
LEMMA ReachedIsNewest ==
  ASSUME WorkersInv, NEW version
  PROVE  /\ Reached(version) # 0 =>
              /\ Reached(version) \in 1 .. Len(workers)
              /\ workers[Reached(version)].id = version
              /\ NewestWorker!Newest(version, Len(workers) - Reached(version) + 1)
<1> DEFINE n == Len(workers)
           r == Reached(version)
           I == {i \in 1 .. n : workers[i].id = version}
<1>1. n \in Nat /\ DOMAIN workers = 1 .. n
  BY DEF WorkersInv
<1>2. r = IF I # {} THEN Min(I) ELSE 0
  BY DEF Reached, SelectInSeq
<1>3. I # {} => r \in I /\ \A i \in I : r <= i
  <2>1. I \in SUBSET Nat
    OBVIOUS
  <2> QED BY <1>2, <2>1, MinOf
<1>4. ASSUME r # 0 PROVE r \in 1 .. n /\ workers[r].id = version /\ \A i \in I : r <= i
  BY <1>2, <1>3, <1>4
<1>5. ASSUME r # 0 PROVE NewestWorker!Newest(version, n - r + 1)
  <2>1. /\ DOMAIN Reverse(workers) = 1 .. n
        /\ \A k \in 1 .. n : n - k + 1 \in 1 .. n /\ Reverse(workers)[k] = workers[n - k + 1]
        /\ \A k \in 1 .. n : Reverse(workers)[n - k + 1] = workers[k]
    BY Backwards DEF WorkersInv
  <2>2. ASSUME NEW l \in 1 .. n, Reverse(workers)[l].id = version PROVE l <= n - r + 1
    <3>1. n - l + 1 \in I
      BY <2>1, <2>2
    <3>2. r <= n - l + 1 /\ r \in 1 .. n
      BY <3>1, <1>4, <1>5
    <3> QED BY <3>2, <1>1
  <2> HIDE DEF r, n
  <2> QED BY <2>1, <2>2, <1>4, <1>5 DEF NewestWorker!Newest
<1> QED BY <1>4, <1>5

\* A call that changes the worker it reaches, and not its version.
LEMMA WorkerTold ==
  ASSUME WorkersInv, NEW version \in Versions, Reached(version) # 0,
         NEW w \in Worker, w.id = workers[Reached(version)].id,
         workers' = [workers EXCEPT ![Reached(version)] = w], askedVersion' = version
  PROVE  WorkersInv' /\ NewestWorker!Tell(version)
<1> DEFINE n == Len(workers)
           r == Reached(version)
<1>1. n \in Nat /\ DOMAIN workers = 1 .. n /\ r \in 1 .. n
      /\ NewestWorker!Newest(version, n - r + 1)
  BY ReachedIsNewest DEF WorkersInv
<1>2. workers' \in Seq(Worker) /\ Len(workers') = n
      /\ \A i \in 1 .. n : workers'[i] = IF i = r THEN w ELSE workers[i]
  BY <1>1, ExceptSeq DEF WorkersInv
<1>3. /\ DOMAIN Reverse(workers) = 1 .. n /\ Len(Reverse(workers)) = n
      /\ \A k \in 1 .. n : n - k + 1 \in 1 .. n /\ Reverse(workers)[k] = workers[n - k + 1]
  BY Backwards DEF WorkersInv
<1>4. /\ DOMAIN Reverse(workers') = 1 .. n /\ Len(Reverse(workers')) = n
      /\ \A k \in 1 .. n : Reverse(workers')[k] = workers'[n - k + 1]
  <2>1. workers' \in Seq(Worker) /\ Len(workers') = n
    BY <1>2
  <2> HIDE DEF n
  <2>2. \A s \in Seq(Worker) :
          /\ DOMAIN Reverse(s) = 1 .. Len(s) /\ Len(Reverse(s)) = Len(s)
          /\ \A k \in 1 .. Len(s) : Reverse(s)[k] = s[Len(s) - k + 1]
    BY Backwards
  <2> QED BY <2>1, <2>2
<1> HIDE DEF r, n
<1>5. ASSUME NEW k \in 1 .. n
      PROVE  /\ Reverse(workers')[k].id = Reverse(workers)[k].id
             /\ ~ NewestWorker!Newest(version, k) => Reverse(workers')[k] = Reverse(workers)[k]
  <2>1. CASE n - k + 1 = r
    <3>1. k = n - r + 1
      BY <2>1, <1>1
    <3>2. Reverse(workers')[k] = w /\ Reverse(workers)[k] = workers[r]
      BY <2>1, <1>1, <1>2, <1>3, <1>4
    <3> QED BY <3>1, <3>2, <1>1 DEF r
  <2>2. CASE n - k + 1 # r
    BY <2>2, <1>2, <1>3, <1>4
  <2> QED BY <2>1, <2>2
<1>6. NewestWorker!Tell(version)
  BY <1>3, <1>4, <1>5 DEF NewestWorker!Tell
<1> QED BY <1>2, <1>6 DEF WorkersInv

LEMMA WorkersStep ==
  ASSUME WorkersInv, [WorkersNext]_workerVars
  PROVE  WorkersInv' /\ [NewestWorker!Next]_(NewestWorker!newestVars)
<1> USE DEF NewestWorker!Next, NewestWorker!newestVars
<1>1. ASSUME NEW version \in Versions, RegisterWorker(version)
      PROVE  WorkersInv' /\ NewestWorker!Begin(version)
  <2> DEFINE n == Len(workers)
             w == [id |-> version, status |-> "new", events |-> << >>]
  <2>1. w \in Worker /\ w.id = version
    BY DEF Worker
  <2>2. workers' = <<w>> \o workers /\ askedVersion' = version
    BY <1>1 DEF RegisterWorker
  <2> HIDE DEF w
  <2>3. /\ workers' \in Seq(Worker) /\ n \in Nat /\ Len(workers') = n + 1
        /\ workers'[1] = w /\ \A i \in 1 .. n : workers'[i + 1] = workers[i]
    BY <2>1, <2>2, InFront DEF WorkersInv
  <2>4. /\ DOMAIN Reverse(workers) = 1 .. n /\ Len(Reverse(workers)) = n
        /\ \A k \in 1 .. n : n - k + 1 \in 1 .. n /\ Reverse(workers)[k] = workers[n - k + 1]
    BY Backwards DEF WorkersInv
  <2>5. /\ Len(Reverse(workers')) = n + 1
        /\ \A k \in 1 .. n + 1 : Reverse(workers')[k] = workers'[(n + 1) - k + 1]
    BY <2>3, Backwards
  <2> HIDE DEF n
  <2>6. ASSUME NEW k \in 1 .. n PROVE Reverse(workers')[k] = Reverse(workers)[k]
    <3>1. (n + 1) - k + 1 = (n - k + 1) + 1 /\ k \in 1 .. n + 1
      BY <2>3
    <3>2. Reverse(workers')[k] = workers'[(n - k + 1) + 1]
      BY <3>1, <2>5
    <3>3. n - k + 1 \in 1 .. n /\ Reverse(workers)[k] = workers[n - k + 1]
      BY <2>4
    <3> QED BY <3>2, <3>3, <2>3
  <2>7. Reverse(workers')[n + 1].id = version
    <3>1. (n + 1) - (n + 1) + 1 = 1 /\ n + 1 \in 1 .. n + 1
      BY <2>3
    <3> QED BY <3>1, <2>1, <2>3, <2>5
  <2>8. NewestWorker!Begin(version)
    BY <2>2, <2>4, <2>5, <2>6, <2>7 DEF NewestWorker!Begin
  <2> QED BY <2>3, <2>8 DEF WorkersInv
<1>2. ASSUME NEW version \in Versions, Reached(version) # 0
      PROVE  workers[Reached(version)] \in Worker
  BY <1>2, ReachedIsNewest, ElementOfSeq DEF WorkersInv
<1>3. ASSUME NEW version \in Versions, NEW status \in Statuses, UpdateStatus(version, status)
      PROVE  WorkersInv' /\ NewestWorker!Tell(version)
  <2> DEFINE old == workers[Reached(version)]
             w == [old EXCEPT !.status = status]
  <2>1. Reached(version) # 0 /\ askedVersion' = version
        /\ workers' = [workers EXCEPT ![Reached(version)] = w]
    BY <1>3 DEF UpdateStatus
  <2>2. w \in Worker /\ w.id = old.id
    BY <2>1, <1>2 DEF Worker
  <2> QED BY <2>1, <2>2, WorkerTold
<1>4. ASSUME NEW version \in Versions, NEW event \in EventNames, RecordEvent(version, event)
      PROVE  WorkersInv' /\ NewestWorker!Tell(version)
  <2> DEFINE old == workers[Reached(version)]
             w == [old EXCEPT !.events = <<event>> \o @]
  <2>1. Reached(version) # 0 /\ askedVersion' = version
        /\ workers' = [workers EXCEPT ![Reached(version)] = w]
    BY <1>4 DEF RecordEvent
  <2>2. <<event>> \o old.events \in Seq(EventNames)
    BY <2>1, <1>2, InFront DEF Worker
  <2>3. w \in Worker /\ w.id = old.id
    BY <2>1, <2>2, <1>2 DEF Worker
  <2> QED BY <2>1, <2>3, WorkerTold
<1>5. ASSUME NEW version \in Versions, WorkerUnheard(version)
      PROVE  WorkersInv' /\ NewestWorker!Tell(version)
  BY <1>5 DEF WorkerUnheard, WorkersInv, NewestWorker!Tell
<1>6. CASE UNCHANGED workerVars
  BY <1>6 DEF workerVars, WorkersInv
<1> QED BY <1>1, <1>3, <1>4, <1>5, <1>6 DEF WorkersNext

\* However often versions are registered again, a call reaches the newest
\* registration and leaves the earlier ones as they were (register_worker,
\* update_status and record_event, service_worker.h).
THEOREM WorkersReachNewest == WorkersSpec => WorkersAreNewest
<1>1. WorkersInit => WorkersInv
  BY DEF WorkersInit, WorkersInv
<1>2. WorkersInit => NewestWorker!Init
  BY DEF WorkersInit, NewestWorker!Init, Reverse
<1> QED BY <1>1, <1>2, WorkersStep, PTL DEF WorkersSpec, WorkersAreNewest, NewestWorker!Spec

----------------------------------------------------------------------------
(* The virtual files (vfs.h).                                              *)

File == [path : AllPaths, content : DOMAIN ContentLength]

\* A path that is not the empty one has one file: the walk looked for it
\* before the file was made.
TreeOk(t) ==
  /\ t \in Seq(File)
  /\ \A i, j \in DOMAIN t : t[i].path = t[j].path /\ t[i].path # Empty => i = j

FilesInv == TreeOk(tree) /\ totalFiles \in Int /\ totalBytes \in Int

\* Find and Contents of any tree.
FindIn(t, path) ==
  IF path = Empty THEN 0 ELSE SelectInSeq(t, LAMBDA file : file.path = path)
ContentsIn(t) ==
  [path \in FilePaths |-> IF FindIn(t, path) = 0 THEN NoContent ELSE t[FindIn(t, path)].content]

LEMMA OfTheTree ==
  /\ \A path : Find(path) = FindIn(tree, path)
  /\ Contents = ContentsIn(tree) /\ Contents' = ContentsIn(tree')
  /\ FilesInv' <=> (TreeOk(tree') /\ totalFiles' \in Int /\ totalBytes' \in Int)
<1>1. \A path : Find(path) = FindIn(tree, path)
  BY DEF Find, FindIn
<1>2. Contents = ContentsIn(tree)
  BY <1>1 DEF Contents, ContentsIn
<1>3. Contents' = ContentsIn(tree')
  BY DEF Contents, ContentsIn, Find, FindIn, SelectInSeq
<1>4. FilesInv' <=> (TreeOk(tree') /\ totalFiles' \in Int /\ totalBytes' \in Int)
  BY DEF FilesInv, TreeOk
<1> QED BY <1>1, <1>2, <1>3, <1>4

\* find_node stops at the file of the path.
LEMMA FindIsFile ==
  ASSUME NEW t \in Seq(File), NEW path, path # Empty
  PROVE  /\ FindIn(t, path) = 0 => \A i \in DOMAIN t : t[i].path # path
         /\ FindIn(t, path) # 0 => /\ FindIn(t, path) \in DOMAIN t
                                   /\ t[FindIn(t, path)].path = path
<1> DEFINE I == {i \in 1 .. Len(t) : t[i].path = path}
<1>1. FindIn(t, path) = IF I # {} THEN Min(I) ELSE 0
  BY DEF FindIn, SelectInSeq
<1>2. Len(t) \in Nat /\ DOMAIN t = 1 .. Len(t) /\ I \in SUBSET Nat
  OBVIOUS
<1>3. I # {} => Min(I) \in I
  BY <1>2, MinOf
<1> QED BY <1>1, <1>2, <1>3

\* The contents of a tree are f when f says so file by file.
LEMMA ContentsAre ==
  ASSUME NEW t, TreeOk(t),
         NEW f, f = [path \in FilePaths |-> f[path]],
         \A i \in DOMAIN t : t[i].path \in FilePaths => f[t[i].path] = t[i].content,
         \A path \in FilePaths : (\A i \in DOMAIN t : t[i].path # path) => f[path] = NoContent
  PROVE  ContentsIn(t) = f
<1>1. ASSUME NEW path \in FilePaths PROVE ContentsIn(t)[path] = f[path]
  <2>1. t \in Seq(File) /\ path # Empty
    BY DEF TreeOk, FilePaths
  <2>2. ContentsIn(t)[path] = IF FindIn(t, path) = 0 THEN NoContent ELSE t[FindIn(t, path)].content
    BY DEF ContentsIn
  <2> QED BY <2>1, <2>2, FindIsFile
<1> QED BY <1>1 DEF ContentsIn

\* What the contents say, file by file.
LEMMA ContentsFiles ==
  ASSUME NEW t, TreeOk(t), NEW path \in FilePaths
  PROVE  /\ \A i \in DOMAIN t : t[i].path = path => ContentsIn(t)[path] = t[i].content
         /\ (\A i \in DOMAIN t : t[i].path # path) => ContentsIn(t)[path] = NoContent
         /\ ContentsIn(t)[path] = NoContent <=> FindIn(t, path) = 0
<1>1. t \in Seq(File) /\ path # Empty
  BY DEF TreeOk, FilePaths
<1>2. ContentsIn(t)[path] = IF FindIn(t, path) = 0 THEN NoContent ELSE t[FindIn(t, path)].content
  BY DEF ContentsIn
<1>3. ASSUME NEW i \in DOMAIN t PROVE t[i].content # NoContent
  <2>1. t[i] \in File
    BY <1>1, ElementOfSeq
  <2> QED BY <2>1, FilesAssumption DEF File
<1> QED BY <1>1, <1>2, <1>3, FindIsFile DEF TreeOk

LEMMA NoFiles == TreeOk(<< >>) /\ ContentsIn(<< >>) = [path \in FilePaths |-> NoContent]
<1>1. TreeOk(<< >>)
  BY DEF TreeOk
<1>2. ASSUME NEW path \in FilePaths PROVE ContentsIn(<< >>)[path] = NoContent
  <2>1. DOMAIN << >> = {}
    OBVIOUS
  <2> QED BY <2>1, <1>1, ContentsFiles
<1> QED BY <1>1, <1>2 DEF ContentsIn

LEMMA OverwriteKeeps ==
  ASSUME FilesInv, NEW path \in AllPaths, NEW content \in DOMAIN ContentLength,
         OverwriteFile(path, content)
  PROVE  /\ FilesInv'
         /\ path \in FilePaths
         /\ Contents[path] # NoContent
         /\ Contents' = [Contents EXCEPT ![path] = content]
<1> DEFINE n == FindIn(tree, path)
           c == ContentsIn(tree)
           f == [c EXCEPT ![path] = content]
           file == [tree[n] EXCEPT !.content = content]
<1>1. TreeOk(tree) /\ tree \in Seq(File) /\ Find(path) = n
  BY OfTheTree DEF FilesInv, TreeOk
<1>2. path # Root /\ n # 0 /\ path # Empty /\ path \in FilePaths
  BY <1>1 DEF OverwriteFile, FindIn, FilePaths
<1>3. n \in DOMAIN tree /\ tree[n].path = path
  BY <1>1, <1>2, FindIsFile
<1>4. tree[n] \in File
  BY <1>1, <1>3, ElementOfSeq
<1>5. file \in File /\ file.path = path /\ file.content = content
  BY <1>3, <1>4 DEF File
<1>6. tree' = [tree EXCEPT ![n] = file]
  BY <1>1 DEF OverwriteFile
<1>7. c[path] # NoContent
  BY <1>1, <1>2, ContentsFiles
<1>8. f = [p1 \in FilePaths |-> f[p1]]
      /\ \A p1 \in FilePaths : f[p1] = IF p1 = path THEN content ELSE c[p1]
  BY DEF ContentsIn
<1> HIDE DEF file, n
<1>9. tree' \in Seq(File) /\ DOMAIN tree' = DOMAIN tree
      /\ \A i \in DOMAIN tree : tree'[i] = IF i = n THEN file ELSE tree[i]
  BY <1>1, <1>3, <1>5, <1>6, ExceptSeq
<1>10. TreeOk(tree')
  BY <1>1, <1>3, <1>5, <1>9 DEF TreeOk
<1> HIDE DEF c
<1>11. ASSUME NEW i \in DOMAIN tree', tree'[i].path \in FilePaths
       PROVE  f[tree'[i].path] = tree'[i].content
  <2>1. CASE i = n
    BY <2>1, <1>2, <1>3, <1>5, <1>8, <1>9
  <2>2. CASE i # n
    <3>1. tree'[i] = tree[i] /\ i \in DOMAIN tree
      BY <2>2, <1>9
    <3>2. tree[i].path # path
      BY <2>2, <3>1, <1>1, <1>2, <1>3 DEF TreeOk
    <3> QED BY <3>1, <3>2, <1>1, <1>8, <1>11, ContentsFiles DEF c
  <2> QED BY <2>1, <2>2
<1>12. ASSUME NEW p1 \in FilePaths, \A i \in DOMAIN tree' : tree'[i].path # p1
       PROVE  f[p1] = NoContent
  <2>1. p1 # path /\ \A i \in DOMAIN tree : tree[i].path # p1
    BY <1>3, <1>5, <1>9, <1>12
  <2> QED BY <2>1, <1>1, <1>8, ContentsFiles DEF c
<1> HIDE DEF f
<1>13. ContentsIn(tree') = f
  BY <1>8, <1>10, <1>11, <1>12, ContentsAre
<1>14. totalFiles' \in Int /\ totalBytes' \in Int
  BY DEF OverwriteFile, FilesInv
<1> QED BY <1>2, <1>7, <1>10, <1>13, <1>14, OfTheTree DEF f, c

LEMMA CreateKeeps ==
  ASSUME FilesInv, NEW path \in AllPaths, NEW content \in DOMAIN ContentLength,
         CreateFile(path, content)
  PROVE  /\ FilesInv'
         /\ path = Empty => UNCHANGED Contents
         /\ path # Empty =>
              /\ path \in FilePaths
              /\ Contents[path] = NoContent
              /\ Contents' = [Contents EXCEPT ![path] = content]
<1> DEFINE c == ContentsIn(tree)
           f == IF path = Empty THEN c ELSE [c EXCEPT ![path] = content]
           file == [path |-> path, content |-> content]
           n == Len(tree)
<1>1. TreeOk(tree) /\ tree \in Seq(File) /\ Find(path) = FindIn(tree, path)
  BY OfTheTree DEF FilesInv, TreeOk
<1>2. path # Root /\ FindIn(tree, path) = 0 /\ (path # Empty => path \in FilePaths)
      /\ (path = Empty => path \notin FilePaths)
  BY <1>1 DEF CreateFile, FilePaths
<1>3. path # Empty => \A i \in DOMAIN tree : tree[i].path # path
  BY <1>1, <1>2, FindIsFile
<1>4. path # Empty => c[path] = NoContent
  BY <1>1, <1>2, <1>3, ContentsFiles
<1>5. file \in File /\ file.path = path /\ file.content = content
  BY DEF File
<1>6. tree' = <<file>> \o tree
  BY DEF CreateFile
<1>7. f = [p1 \in FilePaths |-> f[p1]]
      /\ \A p1 \in FilePaths : f[p1] = IF p1 = path THEN content ELSE c[p1]
  BY <1>2 DEF ContentsIn
<1> HIDE DEF file
<1>8. /\ tree' \in Seq(File) /\ n \in Nat /\ DOMAIN tree' = 1 .. n + 1 /\ DOMAIN tree = 1 .. n
      /\ tree'[1] = file
      /\ \A i \in 1 .. n : tree'[i + 1] = tree[i]
      /\ \A i \in 2 .. n + 1 : tree'[i] = tree[i - 1]
  BY <1>1, <1>5, <1>6, InFront
<1> HIDE DEF n
<1>9. \A i \in DOMAIN tree' : i = 1 \/ (i \in 2 .. n + 1 /\ i - 1 \in DOMAIN tree)
  BY <1>8
<1>10. TreeOk(tree')
  <2>1. ASSUME NEW i \in DOMAIN tree', NEW j \in DOMAIN tree',
               tree'[i].path = tree'[j].path, tree'[i].path # Empty
        PROVE  i = j
    <3>1. CASE i = 1 /\ j = 1
      BY <3>1
    <3>2. CASE i = 1 /\ j # 1
      BY <3>2, <2>1, <1>3, <1>5, <1>8, <1>9
    <3>3. CASE i # 1 /\ j = 1
      BY <3>3, <2>1, <1>3, <1>5, <1>8, <1>9
    <3>4. CASE i # 1 /\ j # 1
      <4>1. tree'[i] = tree[i - 1] /\ tree'[j] = tree[j - 1]
            /\ i - 1 \in DOMAIN tree /\ j - 1 \in DOMAIN tree
        BY <3>4, <1>8, <1>9
      <4>2. i - 1 = j - 1
        BY <4>1, <2>1, <1>1 DEF TreeOk
      <4> QED BY <4>2, <1>8
    <3> QED BY <3>1, <3>2, <3>3, <3>4
  <2> QED BY <2>1, <1>8 DEF TreeOk
<1> HIDE DEF c
<1>11. ASSUME NEW i \in DOMAIN tree', tree'[i].path \in FilePaths
       PROVE  f[tree'[i].path] = tree'[i].content
  <2>1. CASE i = 1
    BY <2>1, <1>5, <1>7, <1>8, <1>11
  <2>2. CASE i # 1
    <3>1. tree'[i] = tree[i - 1] /\ i - 1 \in DOMAIN tree
      BY <2>2, <1>8, <1>9
    <3>2. tree[i - 1].path # path
      BY <3>1, <1>2, <1>3, <1>11
    <3> QED BY <3>1, <3>2, <1>1, <1>7, <1>11, ContentsFiles DEF c
  <2> QED BY <2>1, <2>2
<1>12. ASSUME NEW p1 \in FilePaths, \A i \in DOMAIN tree' : tree'[i].path # p1
       PROVE  f[p1] = NoContent
  <2>1. p1 # path
    BY <1>5, <1>8, <1>12
  <2>2. ASSUME NEW i \in DOMAIN tree PROVE tree[i].path # p1
    <3>1. i + 1 \in DOMAIN tree' /\ tree'[i + 1] = tree[i]
      BY <1>8
    <3> QED BY <3>1, <1>12
  <2> QED BY <2>1, <2>2, <1>1, <1>7, ContentsFiles DEF c
<1> HIDE DEF f
<1>13. ContentsIn(tree') = f
  BY <1>7, <1>10, <1>11, <1>12, ContentsAre
<1>14. totalFiles' \in Int /\ totalBytes' \in Int
  BY FilesAssumption DEF CreateFile, FilesInv
<1> QED BY <1>2, <1>4, <1>10, <1>13, <1>14, OfTheTree DEF f, c

\* What a call does and answers.
LEMMA CallIsAnswered ==
  ASSUME FilesInv, NEW path \in AllPaths
  PROVE  /\ \A content \in DOMAIN ContentLength :
              OverwriteFile(path, content) \/ CreateFile(path, content) =>
                /\ FilesInv'
                /\ IF path \in FilePaths THEN Map!Write(path, content) ELSE Map!WriteLost(content)
         /\ WriteRefused(path) =>
              /\ FilesInv'
              /\ IF path \in FilePaths THEN Map!Refuse(path) ELSE Map!Answered(FALSE)
         /\ FileExists(path) =>
              /\ FilesInv'
              /\ IF path \in FilePaths THEN Map!Exists(path) ELSE Map!Answered(path = Root)
<1>1. ASSUME NEW content \in DOMAIN ContentLength, OverwriteFile(path, content)
      PROVE  FilesInv' /\ path \in FilePaths /\ Map!Write(path, content)
  BY <1>1, OverwriteKeeps DEF OverwriteFile, Map!Write
<1>2. ASSUME NEW content \in DOMAIN ContentLength, CreateFile(path, content)
      PROVE  FilesInv' /\ IF path \in FilePaths THEN Map!Write(path, content)
                          ELSE Map!WriteLost(content)
  <2>1. CASE path = Empty
    <3>1. Map!WriteLost(content)
      BY <1>2, <2>1, CreateKeeps DEF CreateFile, Map!WriteLost, Map!Created
    <3> QED BY <1>2, <2>1, <3>1, CreateKeeps DEF FilePaths
  <2>2. CASE path # Empty
    <3>1. path \in FilePaths /\ Map!Write(path, content)
      BY <1>2, <2>2, CreateKeeps DEF CreateFile, Map!Write, Map!Created
    <3> QED BY <1>2, <3>1, CreateKeeps
  <2> QED BY <2>1, <2>2
<1>3. ASSUME path \in FilePaths
      PROVE  Contents[path] = NoContent <=> Find(path) = 0
  BY <1>3, ContentsFiles, OfTheTree DEF FilesInv
<1>4. ASSUME WriteRefused(path)
      PROVE  /\ FilesInv'
             /\ IF path \in FilePaths THEN Map!Refuse(path) ELSE Map!Answered(FALSE)
  <2>1. FilesInv' /\ Map!Answered(FALSE)
    BY <1>4, OfTheTree DEF WriteRefused, FilesInv, Map!Answered
  <2>2. path \in FilePaths => Contents[path] = NoContent
    BY <1>3, <1>4 DEF WriteRefused, FilePaths
  <2> QED BY <2>1, <2>2 DEF Map!Refuse
<1>5. ASSUME FileExists(path)
      PROVE  /\ FilesInv'
             /\ IF path \in FilePaths THEN Map!Exists(path) ELSE Map!Answered(path = Root)
  <2>1. FilesInv' /\ Map!Answered(path = Root \/ Find(path) # 0)
    BY <1>5, OfTheTree DEF FileExists, FilesInv, Map!Answered
  <2>2. CASE path \in FilePaths
    <3>1. path # Root /\ (Find(path) # 0 <=> Contents[path] # NoContent)
      BY <2>2, <1>3 DEF FilePaths
    <3>2. (path = Root \/ Find(path) # 0) = (Contents[path] # NoContent)
      BY <3>1
    <3> QED BY <2>1, <2>2, <3>2 DEF Map!Exists
  <2>3. CASE path \notin FilePaths
    <3>1. path = Root \/ path = Empty
      BY <2>3 DEF FilePaths
    <3>2. path = Empty => Find(path) = 0
      BY DEF Find
    <3>3. (path = Root \/ Find(path) # 0) = (path = Root)
      BY <3>1, <3>2
    <3> QED BY <2>1, <2>3, <3>3
  <2> QED BY <2>2, <2>3
<1> QED BY <1>1, <1>2, <1>4, <1>5

LEMMA FilesStep ==
  ASSUME FilesInv, [FilesNext]_fileVars
  PROVE  FilesInv' /\ [EachCallIsAnswered]_fileVars
<1>1. FilesNext => FilesInv'
  BY CallIsAnswered DEF FilesNext
<1>2. UNCHANGED fileVars => FilesInv'
  BY OfTheTree DEF fileVars, FilesInv
<1>3. EachCallIsAnswered
  BY CallIsAnswered DEF EachCallIsAnswered
<1> QED BY <1>1, <1>2, <1>3

\* The files are a map from paths to contents, whatever the paths, also those
\* that cannot be a file's, and wherever the arena refuses: every call does to
\* the file it names, and answers, what a map would (write_file, exists and
\* find_node, vfs.h).
THEOREM FilesAreAMap == FilesSpec => FilesAreMap
<1>1. FilesInit => FilesInv
  BY NoFiles DEF FilesInit, FilesInv
<1>2. FilesInit => Map!Init
  BY NoFiles, OfTheTree DEF FilesInit, Map!Init
<1> QED BY <1>1, <1>2, FilesStep, PTL DEF FilesSpec, FilesAreMap

----------------------------------------------------------------------------
(* The virtual list (virtual_list.h).                                      *)

\* While the loop of apply_filter runs nothing is added.
ListInv ==
  /\ items \in Seq([level : ItemLevels, text : Messages])
  /\ filtered \in Seq(Nat)
  /\ sifted \in Nat /\ present \in Nat
  /\ sifted <= present /\ present <= Len(items)
  /\ sifted < present => present = Len(items)
  /\ FilteredSinceFilter

LEMMA ListInitInv == ListInit => ListInv
<1> SUFFICES ASSUME ListInit PROVE ListInv
  OBVIOUS
<1>1. items = << >> /\ filtered = << >> /\ present = 0 /\ sifted = 0
  BY DEF ListInit
<1>2. items \in Seq([level : ItemLevels, text : Messages]) /\ filtered \in Seq(Nat)
      /\ Len(items) = 0 /\ DOMAIN filtered = {}
  BY <1>1
<1>3. FilteredSinceFilter
  BY <1>1, <1>2 DEF FilteredSinceFilter
<1> QED BY <1>1, <1>2, <1>3 DEF ListInv

\* An index behind all others goes to the end of the list.
LEMMA ListedBehind ==
  ASSUME NEW s \in Seq(Nat), NEW x \in Nat,
         \A k, l \in DOMAIN s : k < l => s[k] < s[l],
         \A k \in DOMAIN s : s[k] < x
  PROVE  LET t == Append(s, x) IN
         /\ t \in Seq(Nat) /\ DOMAIN t = 1 .. Len(s) + 1 /\ DOMAIN s = 1 .. Len(s)
         /\ Len(s) \in Nat
         /\ \A k \in 1 .. Len(s) : t[k] = s[k]
         /\ t[Len(s) + 1] = x
         /\ \A k, l \in DOMAIN t : k < l => t[k] < t[l]
         /\ \A y : (\E k \in DOMAIN t : t[k] = y) <=> y = x \/ \E k \in DOMAIN s : s[k] = y
<1> DEFINE t == Append(s, x)
<1>1. /\ t \in Seq(Nat) /\ DOMAIN t = 1 .. Len(s) + 1 /\ DOMAIN s = 1 .. Len(s)
      /\ Len(s) \in Nat
      /\ \A k \in 1 .. Len(s) : t[k] = s[k]
      /\ t[Len(s) + 1] = x
  BY AppendProperties
<1> HIDE DEF t
<1>2. ASSUME NEW k \in DOMAIN t, NEW l \in DOMAIN t, k < l
      PROVE  t[k] < t[l]
  <2>1. k \in 1 .. Len(s)
    BY <1>1, <1>2
  <2>2. CASE l = Len(s) + 1
    BY <1>1, <2>1, <2>2
  <2>3. CASE l \in 1 .. Len(s)
    BY <1>1, <1>2, <2>1, <2>3
  <2> QED BY <1>1, <2>2, <2>3
<1>3. ASSUME NEW y
      PROVE  (\E k \in DOMAIN t : t[k] = y) <=> y = x \/ \E k \in DOMAIN s : s[k] = y
  <2>1. \A k \in DOMAIN t : k = Len(s) + 1 \/ k \in 1 .. Len(s)
    BY <1>1
  <2>2. Len(s) + 1 \in DOMAIN t /\ \A k \in 1 .. Len(s) : k \in DOMAIN t
    BY <1>1
  <2> QED BY <1>1, <2>1, <2>2
<1> QED BY <1>1, <1>2, <1>3 DEF t

\* What is listed is the index of an item.
LEMMA ListedIndices ==
  ASSUME ListInv, NEW k \in DOMAIN filtered
  PROVE  /\ filtered[k] \in Nat /\ filtered[k] < Len(items)
         /\ filtered[k] + 1 \in 1 .. sifted \union present + 1 .. Len(items)
<1>1. filtered[k] \in Nat
  <2>1. filtered \in Seq(Nat) /\ k \in 1 .. Len(filtered)
    BY DEF ListInv
  <2> QED BY <2>1, ElementOfSeq
<1>2. filtered[k] + 1 \in 1 .. sifted \union present + 1 .. Len(items)
  BY DEF ListInv, FilteredSinceFilter
<1>3. Len(items) \in Nat /\ sifted \in Nat /\ present \in Nat /\ sifted <= Len(items)
  BY DEF ListInv
<1> QED BY <1>1, <1>2, <1>3

\* A new item, with the index of the last.
LEMMA AddLogInv ==
  ASSUME ListInv, NEW level \in ItemLevels, NEW text \in Messages, AddLog(level, text)
  PROVE  ListInv'
<1> DEFINE n == Len(items)
<1>1. /\ n \in Nat /\ n + 1 = Len(items') /\ filtered' = Append(filtered, n)
      /\ items' \in Seq([level : ItemLevels, text : Messages])
      /\ \A m \in 1 .. n : items'[m] = items[m]
      /\ filter' = filter /\ present' = present /\ sifted' = sifted /\ sifted = present
  <2> DEFINE item == [level |-> level, text |-> text]
             Item == [level : ItemLevels, text : Messages]
  <2>1. item \in Item /\ items \in Seq(Item) /\ items' = Append(items, item)
    BY DEF ListInv, AddLog
  <2> HIDE DEF item, Item
  <2>2. /\ items' \in Seq(Item) /\ n \in Nat /\ Len(items') = n + 1
        /\ \A m \in 1 .. n : items'[m] = items[m]
    BY <2>1, AppendProperties
  <2> QED BY <2>2 DEF AddLog, Listed, Item
<1>2. \A k \in DOMAIN filtered : filtered[k] \in Nat /\ filtered[k] < n
  BY <1>1, ListedIndices DEF ListInv
<1>3. /\ filtered' \in Seq(Nat)
      /\ \A k, l \in DOMAIN filtered' : k < l => filtered'[k] < filtered'[l]
      /\ \A y : (\E k \in DOMAIN filtered' : filtered'[k] = y)
                  <=> y = n \/ \E k \in DOMAIN filtered : filtered[k] = y
  <2>1. filtered \in Seq(Nat) /\ \A k, l \in DOMAIN filtered : k < l => filtered[k] < filtered[l]
    BY DEF ListInv, FilteredSinceFilter
  <2>2. \A k \in DOMAIN filtered : filtered[k] < n
    BY <1>2
  <2>3. n \in Nat
    BY <1>1
  <2> DEFINE t == Append(filtered, n)
  <2> HIDE DEF n
  <2>4. /\ t \in Seq(Nat)
        /\ \A k, l \in DOMAIN t : k < l => t[k] < t[l]
        /\ \A y : (\E k \in DOMAIN t : t[k] = y)
                    <=> y = n \/ \E k \in DOMAIN filtered : filtered[k] = y
    BY <2>1, <2>2, <2>3, ListedBehind
  <2> HIDE DEF t
  <2>5. filtered' = t
    BY <1>1 DEF t
  <2> QED BY <2>4, <2>5
<1>4. ASSUME NEW m \in 1 .. sifted
      PROVE  Selected(filter, items'[m]) <=> \E k \in DOMAIN filtered' : filtered'[k] = m - 1
  <2>1. m \in Nat /\ m - 1 # n /\ items'[m] = items[m]
    BY <1>1 DEF ListInv
  <2>2. Selected(filter, items[m]) <=> \E k \in DOMAIN filtered : filtered[k] = m - 1
    BY DEF ListInv, FilteredSinceFilter
  <2> QED BY <2>1, <2>2, <1>3
<1>5. ASSUME NEW m \in present + 1 .. n + 1
      PROVE  \E k \in DOMAIN filtered' : filtered'[k] = m - 1
  <2>1. CASE m = n + 1
    <3>1. m - 1 = n
      BY <2>1, <1>1
    <3> QED BY <3>1, <1>3
  <2>2. CASE m # n + 1
    <3>1. m \in present + 1 .. n
      BY <2>2, <1>1 DEF ListInv
    <3>2. \E k \in DOMAIN filtered : filtered[k] = m - 1
      BY <3>1 DEF ListInv, FilteredSinceFilter
    <3> QED BY <3>2, <1>3
  <2> QED BY <2>1, <2>2
<1>6. ASSUME NEW k \in DOMAIN filtered'
      PROVE  filtered'[k] + 1 \in 1 .. sifted \union present + 1 .. n + 1
  <2>1. filtered'[k] = n \/ \E l \in DOMAIN filtered : filtered[l] = filtered'[k]
    BY <1>3
  <2>2. CASE filtered'[k] = n
    BY <2>2, <1>1 DEF ListInv
  <2>3. ASSUME NEW l \in DOMAIN filtered, filtered[l] = filtered'[k]
        PROVE  filtered'[k] + 1 \in 1 .. sifted \union present + 1 .. n + 1
    <3>1. filtered[l] + 1 \in 1 .. sifted \union present + 1 .. n
      BY DEF ListInv, FilteredSinceFilter
    <3> QED BY <3>1, <2>3, <1>1 DEF ListInv
  <2> QED BY <2>1, <2>2, <2>3
<1>7. FilteredSinceFilter'
  BY <1>1, <1>3, <1>4, <1>5, <1>6, Zenon DEF FilteredSinceFilter, Selected
<1> QED BY <1>1, <1>3, <1>7 DEF ListInv

LEMMA ApplyFilterInv ==
  ASSUME ListInv, NEW f, ApplyFilter(f)
  PROVE  ListInv'
<1>1. /\ filtered' = << >> /\ items' = items
      /\ present' = Len(items) /\ sifted' = 0 /\ Len(items) \in Nat
  BY DEF ApplyFilter, ListInv
<1>2. filtered' \in Seq(Nat) /\ DOMAIN filtered' = {}
  BY <1>1
<1>3. FilteredSinceFilter'
  BY <1>1, <1>2 DEF FilteredSinceFilter
<1> QED BY <1>1, <1>2, <1>3 DEF ListInv

\* The next item of the loop, taken or left out.
LEMMA SiftInv ==
  ASSUME ListInv, Sift
  PROVE  ListInv'
<1> DEFINE n == Len(items)
           taken == Selected(filter, items[sifted + 1])
<1>1. /\ n \in Nat /\ items' = items /\ filter' = filter /\ present' = present
      /\ sifted \in Nat /\ sifted < n /\ present = n /\ sifted' = sifted + 1
      /\ filtered' = IF taken THEN Append(filtered, sifted) ELSE filtered
  BY DEF ListInv, Sift
<1>2. \A k \in DOMAIN filtered : filtered[k] \in Nat /\ filtered[k] < sifted
  <2> SUFFICES ASSUME NEW k \in DOMAIN filtered
               PROVE  filtered[k] \in Nat /\ filtered[k] < sifted
    OBVIOUS
  <2>1. filtered[k] \in Nat /\ filtered[k] + 1 \in 1 .. sifted \union present + 1 .. n
    BY ListedIndices
  <2> QED BY <2>1, <1>1
<1> HIDE DEF taken
<1>3. /\ filtered' \in Seq(Nat)
      /\ \A k, l \in DOMAIN filtered' : k < l => filtered'[k] < filtered'[l]
      /\ \A y : (\E k \in DOMAIN filtered' : filtered'[k] = y)
                  <=> (taken /\ y = sifted) \/ \E k \in DOMAIN filtered : filtered[k] = y
  <2>1. CASE taken
    <3>1. filtered' = Append(filtered, sifted)
      BY <2>1, <1>1
    <3>2. filtered \in Seq(Nat) /\ \A k, l \in DOMAIN filtered : k < l => filtered[k] < filtered[l]
      BY DEF ListInv, FilteredSinceFilter
    <3>3. \A k \in DOMAIN filtered : filtered[k] < sifted
      BY <1>2
    <3> DEFINE t == Append(filtered, sifted)
    <3>4. /\ t \in Seq(Nat)
          /\ \A k, l \in DOMAIN t : k < l => t[k] < t[l]
          /\ \A y : (\E k \in DOMAIN t : t[k] = y)
                      <=> y = sifted \/ \E k \in DOMAIN filtered : filtered[k] = y
      BY <3>2, <3>3, <1>1, ListedBehind
    <3> HIDE DEF t
    <3>5. filtered' = t
      BY <3>1 DEF t
    <3> QED BY <3>4, <3>5, <2>1
  <2>2. CASE ~ taken
    <3>1. filtered' = filtered
      BY <2>2, <1>1
    <3> QED BY <3>1, <2>2 DEF ListInv, FilteredSinceFilter
  <2> QED BY <2>1, <2>2
<1>4. ASSUME NEW m \in 1 .. sifted + 1
      PROVE  Selected(filter, items[m]) <=> \E k \in DOMAIN filtered' : filtered'[k] = m - 1
  <2>1. CASE m = sifted + 1
    <3>1. m - 1 = sifted /\ ~ \E k \in DOMAIN filtered : filtered[k] = sifted
      BY <2>1, <1>1, <1>2
    <3> QED BY <3>1, <2>1, <1>3 DEF taken
  <2>2. CASE m # sifted + 1
    <3>1. m \in 1 .. sifted /\ m - 1 # sifted
      BY <2>2, <1>1
    <3>2. Selected(filter, items[m]) <=> \E k \in DOMAIN filtered : filtered[k] = m - 1
      BY <3>1 DEF ListInv, FilteredSinceFilter
    <3> QED BY <3>1, <3>2, <1>3
  <2> QED BY <2>1, <2>2
<1>5. ASSUME NEW k \in DOMAIN filtered'
      PROVE  filtered'[k] + 1 \in 1 .. sifted + 1
  <2>1. filtered'[k] = sifted \/ \E l \in DOMAIN filtered : filtered[l] = filtered'[k]
    BY <1>3
  <2> QED BY <2>1, <1>1, <1>2
<1>6. present + 1 .. n = {}
  BY <1>1
<1>7. FilteredSinceFilter'
  BY <1>1, <1>3, <1>4, <1>5, <1>6 DEF FilteredSinceFilter, Selected
<1> QED BY <1>1, <1>3, <1>7 DEF ListInv

LEMMA ListNextInv == ListInv /\ [ListNext]_listVars => ListInv'
<1> SUFFICES ASSUME ListInv, [ListNext]_listVars PROVE ListInv'
  OBVIOUS
<1>1. CASE \E level \in ItemLevels, text \in Messages : AddLog(level, text)
  BY <1>1, AddLogInv
<1>2. CASE \E f \in Filters : ApplyFilter(f)
  BY <1>2, ApplyFilterInv
<1>3. CASE Sift
  BY <1>3, SiftInv
<1>4. CASE UNCHANGED listVars
  BY <1>4 DEF listVars, ListInv, FilteredSinceFilter, Selected
<1> QED BY <1>1, <1>2, <1>3, <1>4 DEF ListNext

----------------------------------------------------------------------------
\* Between two filters the list shows, in order and once each, the items the
\* filter selected and those added since.
THEOREM ListIsFiltered == ListSpec => []FilteredSinceFilter
<1>1. ListInv => FilteredSinceFilter
  BY DEF ListInv
<1> QED BY <1>1, ListInitInv, ListNextInv, PTL DEF ListSpec

----------------------------------------------------------------------------
\* A row in view is not before the first one that the scroll position is in,
\* nor more than a viewport and a row after it.
LEMMA RowsInView ==
  ASSUME NEW scroll \in Nat, NEW viewport \in Nat, NEW height \in Nat \ {0},
         NEW r \in Nat, InView(r, scroll, viewport, height)
  PROVE  /\ scroll \div height <= r
         /\ r <= scroll \div height + viewport \div height + 1
<1> DEFINE q == scroll \div height
           v == viewport \div height
<1>1. q \in Nat /\ q * height <= scroll /\ scroll < (q + 1) * height
  BY Quotients
<1>2. v \in Nat /\ v * height <= viewport /\ viewport < (v + 1) * height
  BY Quotients
<1>3. r * height < scroll + viewport /\ scroll < (r + 1) * height
  BY DEF InView
<1> HIDE DEF q, v
<1>4. ~ (q >= r + 1)
  <2>1. q >= r + 1 => (r + 1) * height <= q * height
    BY <1>1, Products
  <2>2. q * height \in Nat /\ (r + 1) * height \in Nat
    BY <1>1, Products
  <2> QED BY <1>1, <1>3, <2>1, <2>2
<1>5. ~ (r >= q + v + 2)
  <2>1. r >= q + v + 2 => (q + v + 2) * height <= r * height
    BY <1>1, <1>2, Products
  <2>2. (q + v + 2) * height = (q + 1) * height + (v + 1) * height
    BY <1>1, <1>2
  <2>3. r * height \in Nat /\ (q + 1) * height \in Nat /\ (v + 1) * height \in Nat
    BY <1>1, <1>2, Products
  <2> QED BY <1>1, <1>2, <1>3, <2>1, <2>2, <2>3
<1> QED BY <1>1, <1>2, <1>4, <1>5 DEF q, v

LEMMA ListInvShows == ListInv => WindowShowsViewport
<1> SUFFICES ASSUME ListInv,
                    NEW scroll \in Scrolls, NEW viewport \in Viewports,
                    NEW height \in RowHeights, NEW overscan \in Overscans,
                    overscan >= 1, scroll <= Len(filtered) * height
             PROVE  LET w == ComputeWindow(scroll, viewport, height, overscan) IN
                    /\ 0 <= w.start /\ w.start <= w.end /\ w.end <= Len(filtered)
                    /\ \A r \in 0 .. Len(filtered) - 1 :
                         InView(r, scroll, viewport, height) => r \in w.start .. w.end - 1
                    /\ w.top = w.start * height
                    /\ w.top + (w.end - w.start) * height + w.bottom = Len(filtered) * height
  BY DEF WindowShowsViewport
<1> DEFINE n == Len(filtered)
           w == ComputeWindow(scroll, viewport, height, overscan)
           q == scroll \div height
           v == viewport \div height
           first == IF q - overscan < 0 THEN 0 ELSE q - overscan
           last == first + (v + 1) + overscan * 2
           end == IF last > n THEN n ELSE last
<1>1. n \in Nat /\ scroll \in Nat /\ viewport \in Nat /\ height \in Nat \ {0} /\ overscan \in Nat
  BY VirtualListAssumption DEF ListInv
<1>2. CASE n = 0
  <2>1. w = [start |-> 0, end |-> 0, top |-> 0, bottom |-> 0]
    BY <1>2 DEF ComputeWindow
  <2>2. n * height = 0 /\ 0 * height = 0 /\ 0 .. n - 1 = {}
    BY <1>1, <1>2
  <2> HIDE DEF w
  <2>3. /\ 0 <= w.start /\ w.start <= w.end /\ w.end <= n
        /\ w.top = w.start * height
        /\ w.top + (w.end - w.start) * height + w.bottom = n * height
    BY <2>1, <2>2, <1>2
  <2> QED BY <2>2, <2>3 DEF w
<1>3. CASE n # 0
  <2>1. w = [start |-> first, end |-> end, top |-> first * height, bottom |-> (n - end) * height]
    BY <1>3 DEF ComputeWindow, Visible
  <2>2. q \in Nat /\ v \in Nat /\ q * height <= scroll
    BY <1>1, Quotients
  <2>3. q <= n
    <3> HIDE DEF q, n
    <3>1. (n + 1) * height = n * height + height /\ n * height \in Nat /\ q * height \in Nat
      BY <1>1, <2>2, Products
    <3>2. q >= n + 1 => (n + 1) * height <= q * height
      BY <1>1, <2>2, Products
    <3> QED BY <3>1, <3>2, <1>1, <2>2 DEF n
  <2>4. \A r \in 0 .. n - 1 :
          InView(r, scroll, viewport, height) => q <= r /\ r <= q + v + 1
    BY <1>1, RowsInView
  <2> HIDE DEF q, v, n, w
  <2>5. /\ first \in Nat /\ end \in Nat /\ first <= end /\ end <= n /\ first <= q
        /\ q + v + 2 <= last
    BY <1>1, <2>2, <2>3
  <2>6. \A r \in 0 .. n - 1 :
          InView(r, scroll, viewport, height) => r \in first .. end - 1
    BY <1>1, <2>2, <2>4, <2>5
  <2> HIDE DEF first, end
  <2>7. first * height + (end - first) * height + (n - end) * height = n * height
    <3>1. (end - first) * height = end * height - first * height
          /\ (n - end) * height = n * height - end * height
      BY <1>1, <2>5, Products
    <3>2. first * height \in Int /\ end * height \in Int /\ n * height \in Int
      BY <1>1, <2>5, Products
    <3> QED BY <3>1, <3>2
  <2>8. /\ 0 <= w.start /\ w.start <= w.end /\ w.end <= n
        /\ \A r \in 0 .. n - 1 :
             InView(r, scroll, viewport, height) => r \in w.start .. w.end - 1
        /\ w.top = w.start * height
        /\ w.top + (w.end - w.start) * height + w.bottom = n * height
    BY <2>1, <2>5, <2>6, <2>7, <1>1
  <2> QED BY <2>8 DEF w, n
<1> QED BY <1>2, <1>3

\* Whatever was filtered, however high rows and viewport are and wherever the
\* list is scrolled to: the rows in view are drawn, at their places
\* (compute_window, virtual_list.h).
THEOREM WindowIsComplete == ListSpec => []WindowShowsViewport
BY ListInvShows, ListInitInv, ListNextInv, PTL DEF ListSpec

----------------------------------------------------------------------------
(* The frames of the profiler (profiler.h).                                *)

Frame == [duration : Durations, shift : Shifts]

\* The frames longer than a limit, and the points of all shifts.
LongerThan(fs, limit) == {k \in DOMAIN fs : fs[k].duration > limit}
ShiftsOf(fs) == [k \in DOMAIN fs |-> fs[k].shift]

\* The buffer has the first of the frames reported, and the counters are its.
FramesInv ==
  /\ reported \in Seq(Frame) /\ frames \in Seq(Frame)
  /\ Len(frames) = IF Len(reported) < MaxFrames THEN Len(reported) ELSE MaxFrames
  /\ \A k \in DOMAIN frames : frames[k] = reported[k]
  /\ droppedFrames = Cardinality(LongerThan(frames, 16))
  /\ longTasks = Cardinality(LongerThan(frames, 50))
  /\ layoutShift = SumOf(ShiftsOf(frames))

\* One frame more.
LEMMA LongerAppend ==
  ASSUME NEW fs \in Seq(Frame), NEW frame \in Frame, NEW limit \in Nat
  PROVE  /\ Cardinality(LongerThan(fs, limit)) \in Nat
         /\ Cardinality(LongerThan(Append(fs, frame), limit)) =
              Cardinality(LongerThan(fs, limit)) + IF frame.duration > limit THEN 1 ELSE 0
<1> DEFINE n == Len(fs)
           old == LongerThan(fs, limit)
           new == LongerThan(Append(fs, frame), limit)
<1>1. n \in Nat /\ DOMAIN fs = 1 .. n /\ DOMAIN Append(fs, frame) = 1 .. n + 1
      /\ (\A k \in 1 .. n : Append(fs, frame)[k] = fs[k]) /\ Append(fs, frame)[n + 1] = frame
  BY AppendProperties
<1>2. new = IF frame.duration > limit THEN old \union {n + 1} ELSE old
  BY <1>1 DEF LongerThan
<1>3. n + 1 \notin old /\ old \subseteq 1 .. n
  BY <1>1 DEF LongerThan
<1>4. IsFiniteSet(1 .. n)
  BY <1>1, FS_Interval
<1>5. IsFiniteSet(old) /\ Cardinality(old) \in Nat
  BY <1>3, <1>4, FS_Subset, FS_CardinalityType
<1> HIDE DEF old, new, n
<1>6. Cardinality(old \union {n + 1}) = Cardinality(old) + 1
  BY <1>3, <1>5, FS_AddElement
<1>7. Cardinality(new) = Cardinality(old) + IF frame.duration > limit THEN 1 ELSE 0
  BY <1>2, <1>5, <1>6
<1> QED BY <1>5, <1>7 DEF old, new

LEMMA ShiftsAreNumbers == \A frame \in Frame : frame.shift \in Int
<1>1. \A shift \in Shifts : shift \in Int
  BY ProfilerAssumption
<1> QED BY <1>1 DEF Frame

LEMMA ShiftsAppend ==
  ASSUME NEW fs \in Seq(Frame), NEW frame \in Frame
  PROVE  SumOf(ShiftsOf(Append(fs, frame))) = SumOf(ShiftsOf(fs)) + frame.shift
<1> DEFINE n == Len(fs)
           q == ShiftsOf(fs)
           t == ShiftsOf(Append(fs, frame))
<1>1. n \in Nat /\ DOMAIN fs = 1 .. n /\ DOMAIN Append(fs, frame) = 1 .. n + 1
      /\ (\A k \in 1 .. n : Append(fs, frame)[k] = fs[k]) /\ Append(fs, frame)[n + 1] = frame
  BY AppendProperties
<1>2. \A k \in 1 .. n : fs[k].shift \in Int
  <2>1. \A k \in 1 .. n : fs[k] \in Frame
    BY ElementOfSeq
  <2> QED BY <2>1, ShiftsAreNumbers
<1>3. frame.shift \in Int
  BY ShiftsAreNumbers
<1>4. q \in Seq(Int) /\ Len(q) = n /\ \A k \in 1 .. n : q[k] = fs[k].shift
  BY <1>1, <1>2 DEF ShiftsOf
<1>5. t = [k \in 1 .. n + 1 |-> Append(fs, frame)[k].shift]
  BY <1>1 DEF ShiftsOf
<1>6. \A k \in 1 .. n + 1 : t[k] = IF k = n + 1 THEN frame.shift ELSE q[k]
  BY <1>1, <1>4, <1>5
<1> HIDE DEF q, n, t
<1>7. t \in Seq(Int) /\ Len(t) = n + 1
  <2>1. \A k \in 1 .. n + 1 : t[k] \in Int
    BY <1>1, <1>3, <1>4, <1>6, ElementOfSeq
  <2> QED BY <2>1, <1>1, <1>5
<1>8. Append(q, frame.shift) \in Seq(Int) /\ Len(Append(q, frame.shift)) = n + 1
      /\ \A k \in 1 .. n + 1 : Append(q, frame.shift)[k] = IF k = n + 1 THEN frame.shift ELSE q[k]
  BY <1>1, <1>3, <1>4, AppendProperties
<1>9. t = Append(q, frame.shift)
  BY <1>6, <1>7, <1>8, SeqEqual
<1> QED BY <1>3, <1>4, <1>9, SumAppend DEF t, q

LEMMA RecordFrameInv ==
  ASSUME FramesInv, NEW duration \in Durations, NEW shift \in Shifts, RecordFrame(duration, shift)
  PROVE  FramesInv'
<1> DEFINE frame == [duration |-> duration, shift |-> shift]
           n == Len(frames)
           m == Len(reported)
<1>1. frame \in Frame /\ frame.duration = duration /\ frame.shift = shift
  BY DEF Frame
<1>2. reported' = Append(reported, frame)
  BY DEF RecordFrame
<1>3. n \in Nat /\ m \in Nat /\ MaxFrames \in Nat /\ DOMAIN frames = 1 .. n
      /\ frames \in Seq(Frame) /\ reported \in Seq(Frame)
  BY ProfilerAssumption DEF FramesInv
<1>4. n = IF m < MaxFrames THEN m ELSE MaxFrames
  BY DEF FramesInv
<1> HIDE DEF frame
<1>5. reported' \in Seq(Frame) /\ Len(reported') = m + 1
      /\ (\A k \in 1 .. m : reported'[k] = reported[k]) /\ reported'[m + 1] = frame
  BY <1>1, <1>2, <1>3, AppendProperties
<1>6. CASE n >= MaxFrames
  <2>1. UNCHANGED <<frames, droppedFrames, longTasks, layoutShift>>
    BY <1>6 DEF RecordFrame
  <2>2. Len(frames') = IF Len(reported') < MaxFrames THEN Len(reported') ELSE MaxFrames
    BY <2>1, <1>3, <1>4, <1>5, <1>6
  <2>3. \A k \in DOMAIN frames : reported'[k] = frames[k]
    BY <1>3, <1>4, <1>5 DEF FramesInv
  <2> QED BY <2>1, <2>2, <2>3, <1>5 DEF FramesInv
<1>7. CASE ~ (n >= MaxFrames)
  <2>1. /\ frames' = Append(frames, frame)
        /\ droppedFrames' = droppedFrames + IF frame.duration > 16 THEN 1 ELSE 0
        /\ longTasks' = longTasks + IF frame.duration > 50 THEN 1 ELSE 0
        /\ layoutShift' = layoutShift + frame.shift
    BY <1>1, <1>7 DEF RecordFrame, IsDropped, IsLongTask, frame
  <2>2. n = m
    BY <1>3, <1>4, <1>7
  <2>3. frames' \in Seq(Frame) /\ Len(frames') = n + 1 /\ DOMAIN frames' = 1 .. n + 1
        /\ (\A k \in 1 .. n : frames'[k] = frames[k]) /\ frames'[n + 1] = frame
    BY <2>1, <1>1, <1>3, AppendProperties
  <2>4. Len(frames') = IF Len(reported') < MaxFrames THEN Len(reported') ELSE MaxFrames
    BY <2>2, <2>3, <1>3, <1>5, <1>7
  <2>5. \A k \in DOMAIN frames' : frames'[k] = reported'[k]
    <3>1. \A k \in 1 .. n : frames[k] = reported[k]
      BY <1>3 DEF FramesInv
    <3> HIDE DEF n, m
    <3>2. \A k \in 1 .. n + 1 : k \in 1 .. n \/ k = n + 1
      BY <1>3
    <3> QED BY <3>1, <3>2, <2>2, <2>3, <1>5
  <2>6. /\ droppedFrames' = Cardinality(LongerThan(frames', 16))
        /\ longTasks' = Cardinality(LongerThan(frames', 50))
    BY <2>1, <1>1, <1>3, LongerAppend DEF FramesInv
  <2>7. layoutShift' = SumOf(ShiftsOf(frames'))
    BY <2>1, <1>1, <1>3, ShiftsAppend DEF FramesInv
  <2>8. LongerThan(frames, 16)' = LongerThan(frames', 16) /\ LongerThan(frames, 50)' = LongerThan(frames', 50)
        /\ ShiftsOf(frames)' = ShiftsOf(frames')
    BY DEF LongerThan, ShiftsOf
  <2> QED BY <2>3, <2>4, <2>5, <2>6, <2>7, <2>8, <1>5 DEF FramesInv
<1> QED BY <1>6, <1>7

LEMMA FramesNextInv == FramesInv /\ [ProfilerNext]_profilerVars => FramesInv'
<1> SUFFICES ASSUME FramesInv, [ProfilerNext]_profilerVars PROVE FramesInv'
  OBVIOUS
<1>1. CASE UNCHANGED frameVars
  BY <1>1 DEF frameVars, FramesInv, LongerThan, ShiftsOf
<1>2. ASSUME NEW duration \in Durations, NEW shift \in Shifts, RecordFrame(duration, shift)
      PROVE  FramesInv'
  BY <1>2, RecordFrameInv
<1> QED BY <1>1, <1>2
    DEF ProfilerNext, SetProcessId, SetThreadName, RecordTrace, AddEventArg, TraceRefused, profilerVars

LEMMA FramesInvSums == FramesInv => FramesSummed
<1> SUFFICES ASSUME FramesInv PROVE FramesSummed
  OBVIOUS
<1> DEFINE n == IF Len(reported) < MaxFrames THEN Len(reported) ELSE MaxFrames
           shown == SubSeq(reported, 1, n)
<1>1. n \in Nat /\ n <= Len(reported) /\ Len(frames) = n /\ DOMAIN frames = 1 .. n
      /\ frames \in Seq(Frame) /\ reported \in Seq(Frame) /\ Len(reported) \in Nat
      /\ \A k \in 1 .. n : frames[k] = reported[k]
  BY ProfilerAssumption DEF FramesInv
<1>2. shown = frames
  <2> HIDE DEF n
  <2>1. \A k \in 1 .. n : reported[k] \in Frame
    BY <1>1, ElementOfSeq
  <2>2. shown \in Seq(Frame) /\ Len(shown) = n /\ \A k \in 1 .. n : shown[k] = reported[k]
    <3>1. /\ shown \in Seq(Frame)
          /\ Len(shown) = IF 1 <= n THEN n - 1 + 1 ELSE 0
          /\ \A k \in 1 .. n - 1 + 1 : shown[k] = reported[1 + k - 1]
      BY <2>1, <1>1, SubSeqProperties
    <3> HIDE DEF shown
    <3> QED BY <3>1, <1>1
  <2> HIDE DEF shown
  <2> QED BY <2>2, <1>1, SeqEqual
<1> DEFINE recent == IF n > RecentFrames THEN SubSeq(shown, n - RecentFrames + 1, n) ELSE shown
           sample == IF n > RecentFrames THEN RecentFrames ELSE n
<1> HIDE DEF n, shown
<1>3. SubSeq(frames, RecentStart(n, sample), n) = recent /\ Len(recent) = sample
  <2>1. CASE n > RecentFrames
    <3>1. RecentFrames \in Nat \ {0}
      BY ProfilerAssumption
    <3>2. \A k \in n - RecentFrames + 1 .. n : frames[k] \in Frame
      BY <2>1, <3>1, <1>1, ElementOfSeq
    <3>3. Len(SubSeq(frames, n - RecentFrames + 1, n)) = RecentFrames
      <4>1. n - RecentFrames + 1 \in Int /\ n \in Int /\ n - RecentFrames + 1 <= n
            /\ n - (n - RecentFrames + 1) + 1 = RecentFrames
        BY <2>1, <3>1, <1>1
      <4>2. Len(SubSeq(frames, n - RecentFrames + 1, n)) = n - (n - RecentFrames + 1) + 1
        BY <3>2, <4>1, SubSeqProperties
      <4> QED BY <4>1, <4>2
    <3> QED BY <2>1, <3>3, <1>2 DEF RecentStart
  <2>2. CASE ~ (n > RecentFrames)
    <3>1. SubSeq(frames, 1, n) = frames /\ n - n + 1 = 1
      BY <1>1, SubSeqFull
    <3> QED BY <2>2, <3>1, <1>1, <1>2 DEF RecentStart
  <2> QED BY <2>1, <2>2
<1>4. n = 0 => TimeOf(frames) = 0 /\ TimeOf(recent) = 0
  <2>1. ASSUME n = 0 PROVE frames = << >> /\ recent = << >>
    <3>1. frames = << >>
      BY <2>1, <1>1, EmptySeq
    <3>2. ~ (0 > RecentFrames)
      BY ProfilerAssumption
    <3> QED BY <2>1, <3>1, <3>2, <1>2
  <2>2. [k \in DOMAIN << >> |-> << >>[k].duration] = << >>
    OBVIOUS
  <2> QED BY <2>1, <2>2, SumEmpty DEF TimeOf
<1>5. n = 0 => Rate(n, TimeOf(frames)) = << >> /\ Rate(sample, TimeOf(recent)) = << >>
  BY <1>4 DEF Rate
<1>6. Cardinality({k \in 1 .. n : frames[k].duration > 16}) = droppedFrames
      /\ Cardinality({k \in 1 .. n : frames[k].duration > 50}) = longTasks
      /\ SumOf([k \in 1 .. n |-> frames[k].shift]) = layoutShift
  BY <1>1 DEF FramesInv, LongerThan, ShiftsOf
<1> HIDE DEF recent, sample
<1>7. FrameSummary =
        [total |-> n, dropped |-> droppedFrames, long |-> longTasks, shift |-> layoutShift,
         average |-> Rate(n, TimeOf(frames)),
         current |-> Rate(sample, TimeOf(recent))]
  <2>1. sample = IF n > RecentFrames THEN RecentFrames ELSE n
    BY DEF sample
  <2> QED BY <2>1, <1>1, <1>3, <1>5 DEF FrameSummary
<1> QED BY <1>2, <1>3, <1>6, <1>7 DEF FramesSummed, n, shown, recent, sample

\* However many frames are reported and the buffer holds, the summary is that
\* of the first of them up to as many (record_frame and get_frame_summary,
\* profiler.h).
THEOREM SummaryOfFrames == ProfilerSpec => []FramesSummed
<1>1. ProfilerInit => FramesInv
  <2> SUFFICES ASSUME ProfilerInit PROVE FramesInv
    OBVIOUS
  <2>1. frames = << >> /\ reported = << >> /\ droppedFrames = 0 /\ longTasks = 0 /\ layoutShift = 0
    BY DEF ProfilerInit
  <2>2. LongerThan(<< >>, 16) = {} /\ LongerThan(<< >>, 50) = {} /\ ShiftsOf(<< >>) = << >>
    BY DEF LongerThan, ShiftsOf
  <2>3. << >> \in Seq(Frame) /\ Len(<< >>) = 0 /\ DOMAIN << >> = {}
    OBVIOUS
  <2> QED BY <2>1, <2>2, <2>3, SumEmpty, FS_EmptySet, ProfilerAssumption DEF FramesInv
<1> QED BY <1>1, FramesNextInv, FramesInvSums, PTL DEF ProfilerSpec

----------------------------------------------------------------------------
(* The layout tree (layout_tree.h).                                        *)

\* Where a box lies in another with as large an area, both are the same.
LEMMA NestedAreas ==
  ASSUME NEW inner \in Boxes, NEW outer \in Boxes, Within(inner, outer)
  PROVE  /\ Area(inner) \in Nat /\ Area(outer) \in Nat
         /\ inner.width > 0 /\ inner.height > 0 => Area(inner) <= Area(outer)
         /\ inner.width > 0 /\ inner.height > 0 /\ Area(inner) = Area(outer) => Within(outer, inner)
<1>1. /\ inner.width \in Nat /\ inner.height \in Nat /\ inner.x \in Int /\ inner.y \in Int
      /\ outer.width \in Nat /\ outer.height \in Nat /\ outer.x \in Int /\ outer.y \in Int
  BY LayoutAssumption
<1>2. /\ outer.x <= inner.x /\ inner.x + inner.width <= outer.x + outer.width
      /\ outer.y <= inner.y /\ inner.y + inner.height <= outer.y + outer.height
  BY DEF Within
<1>3. inner.width <= outer.width /\ inner.height <= outer.height
  BY <1>1, <1>2
<1>4. Area(inner) = inner.width * inner.height /\ Area(outer) = outer.width * outer.height
  BY DEF Area
<1>5. Area(inner) \in Nat /\ Area(outer) \in Nat /\ Area(inner) <= Area(outer)
  BY <1>1, <1>3, <1>4, Products
<1>6. ASSUME inner.width > 0, inner.height > 0, Area(inner) = Area(outer)
      PROVE  inner.width = outer.width /\ inner.height = outer.height
  <2>1. /\ inner.width \in Nat \ {0} /\ inner.height \in Nat \ {0}
        /\ outer.width \in Nat \ {0} /\ outer.height \in Nat \ {0}
    BY <1>1, <1>3, <1>6
  <2>2. inner.width * inner.height = outer.width * outer.height
    BY <1>4, <1>6
  <2> QED BY <2>1, <2>2, <1>3, Products, Zenon
<1> QED BY <1>1, <1>2, <1>5, <1>6 DEF Within

\* The loop of hit_test ends with the first of the smallest boxes.
LEMMA HitIsFirstSmallest ==
  ASSUME nodes \in Seq(Boxes), NEW point, Around(point) # {}
  PROVE  /\ HitTest(point) \in Around(point)
         /\ \A m \in Around(point) :
              \/ Area(nodes[HitTest(point)]) < Area(nodes[m])
              \/ Area(nodes[HitTest(point)]) = Area(nodes[m]) /\ HitTest(point) <= m
<1> DEFINE A == Around(point)
           Areas == {Area(nodes[n]) : n \in A}
<1>1. A \subseteq DOMAIN nodes /\ DOMAIN nodes \subseteq Nat
  BY DEF Around
<1>2. \A n \in A : nodes[n] \in Boxes
  BY <1>1, ElementOfSeq
<1>3. \A n \in A : Area(nodes[n]) \in Nat
  BY <1>2, LayoutAssumption, Products DEF Area
<1> HIDE DEF A
<1>4. Areas \in SUBSET Nat /\ Areas # {}
  BY <1>3 DEF A
<1>5. PICK least \in Areas : \A other \in Areas : least <= other
  <2> HIDE DEF Areas
  <2> QED BY <1>4, LeastOf
<1> DEFINE Smallest == {n \in A : Area(nodes[n]) = least}
<1>6. Smallest \in SUBSET Nat /\ Smallest # {}
  BY <1>1, <1>5
<1>7. PICK n \in Smallest : \A m \in Smallest : n <= m
  <2> HIDE DEF Smallest
  <2> QED BY <1>6, LeastOf
<1> DEFINE Found(k) == \A m \in A : \/ Area(nodes[k]) < Area(nodes[m])
                                    \/ Area(nodes[k]) = Area(nodes[m]) /\ k <= m
<1>8. n \in A /\ Found(n)
  <2>1. ASSUME NEW m \in A
        PROVE  \/ Area(nodes[n]) < Area(nodes[m])
               \/ Area(nodes[n]) = Area(nodes[m]) /\ n <= m
    <3>1. Area(nodes[n]) = least /\ n \in A
      BY <1>7
    <3>2. Area(nodes[m]) \in Areas
      OBVIOUS
    <3>3. least <= Area(nodes[m])
      BY <3>2, <1>5
    <3>4. Area(nodes[m]) \in Nat /\ least \in Nat
      BY <3>1, <1>3
    <3>5. Area(nodes[m]) = least => n <= m
      BY <1>7
    <3> QED BY <3>1, <3>3, <3>4, <3>5
  <2> QED BY <2>1, <1>7
<1>9. HitTest(point) = CHOOSE k \in A : Found(k)
  BY DEF HitTest, A
<1> HIDE DEF Found
<1>10. HitTest(point) \in A /\ Found(HitTest(point))
  BY <1>8, <1>9
<1> QED BY <1>10 DEF Found, A

LEMMA TreeHitsInnermost == nodes \in Seq(Boxes) => HitInnermost
<1> DEFINE Shown(point) == {n \in DOMAIN nodes : nodes[n].display # "NONE" /\ Covers(nodes[n], point)}
<1> SUFFICES ASSUME nodes \in Seq(Boxes), NEW point \in Points,
                    \A n, m \in Shown(point) :
                      Within(nodes[n], nodes[m]) \/ Within(nodes[m], nodes[n]),
                    \A n \in Shown(point) : nodes[n].width > 0 /\ nodes[n].height > 0,
                    \E n \in Shown(point) : nodes[n].width * nodes[n].height < MaxArea
             PROVE  /\ HitTest(point) \in Shown(point)
                    /\ \A n \in Shown(point) :
                         /\ Within(nodes[HitTest(point)], nodes[n])
                         /\ Within(nodes[n], nodes[HitTest(point)]) => HitTest(point) <= n
  BY Zenon DEF HitInnermost
<1> DEFINE hit == HitTest(point)
           shown == Shown(point)
<1>1. /\ \A n \in Around(point) : n \in shown /\ Area(nodes[n]) < MaxArea
      /\ \A n \in shown : Area(nodes[n]) < MaxArea => n \in Around(point)
  BY DEF Around
<1>2. Around(point) # {}
  BY <1>1 DEF Area
<1>3. hit \in shown /\ Area(nodes[hit]) < MaxArea
  BY <1>1, <1>2, HitIsFirstSmallest
<1>4. \A n \in shown : nodes[n] \in Boxes
  BY ElementOfSeq
<1>5. \A n \in shown : nodes[n].width > 0 /\ nodes[n].height > 0
  OBVIOUS
<1>6. \A n \in shown : Within(nodes[n], nodes[hit]) \/ Within(nodes[hit], nodes[n])
  BY <1>3
<1> HIDE DEF hit, shown
<1>7. ASSUME NEW n \in shown
      PROVE  /\ Within(nodes[hit], nodes[n])
             /\ Within(nodes[n], nodes[hit]) => hit <= n
  <2>1. CASE Within(nodes[n], nodes[hit])
    <3>1. Area(nodes[n]) <= Area(nodes[hit]) /\ Area(nodes[n]) \in Nat /\ Area(nodes[hit]) \in Nat
          /\ (Area(nodes[n]) = Area(nodes[hit]) => Within(nodes[hit], nodes[n]))
      BY <2>1, <1>3, <1>4, <1>5, NestedAreas
    <3>2. n \in Around(point)
      BY <3>1, <1>1, <1>3, LayoutAssumption
    <3>3. \/ Area(nodes[hit]) < Area(nodes[n])
          \/ Area(nodes[hit]) = Area(nodes[n]) /\ hit <= n
      BY <3>2, <1>2, HitIsFirstSmallest DEF hit
    <3> QED BY <3>1, <3>3
  <2>2. CASE ~ Within(nodes[n], nodes[hit])
    BY <2>2, <1>6
  <2> QED BY <2>1, <2>2
<1> QED BY <1>3, <1>7 DEF hit, shown

\* However many boxes are reported, in whichever order: under a point where
\* they lie one inside the other the innermost is found, the outer one of
\* those that fill one another (hit_test, layout_tree.h).
THEOREM InnermostIsHit == LayoutSpec => []HitInnermost
<1>1. LayoutInit => nodes \in Seq(Boxes)
  BY DEF LayoutInit
<1>2. nodes \in Seq(Boxes) /\ [LayoutNext]_layoutVars => (nodes \in Seq(Boxes))'
  <2>1. ASSUME nodes \in Seq(Boxes), NEW box \in Boxes, AddNode(box) PROVE nodes' \in Seq(Boxes)
    BY <2>1 DEF AddNode
  <2>2. ASSUME nodes \in Seq(Boxes), AddNodeFull \/ UNCHANGED layoutVars PROVE nodes' \in Seq(Boxes)
    BY <2>2 DEF AddNodeFull, layoutVars
  <2>3. ASSUME ResetLayout PROVE nodes' \in Seq(Boxes)
    BY <2>3 DEF ResetLayout
  <2> QED BY <2>1, <2>2, <2>3 DEF LayoutNext
<1> QED BY <1>1, <1>2, TreeHitsInnermost, PTL DEF LayoutSpec
=============================================================================

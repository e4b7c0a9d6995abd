---------------------- MODULE EngineStrategies_proofs ----------------------
(***************************************************************************)
(* Proofs about EngineStrategies for any strategies, keys, bars and        *)
(* reloads: the types, that instances get the bars in order, and that no   *)
(* bar is traded twice.                                                    *)
(***************************************************************************)
EXTENDS EngineStrategies, TLAPS

-----------------------------------------------------------------------------
(* The inductive invariant *)

Sorted(q) == \A i, j \in 1 .. Len(q) : i <= j => q[i] <= q[j]
AtLeast(q, b) == \A i \in 1 .. Len(q) : b <= q[i]
AtMost(q, b) == \A i \in 1 .. Len(q) : q[i] <= b

\* The messages of a key are in order, and neither they nor the history are of the future.
FeedInv == \A k \in Keys : /\ Sorted(stream[k]) /\ AtMost(stream[k], clock[k])
                           /\ history[k] <= clock[k]

\* The last bar of an instance is that of the history, and no older bar is queued.  Loaded bars
\* may be ahead of the queue, but the instances they are given to are gone with the next poll.
SeenInv ==
    \A s \in Slots :
        /\ s \notin installed.slots => seen[s].last = 0
        /\ seen[s].count > 0 => seen[s].last > 0
        /\ seen[s].last > 0 => history[KeyOf[s]] = seen[s].last
        /\ engine.pc = "poll" => AtLeast(stream[KeyOf[s]], seen[s].last)

\* Bars are only asked for when there are none.
WaitInv == engine.pc = "wait" => \A k \in engine.key : history[k] = 0

\* A traded bar is not before the queued ones, and an instance that may trade has reached it.
EntryInv ==
    \A s \in Slots, e \in 1 .. MaxBar : <<s, e>> \in entries =>
        /\ e <= clock[KeyOf[s]] /\ AtLeast(stream[KeyOf[s]], e)
        /\ engine.pc = "poll" /\ seen[s].count > 0 => e <= seen[s].last

SInv == /\ TypeOK /\ FeedInv /\ SeenInv /\ WaitInv /\ EntryInv
        /\ BarsInOrder /\ EntryOncePerBar

-----------------------------------------------------------------------------
(* Queues *)

Bars == 1 .. MaxBar

LEMMA Appends ==
    ASSUME NEW q \in Seq(Bars), NEW b \in Bars, Sorted(q), AtMost(q, b)
    PROVE  /\ Append(q, b) \in Seq(Bars)
           /\ Sorted(Append(q, b)) /\ AtMost(Append(q, b), b)
           /\ \A c \in Nat : AtLeast(q, c) /\ c <= b => AtLeast(Append(q, b), c)
<1> DEFINE a == Append(q, b)
<1>1. a \in Seq(Bars) /\ Len(a) = Len(q) + 1 /\ Len(q) \in Nat
  <2>1. a \in Seq(Bars)
    OBVIOUS
  <2>2. Len(a) = Len(q) + 1 /\ Len(q) \in Nat
    OBVIOUS
  <2>3. QED
    BY <2>1, <2>2
<1>2. \A i \in 1 .. Len(q) : a[i] = q[i] /\ a[i] \in Nat /\ q[i] <= b
  <2>1. \A i \in 1 .. Len(q) : a[i] = q[i] /\ q[i] \in Bars
    OBVIOUS
  <2>2. QED
    BY <2>1 DEF AtMost, Bars
<1>3. a[Len(q) + 1] = b
  OBVIOUS
<1>4. b \in Nat
  BY DEF Bars
<1> HIDE DEF a
<1>5. Sorted(a)
  BY <1>1, <1>2, <1>3, <1>4 DEF Sorted
<1>6. AtMost(a, b)
  BY <1>1, <1>2, <1>3, <1>4 DEF AtMost
<1>7. \A c \in Nat : AtLeast(q, c) /\ c <= b => AtLeast(a, c)
  BY <1>1, <1>2, <1>3, <1>4 DEF AtLeast
<1>8. QED
  BY <1>1, <1>5, <1>6, <1>7 DEF a

LEMMA Tails ==
    ASSUME NEW q \in Seq(Bars), q # <<>>, Sorted(q)
    PROVE  /\ Head(q) \in Bars /\ Tail(q) \in Seq(Bars)
           /\ Sorted(Tail(q)) /\ AtLeast(Tail(q), Head(q))
           /\ \A c : AtLeast(q, c) => c <= Head(q) /\ AtLeast(Tail(q), c)
           /\ \A c : AtMost(q, c) => Head(q) <= c /\ AtMost(Tail(q), c)
<1> DEFINE t == Tail(q)
<1>1. t \in Seq(Bars) /\ Len(t) = Len(q) - 1 /\ Len(q) \in Nat /\ Len(q) > 0
  OBVIOUS
<1>2. \A i \in 1 .. Len(t) : t[i] = q[i + 1] /\ i + 1 \in 1 .. Len(q)
  OBVIOUS
<1>3. Head(q) = q[1] /\ 1 \in 1 .. Len(q) /\ Head(q) \in Bars
  BY <1>1
<1> HIDE DEF t
<1>4. Sorted(t)
  BY <1>1, <1>2 DEF Sorted
<1>5. AtLeast(t, Head(q))
  BY <1>1, <1>2, <1>3 DEF Sorted, AtLeast
<1>6. \A c : AtLeast(q, c) => c <= Head(q) /\ AtLeast(t, c)
  BY <1>2, <1>3 DEF AtLeast
<1>7. \A c : AtMost(q, c) => Head(q) <= c /\ AtMost(t, c)
  BY <1>2, <1>3 DEF AtMost
<1>8. QED
  BY <1>1, <1>3, <1>4, <1>5, <1>6, <1>7 DEF t

-----------------------------------------------------------------------------
(* Types *)

EngineType == [pc : {"poll", "create", "wait"}, number : 0 .. MaxUpdates, todo : SUBSET Slots,
               fresh : SUBSET Slots, key : SUBSET Keys, warmed : SUBSET Slots]

LEMMA PollingType == Polling \in EngineType
BY BoundsAssumption DEF Polling, EngineType

LEMMA UnseenType == Unseen \in [Slots -> [count : Nat, last : 0 .. MaxBar]]
BY BoundsAssumption DEF Unseen

LEMMA TypeInit == Init => TypeOK
<1> SUFFICES ASSUME Init PROVE TypeOK
  OBVIOUS
<1>1. engine \in EngineType /\ seen \in [Slots -> [count : Nat, last : 0 .. MaxBar]]
  BY PollingType, UnseenType DEF Init
<1>2. stream \in [Keys -> Seq(1 .. MaxBar)]
  BY DEF Init
<1>3. clock \in [Keys -> 1 .. MaxBar] /\ history \in [Keys -> 0 .. MaxBar]
  BY BoundsAssumption DEF Init
<1>4. 0 \in 0 .. MaxUpdates /\ 0 \in 0 .. MaxFaults
  BY BoundsAssumption
<1>5. /\ published \in [number : 0 .. MaxUpdates, slots : SUBSET Slots]
      /\ installed \in [number : 0 .. MaxUpdates, slots : SUBSET Slots]
  BY <1>4 DEF Init, NoStrategies
<1>6. QED
  BY <1>1, <1>2, <1>3, <1>4, <1>5 DEF Init, TypeOK, EngineType

LEMMA TypeList ==
    ASSUME TypeOK, SetList \/ PublishList \/ PublishOther \/ Deliver
    PROVE  TypeOK'
<1>1. UNCHANGED <<engineVars, feedVars, faults, pastVars>>
  BY DEF SetList, PublishList, PublishOther, Deliver, NoFault
<1>2. published' \in [number : 0 .. MaxUpdates, slots : SUBSET Slots] /\ writer' \in {"idle", "set"}
  <2>1. CASE SetList
    <3>1. PICK on \in SUBSET Slots : published' = [number |-> published.number + 1, slots |-> on]
      BY <2>1 DEF SetList
    <3>2. published.number + 1 \in 0 .. MaxUpdates
      BY <2>1, BoundsAssumption DEF SetList, TypeOK
    <3>3. QED
      BY <2>1, <3>1, <3>2 DEF SetList
  <2>2. CASE PublishList \/ PublishOther \/ Deliver
    BY <2>2 DEF PublishList, PublishOther, Deliver, TypeOK, listVars
  <2>3. QED
    BY <2>1, <2>2
<1>3. notice' \in BOOLEAN /\ dirty' \in BOOLEAN
  BY DEF SetList, PublishList, PublishOther, Deliver, TypeOK, flagVars
<1>4. QED
  BY <1>1, <1>2, <1>3 DEF TypeOK, engineVars, feedVars, pastVars

LEMMA TypeMarket ==
    ASSUME TypeOK, BarEnds \/ BarMessage
    PROVE  TypeOK'
<1>1. UNCHANGED <<listVars, flagVars, engineVars, faults, pastVars>>
  BY DEF BarEnds, BarMessage, NoFault
<1>2. clock' \in [Keys -> 1 .. MaxBar] /\ stream' \in [Keys -> Seq(1 .. MaxBar)]
  <2>1. CASE BarEnds
    <3>1. PICK k \in Keys : clock[k] < MaxBar /\ clock' = [clock EXCEPT ![k] = clock[k] + 1]
      BY <2>1 DEF BarEnds
    <3>2. clock[k] + 1 \in 1 .. MaxBar
      BY <3>1, BoundsAssumption DEF TypeOK
    <3>3. QED
      BY <2>1, <3>1, <3>2 DEF BarEnds, TypeOK
  <2>2. CASE BarMessage
    <3>1. PICK k \in Keys : stream' = [stream EXCEPT ![k] = Append(stream[k], clock[k])]
      BY <2>2 DEF BarMessage
    <3>2. Append(stream[k], clock[k]) \in Seq(1 .. MaxBar)
      <4>1. stream[k] \in Seq(1 .. MaxBar) /\ clock[k] \in 1 .. MaxBar
        BY DEF TypeOK
      <4>2. QED
        BY <4>1
    <3>3. QED
      BY <2>2, <3>1, <3>2 DEF BarMessage, TypeOK
  <2>3. QED
    BY <2>1, <2>2
<1>3. QED
  BY <1>1, <1>2 DEF TypeOK, listVars, flagVars, engineVars, pastVars

\* The steps of a load before its end, but for the arrival of history.
Loading == ReadList \/ CreateInstance \/ HistoryTimesOut \/ LoadFails

LEMMA LoadingEngine ==
    ASSUME TypeOK, Loading
    PROVE  /\ engine' \in EngineType /\ engine'.pc # "poll" /\ faults' \in 0 .. MaxFaults
           /\ UNCHANGED <<listVars, flagVars, installed, seen, history, feedVars, pastVars>>
<1> USE DEF TypeOK, EngineType
<1>1. CASE ReadList
  BY <1>1, PollingType DEF ReadList, Polling, LoadUnchanged, NoFault, flagVars, pastVars
<1>2. CASE CreateInstance
  <2>1. engine' \in EngineType /\ engine'.pc # "poll"
    <3>1. PICK s \in engine.todo :
              engine' = [engine EXCEPT !.todo = @ \ {s}, !.fresh = @ \cup {s},
                                       !.pc = IF history[KeyOf[s]] = 0 THEN "wait" ELSE "create",
                                       !.key = IF history[KeyOf[s]] = 0 THEN {KeyOf[s]} ELSE {}]
      BY <1>2 DEF CreateInstance
    <3>2. engine \in EngineType /\ s \in Slots /\ KeyOf[s] \in Keys
      BY <3>1, SlotsAssumption
    <3>3. (IF history[KeyOf[s]] = 0 THEN {KeyOf[s]} ELSE {}) \in SUBSET Keys
      BY <3>2
    <3>4. engine.fresh \cup {s} \in SUBSET Slots /\ engine.todo \ {s} \in SUBSET Slots
      BY <3>2
    <3>5. QED
      BY <3>1, <3>2, <3>3, <3>4
  <2>2. QED
    BY <1>2, <2>1 DEF CreateInstance, LoadUnchanged, NoFault, flagVars, pastVars
<1>3. CASE HistoryTimesOut
  BY <1>3 DEF HistoryTimesOut, LoadUnchanged, NoFault, flagVars, pastVars
<1>4. CASE LoadFails
  <2>1. engine' \in EngineType /\ engine'.pc # "poll"
    BY <1>4 DEF LoadFails
  <2>2. faults' \in 0 .. MaxFaults
    BY <1>4, BoundsAssumption DEF LoadFails, Fault
  <2>3. QED
    BY <1>4, <2>1, <2>2 DEF LoadFails, LoadUnchanged, flagVars, pastVars
<1>5. QED
  BY <1>1, <1>2, <1>3, <1>4 DEF Loading

LEMMA TypeLoading ==
    ASSUME TypeOK, Loading
    PROVE  TypeOK'
BY LoadingEngine DEF TypeOK, EngineType, listVars, flagVars, feedVars, pastVars

SeenType == [Slots -> [count : Nat, last : 0 .. MaxBar]]
ListType == [number : 0 .. MaxUpdates, slots : SUBSET Slots]

LEMMA TypeHistory ==
    ASSUME TypeOK, HistoryArrives
    PROVE  TypeOK'
<1>0. PICK k \in engine.key : \E n \in 0 .. clock[k] :
          LET fed == IF n = 0 THEN {} ELSE InstancesOf(k)
          IN  /\ history' = [history EXCEPT ![k] = n]
              /\ disorder' = (disorder \/ \E s \in fed : seen[s].last > 0)
              /\ seen' = [s \in Slots |-> IF s \in fed THEN [count |-> n, last |-> n]
                                          ELSE seen[s]]
              /\ engine' = [engine EXCEPT !.pc = "create", !.key = {},
                                          !.warmed = IF n = 0 THEN @ ELSE
                                              @ \cup {s \in engine.fresh : KeyOf[s] = k}]
  BY DEF HistoryArrives
<1>1. PICK n \in 0 .. clock[k] :
          LET fed == IF n = 0 THEN {} ELSE InstancesOf(k)
          IN  /\ history' = [history EXCEPT ![k] = n]
              /\ disorder' = (disorder \/ \E s \in fed : seen[s].last > 0)
              /\ seen' = [s \in Slots |-> IF s \in fed THEN [count |-> n, last |-> n]
                                          ELSE seen[s]]
              /\ engine' = [engine EXCEPT !.pc = "create", !.key = {},
                                          !.warmed = IF n = 0 THEN @ ELSE
                                              @ \cup {s \in engine.fresh : KeyOf[s] = k}]
  BY <1>0
<1>2. k \in Keys /\ n \in 0 .. MaxBar
  BY BoundsAssumption DEF TypeOK
<1>3. history' \in [Keys -> 0 .. MaxBar]
  BY <1>1, <1>2 DEF TypeOK
<1>4. seen' \in SeenType
  BY <1>1, <1>2 DEF TypeOK, SeenType
<1>5. engine' \in EngineType
  BY <1>1, <1>2 DEF TypeOK, EngineType
<1>6. disorder' \in BOOLEAN
  <2>1. disorder \in BOOLEAN
    BY DEF TypeOK
  <2>2. QED
    BY <1>1, <2>1
<1>7. QED
  BY <1>3, <1>4, <1>5, <1>6
  DEF HistoryArrives, LoadUnchanged, NoFault, TypeOK, SeenType, EngineType, listVars, feedVars

LEMMA TypeInstall ==
    ASSUME TypeOK, Install
    PROVE  TypeOK'
<1>1. engine' \in EngineType
  BY PollingType DEF Install, TypeOK, EngineType
<1>2. installed' \in ListType /\ seen' \in SeenType
  BY UnseenType DEF Install, TypeOK, ListType, SeenType
<1>3. QED
  BY <1>1, <1>2
  DEF Install, LoadUnchanged, NoFault, TypeOK, SeenType, EngineType, ListType, listVars, feedVars

LEMMA TypeBar ==
    ASSUME TypeOK, ProcessBar
    PROVE  TypeOK'
<1>1. PICK k \in Keys :
          /\ stream[k] # <<>>
          /\ stream' = [stream EXCEPT ![k] = Tail(@)]
          /\ history' = [history EXCEPT ![k] = Head(stream[k])]
          /\ GiveBar(IF history[k] = Head(stream[k]) THEN {} ELSE InstancesOf(k),
                     Head(stream[k]))
  BY DEF ProcessBar
<1> DEFINE b == Head(stream[k])
           fed == IF history[k] = b THEN {} ELSE InstancesOf(k)
<1>2. b \in Bars /\ Tail(stream[k]) \in Seq(Bars)
  <2>1. stream[k] \in Seq(Bars)
    BY DEF TypeOK, Bars
  <2>2. QED
    BY <1>1, <2>1
<1>3. fed \subseteq Slots
  BY DEF InstancesOf, TypeOK
<1>4. GiveBar(fed, b)
  BY <1>1
<1> HIDE DEF fed
<1>5. history' \in [Keys -> 0 .. MaxBar] /\ stream' \in [Keys -> Seq(1 .. MaxBar)]
  BY <1>1, <1>2 DEF TypeOK, Bars
<1>6. seen' \in SeenType
  <2>1. \A s \in Slots : /\ seen[s].count + 1 \in Nat
                         /\ seen[s] \in [count : Nat, last : 0 .. MaxBar]
    BY DEF TypeOK
  <2>2. seen' = [s \in Slots |-> IF s \in fed THEN [count |-> seen[s].count + 1, last |-> b]
                                 ELSE seen[s]]
    BY <1>4 DEF GiveBar
  <2>3. b \in 0 .. MaxBar
    BY <1>2 DEF Bars
  <2>4. QED
    BY <2>1, <2>2, <2>3 DEF SeenType
<1>7. entries' \subseteq Slots \X (1 .. MaxBar) /\ repeated' \in BOOLEAN
  <2>1. PICK entering \in SUBSET {s \in fed : seen[s].count + 1 >= Warm} :
            /\ entries' = entries \cup (entering \X {b})
            /\ repeated' = (repeated \/ entries \cap (entering \X {b}) # {})
    BY <1>4 DEF GiveBar
  <2>2. entering \X {b} \subseteq Slots \X (1 .. MaxBar)
    BY <1>2, <1>3 DEF Bars
  <2>3. repeated \in BOOLEAN /\ entries \subseteq Slots \X (1 .. MaxBar)
    BY DEF TypeOK
  <2>4. QED
    BY <2>1, <2>2, <2>3
<1>8. disorder' \in BOOLEAN
  <2>1. disorder \in BOOLEAN
    BY DEF TypeOK
  <2>2. QED
    BY <1>4, <2>1 DEF GiveBar
<1>9. QED
  BY <1>5, <1>6, <1>7, <1>8 DEF ProcessBar, NoFault, TypeOK, SeenType, listVars, flagVars

LEMMA TypeRestart ==
    ASSUME TypeOK, Restart
    PROVE  TypeOK'
<1>1. engine' \in EngineType /\ seen' \in SeenType
  BY PollingType, UnseenType DEF Restart, SeenType
<1>2. installed' \in ListType /\ history' \in [Keys -> 0 .. MaxBar] /\ faults' \in 0 .. MaxFaults
  BY BoundsAssumption DEF Restart, Fault, NoStrategies, ListType, TypeOK
<1>3. stream' \in [Keys -> Seq(1 .. MaxBar)]
  BY DEF Restart
<1>4. QED
  BY <1>1, <1>2, <1>3 DEF Restart, TypeOK, SeenType, EngineType, ListType, listVars, pastVars

LEMMA TypeSame ==
    ASSUME TypeOK, UNCHANGED vars
    PROVE  TypeOK'
BY DEF TypeOK, vars, listVars, flagVars, engineVars, feedVars, pastVars

\* The actions, as the proofs group them.
LEMMA NextSplit ==
    ASSUME Next
    PROVE  \/ SetList \/ PublishList \/ PublishOther \/ Deliver
           \/ BarEnds \/ BarMessage
           \/ Loading \/ HistoryArrives \/ Install \/ ProcessBar \/ Restart
BY DEF Next, LoadStep, Loading

LEMMA TypeStep == TypeOK /\ [Next]_vars => TypeOK'
BY NextSplit, TypeList, TypeMarket, TypeLoading, TypeHistory, TypeInstall, TypeBar, TypeRestart,
   TypeSame

\* The type invariant of the engine's strategies, for any list and any market (EngineCore.h:70-94).
THEOREM EsTypeCorrect == Spec => []TypeOK
<1>1. Init => TypeOK
  BY TypeInit
<1>2. TypeOK /\ [Next]_vars => TypeOK'
  BY TypeStep
<1>3. QED
  BY <1>1, <1>2, PTL DEF Spec

-----------------------------------------------------------------------------
(* Preservation of the invariant *)

\* What SInv says beyond the types.
Order == FeedInv /\ SeenInv /\ WaitInv /\ EntryInv /\ BarsInOrder /\ EntryOncePerBar

\* The types the arithmetic of a step needs.
LEMMA Bounds ==
    ASSUME TypeOK
    PROVE  /\ \A k \in Keys : clock[k] \in Nat /\ history[k] \in Nat /\ stream[k] \in Seq(Bars)
           /\ \A s \in Slots : /\ seen[s].count \in Nat /\ seen[s].last \in Nat
                               /\ KeyOf[s] \in Keys
BY SlotsAssumption, BoundsAssumption DEF TypeOK, Bars

LEMMA Elements ==
    ASSUME NEW q \in Seq(Bars)
    PROVE  \A i \in 1 .. Len(q) : q[i] \in Nat /\ 0 < q[i]
<1>1. \A i \in 1 .. Len(q) : q[i] \in Bars
  OBVIOUS
<1>2. \A x \in Bars : x \in Nat /\ 0 < x
  BY BoundsAssumption DEF Bars
<1>3. QED
  BY <1>1, <1>2

LEMMA OrderInit == Init => Order
<1> SUFFICES ASSUME Init PROVE Order
  OBVIOUS
<1>1. FeedInv
  BY DEF Init, FeedInv, Sorted, AtMost
<1>2. SeenInv
  <2>1. \A s \in Slots : seen[s].count = 0 /\ seen[s].last = 0 /\ KeyOf[s] \in Keys
    BY SlotsAssumption DEF Init, Unseen
  <2>2. \A k \in Keys : AtLeast(stream[k], 0)
    BY DEF Init, AtLeast
  <2>3. ~(0 > 0)
    OBVIOUS
  <2>4. QED
    <3> SUFFICES ASSUME NEW s \in Slots
                 PROVE  /\ s \notin installed.slots => seen[s].last = 0
                        /\ seen[s].count > 0 => seen[s].last > 0
                        /\ seen[s].last > 0 => history[KeyOf[s]] = seen[s].last
                        /\ engine.pc = "poll" => AtLeast(stream[KeyOf[s]], seen[s].last)
      BY DEF SeenInv
    <3>1. seen[s].last = 0 /\ seen[s].count = 0
      BY <2>1
    <3>2. AtLeast(stream[KeyOf[s]], 0)
      BY <2>1, <2>2
    <3>3. QED
      BY <2>3, <3>1, <3>2
<1>3. WaitInv
  BY DEF Init, WaitInv, Polling
<1>4. EntryInv
  BY DEF Init, EntryInv
<1>5. QED
  BY <1>1, <1>2, <1>3, <1>4 DEF Order, Init, BarsInOrder, EntryOncePerBar

\* Steps that touch neither engine nor market.
LEMMA OrderSame ==
    ASSUME Order, UNCHANGED <<engineVars, feedVars, pastVars>>
    PROVE  Order'
BY DEF Order, FeedInv, SeenInv, WaitInv, EntryInv, BarsInOrder, EntryOncePerBar, engineVars,
       feedVars, pastVars

LEMMA OrderBarEnds ==
    ASSUME SInv, BarEnds
    PROVE  Order'
<1>1. UNCHANGED <<engineVars, stream, pastVars>>
  BY DEF BarEnds
<1>2. \A k \in Keys : clock'[k] \in Nat /\ clock[k] <= clock'[k]
  <2>1. PICK k \in Keys : clock' = [clock EXCEPT ![k] = clock[k] + 1]
    BY DEF BarEnds
  <2>2. \A j \in Keys : clock[j] \in Nat /\ clock'[j] = IF j = k THEN clock[j] + 1 ELSE clock[j]
    BY <2>1, Bounds DEF SInv, TypeOK
  <2>3. QED
    BY <2>2
<1>3. FeedInv'
  <2> SUFFICES ASSUME NEW k \in Keys
               PROVE  /\ Sorted(stream[k]) /\ AtMost(stream[k], clock'[k])
                      /\ history[k] <= clock'[k]
    BY <1>1 DEF FeedInv, engineVars
  <2>1. stream[k] \in Seq(Bars) /\ history[k] \in Nat /\ clock[k] \in Nat
    BY Bounds DEF SInv
  <2>2. Sorted(stream[k]) /\ AtMost(stream[k], clock[k]) /\ history[k] <= clock[k]
    BY DEF SInv, FeedInv
  <2>3. \A i \in 1 .. Len(stream[k]) : stream[k][i] \in Nat
    BY <2>1, Elements
  <2>4. AtMost(stream[k], clock'[k])
    BY <1>2, <2>1, <2>2, <2>3 DEF AtMost
  <2>5. QED
    BY <1>2, <2>1, <2>2, <2>4
<1>4. EntryInv'
  <2>1. \A s \in Slots, e \in 1 .. MaxBar : e <= clock[KeyOf[s]] => e <= clock'[KeyOf[s]]
    BY <1>2, Bounds DEF SInv
  <2>2. EntryInv /\ UNCHANGED <<engine, seen, stream, entries>>
    BY <1>1 DEF SInv, engineVars, pastVars
  <2>3. QED
    BY <2>1, <2>2 DEF EntryInv
<1>5. SeenInv' /\ WaitInv' /\ BarsInOrder' /\ EntryOncePerBar'
  BY <1>1 DEF SInv, SeenInv, WaitInv, BarsInOrder, EntryOncePerBar, engineVars, pastVars
<1>6. QED
  BY <1>3, <1>4, <1>5 DEF Order

LEMMA OrderBarMessage ==
    ASSUME SInv, BarMessage
    PROVE  Order'
<1>1. UNCHANGED <<engineVars, clock, pastVars>>
  BY DEF BarMessage
<1>2. PICK k \in Keys : stream' = [stream EXCEPT ![k] = Append(stream[k], clock[k])]
  BY DEF BarMessage
<1> DEFINE new == Append(stream[k], clock[k])
<1>3. /\ stream'[k] = new
      /\ \A j \in Keys : j # k => stream'[j] = stream[j]
  BY <1>2 DEF SInv, TypeOK
<1>4. /\ Sorted(new) /\ AtMost(new, clock[k])
      /\ \A c \in Nat : AtLeast(stream[k], c) /\ c <= clock[k] => AtLeast(new, c)
  <2>1. stream[k] \in Seq(Bars) /\ clock[k] \in Bars
    BY DEF SInv, TypeOK, Bars
  <2>2. Sorted(stream[k]) /\ AtMost(stream[k], clock[k])
    BY DEF SInv, FeedInv
  <2>3. QED
    BY <2>1, <2>2, Appends
<1> HIDE DEF new
<1>5. FeedInv'
  <2>1. FeedInv /\ UNCHANGED <<clock, history>>
    BY <1>1 DEF SInv, engineVars
  <2>2. QED
    BY <1>3, <1>4, <2>1 DEF FeedInv
<1>6. \A s \in Slots, c \in Nat :
          AtLeast(stream[KeyOf[s]], c) /\ c <= clock[KeyOf[s]] => AtLeast(stream'[KeyOf[s]], c)
  BY <1>3, <1>4, SlotsAssumption
<1>7. SeenInv'
  <2>1. \A s \in Slots : seen[s].last \in Nat /\ seen[s].last <= clock[KeyOf[s]]
    <3>1. \A s \in Slots : history[KeyOf[s]] <= clock[KeyOf[s]]
      BY Bounds DEF SInv, FeedInv
    <3>2. \A s \in Slots : seen[s].last > 0 => history[KeyOf[s]] = seen[s].last
      BY DEF SInv, SeenInv
    <3>3. QED
      <4> SUFFICES ASSUME NEW s \in Slots
                   PROVE  seen[s].last \in Nat /\ seen[s].last <= clock[KeyOf[s]]
        OBVIOUS
      <4>1. seen[s].last \in Nat /\ clock[KeyOf[s]] \in Nat
        BY Bounds DEF SInv
      <4>2. QED
        BY <3>1, <3>2, <4>1
  <2>2. SeenInv /\ UNCHANGED <<engine, installed, seen, history>>
    BY <1>1 DEF SInv, engineVars
  <2>3. QED
    BY <1>6, <2>1, <2>2 DEF SeenInv
<1>8. EntryInv'
  <2>1. EntryInv /\ UNCHANGED <<engine, seen, clock, entries>>
    BY <1>1 DEF SInv, engineVars, pastVars
  <2>2. \A e \in 1 .. MaxBar : e \in Nat
    OBVIOUS
  <2>3. QED
    BY <1>6, <2>1, <2>2 DEF EntryInv
<1>9. WaitInv' /\ BarsInOrder' /\ EntryOncePerBar'
  BY <1>1 DEF SInv, WaitInv, BarsInOrder, EntryOncePerBar, engineVars, pastVars
<1>10. QED
  BY <1>5, <1>7, <1>8, <1>9 DEF Order

LEMMA OrderLoading ==
    ASSUME SInv, Loading
    PROVE  Order'
<1>1. engine'.pc # "poll" /\ UNCHANGED <<installed, seen, history, feedVars, pastVars>>
  BY LoadingEngine DEF SInv
<1>2. FeedInv' /\ SeenInv' /\ EntryInv' /\ BarsInOrder' /\ EntryOncePerBar'
  BY <1>1 DEF SInv, FeedInv, SeenInv, EntryInv, BarsInOrder, EntryOncePerBar, feedVars, pastVars
<1>3. WaitInv'
  <2>1. CASE ReadList
    BY <2>1 DEF ReadList, Polling, WaitInv
  <2>2. CASE CreateInstance
    <3>1. PICK s \in engine.todo :
              engine' = [engine EXCEPT !.todo = @ \ {s}, !.fresh = @ \cup {s},
                                       !.pc = IF history[KeyOf[s]] = 0 THEN "wait" ELSE "create",
                                       !.key = IF history[KeyOf[s]] = 0 THEN {KeyOf[s]} ELSE {}]
      BY <2>2 DEF CreateInstance
    <3>2. engine'.key = IF history[KeyOf[s]] = 0 THEN {KeyOf[s]} ELSE {}
      BY <3>1 DEF SInv, TypeOK
    <3>3. QED
      BY <1>1, <3>2 DEF WaitInv
  <2>3. CASE HistoryTimesOut
    BY <2>3 DEF HistoryTimesOut, WaitInv, SInv, TypeOK
  <2>4. CASE LoadFails
    BY <2>4 DEF LoadFails, WaitInv, SInv, TypeOK
  <2>5. QED
    BY <2>1, <2>2, <2>3, <2>4 DEF Loading
<1>4. QED
  BY <1>2, <1>3 DEF Order

LEMMA OrderHistory ==
    ASSUME SInv, HistoryArrives
    PROVE  Order'
<1>1. PICK k \in engine.key : \E n \in 0 .. clock[k] :
          LET fed == IF n = 0 THEN {} ELSE InstancesOf(k)
          IN  /\ history' = [history EXCEPT ![k] = n]
              /\ disorder' = (disorder \/ \E s \in fed : seen[s].last > 0)
              /\ seen' = [s \in Slots |-> IF s \in fed THEN [count |-> n, last |-> n]
                                          ELSE seen[s]]
  BY DEF HistoryArrives
<1>2. PICK n \in 0 .. clock[k] :
          LET fed == IF n = 0 THEN {} ELSE InstancesOf(k)
          IN  /\ history' = [history EXCEPT ![k] = n]
              /\ disorder' = (disorder \/ \E s \in fed : seen[s].last > 0)
              /\ seen' = [s \in Slots |-> IF s \in fed THEN [count |-> n, last |-> n]
                                          ELSE seen[s]]
  BY <1>1
<1> DEFINE fed == IF n = 0 THEN {} ELSE InstancesOf(k)
<1>3. engine'.pc = "create" /\ UNCHANGED <<installed, feedVars, entries, repeated>>
  BY DEF HistoryArrives, LoadUnchanged, SInv, TypeOK
<1>4. k \in Keys /\ n \in Nat /\ n <= clock[k] /\ history[k] = 0
  <2>1. k \in Keys
    BY DEF SInv, TypeOK
  <2>2. n \in Nat /\ n <= clock[k]
    BY <2>1, Bounds DEF SInv
  <2>3. history[k] = 0
    BY DEF HistoryArrives, SInv, WaitInv
  <2>4. QED
    BY <2>1, <2>2, <2>3
<1>5. \A s \in Slots : KeyOf[s] = k => seen[s].last = 0
  BY <1>4, Bounds DEF SInv, SeenInv
<1>6. \A s \in fed : s \in Slots /\ s \in installed.slots /\ KeyOf[s] = k /\ n > 0
  BY <1>4 DEF InstancesOf, SInv, TypeOK
<1>7. disorder' = (disorder \/ \E s \in fed : seen[s].last > 0)
  BY <1>2
<1>8. \A s \in Slots : seen'[s] = IF s \in fed THEN [count |-> n, last |-> n] ELSE seen[s]
  BY <1>2
<1>9. \A j \in Keys : history'[j] = IF j = k THEN n ELSE history[j]
  BY <1>2 DEF SInv, TypeOK
<1> HIDE DEF fed
<1>10. FeedInv'
  BY <1>3, <1>4, <1>9 DEF SInv, FeedInv, feedVars
<1>11. SeenInv'
  <2> SUFFICES ASSUME NEW s \in Slots
               PROVE  /\ s \notin installed.slots => seen'[s].last = 0
                      /\ seen'[s].count > 0 => seen'[s].last > 0
                      /\ seen'[s].last > 0 => history'[KeyOf[s]] = seen'[s].last
    BY <1>3 DEF SeenInv
  <2>1. CASE s \in fed
    BY <1>4, <1>6, <1>8, <1>9, <2>1
  <2>2. CASE s \notin fed
    BY <1>5, <1>8, <1>9, <2>2, Bounds DEF SInv, SeenInv
  <2>3. QED
    BY <2>1, <2>2
<1>12. WaitInv' /\ EntryInv'
  BY <1>3 DEF SInv, WaitInv, EntryInv, feedVars
<1>13. BarsInOrder' /\ EntryOncePerBar'
  <2>1. ~\E s \in fed : seen[s].last > 0
    BY <1>5, <1>6
  <2>2. QED
    BY <1>3, <1>7, <2>1 DEF SInv, BarsInOrder, EntryOncePerBar
<1>14. QED
  BY <1>10, <1>11, <1>12, <1>13 DEF Order

\* New instances have seen nothing.
LEMMA UnseenOrder ==
    ASSUME TypeOK, seen' = Unseen, UNCHANGED stream
    PROVE  SeenInv'
<1>1. \A s \in Slots : seen'[s].count = 0 /\ seen'[s].last = 0
  BY DEF Unseen
<1>2. \A s \in Slots : AtLeast(stream[KeyOf[s]], 0)
  <2> SUFFICES ASSUME NEW s \in Slots PROVE AtLeast(stream[KeyOf[s]], 0)
    OBVIOUS
  <2>1. stream[KeyOf[s]] \in Seq(Bars)
    BY Bounds
  <2>2. \A i \in 1 .. Len(stream[KeyOf[s]]) : stream[KeyOf[s]][i] \in Nat
    BY <2>1, Elements
  <2>3. QED
    BY <2>2 DEF AtLeast
<1>3. QED
  BY <1>1, <1>2 DEF SeenInv

LEMMA OrderInstall ==
    ASSUME SInv, Install
    PROVE  Order'
<1>1. /\ engine'.pc = "poll" /\ seen' = Unseen
      /\ UNCHANGED <<history, feedVars, pastVars>>
  BY DEF Install, LoadUnchanged, Polling, pastVars
<1>2. FeedInv'
  BY <1>1 DEF SInv, FeedInv, feedVars
<1>3. SeenInv'
  BY <1>1, UnseenOrder DEF SInv, feedVars
<1>4. WaitInv' /\ EntryInv'
  BY <1>1 DEF SInv, WaitInv, EntryInv, Unseen, feedVars, pastVars
<1>5. BarsInOrder' /\ EntryOncePerBar'
  BY <1>1 DEF SInv, BarsInOrder, EntryOncePerBar, pastVars
<1>6. QED
  BY <1>2, <1>3, <1>4, <1>5 DEF Order

LEMMA OrderRestart ==
    ASSUME SInv, Restart
    PROVE  Order'
<1>1. /\ engine'.pc = "poll" /\ seen' = Unseen
      /\ \A k \in Keys : history'[k] = 0 /\ stream'[k] = <<>>
      /\ UNCHANGED <<clock, pastVars>>
  BY DEF Restart, Polling
<1>2. FeedInv'
  BY <1>1, Bounds DEF SInv, FeedInv, Sorted, AtMost
<1>3. SeenInv' /\ WaitInv' /\ EntryInv'
  BY <1>1, SlotsAssumption DEF SInv, SeenInv, WaitInv, EntryInv, Unseen, AtLeast, pastVars
<1>4. BarsInOrder' /\ EntryOncePerBar'
  BY <1>1 DEF SInv, BarsInOrder, EntryOncePerBar, pastVars
<1>5. QED
  BY <1>2, <1>3, <1>4 DEF Order

LEMMA OrderBar ==
    ASSUME SInv, ProcessBar
    PROVE  Order'
<1>1. PICK k \in Keys :
          /\ stream[k] # <<>>
          /\ stream' = [stream EXCEPT ![k] = Tail(@)]
          /\ history' = [history EXCEPT ![k] = Head(stream[k])]
          /\ GiveBar(IF history[k] = Head(stream[k]) THEN {} ELSE InstancesOf(k),
                     Head(stream[k]))
  BY DEF ProcessBar
<1> DEFINE b == Head(stream[k])
           rest == Tail(stream[k])
           fed == IF history[k] = b THEN {} ELSE InstancesOf(k)
<1>2. engine.pc = "poll" /\ UNCHANGED <<engine, installed, clock>>
  BY DEF ProcessBar
<1>3. /\ b \in Bars /\ Sorted(rest) /\ AtLeast(rest, b)
      /\ \A c : AtLeast(stream[k], c) => c <= b /\ AtLeast(rest, c)
      /\ b <= clock[k] /\ AtMost(rest, clock[k])
  <2>1. stream[k] \in Seq(Bars) /\ Sorted(stream[k]) /\ AtMost(stream[k], clock[k])
    BY Bounds DEF SInv, FeedInv
  <2>2. QED
    BY <1>1, <2>1, Tails
<1>4. \A j \in Keys : /\ stream'[j] = IF j = k THEN rest ELSE stream[j]
                      /\ history'[j] = IF j = k THEN b ELSE history[j]
  BY <1>1 DEF SInv, TypeOK
<1>5. GiveBar(fed, b)
  BY <1>1
<1>6. \A s \in fed : /\ s \in Slots /\ s \in installed.slots /\ KeyOf[s] = k
                     /\ history[k] # b
  BY DEF InstancesOf, SInv, TypeOK
<1>7. \A s \in Slots : KeyOf[s] = k /\ s \notin fed /\ seen[s].last > 0 => history[k] = b
  BY DEF SInv, SeenInv, InstancesOf
<1>8. b \in Nat /\ b > 0
  BY <1>3 DEF Bars
<1> HIDE DEF b, rest, fed
<1>9. \A s \in fed : seen[s].last < b
  <2> SUFFICES ASSUME NEW s \in fed PROVE seen[s].last < b
    OBVIOUS
  <2>1. s \in Slots /\ KeyOf[s] = k /\ history[k] # b
    BY <1>6
  <2>2. seen[s].last \in Nat /\ AtLeast(stream[k], seen[s].last)
    BY <1>2, <2>1, Bounds DEF SInv, SeenInv
  <2>3. seen[s].last <= b
    BY <1>3, <2>2
  <2>4. seen[s].last # b
    BY <1>8, <2>1, <2>2 DEF SInv, SeenInv
  <2>5. QED
    BY <1>8, <2>2, <2>3, <2>4
<1>10. \A s \in Slots : seen'[s] = IF s \in fed THEN [count |-> seen[s].count + 1, last |-> b]
                                   ELSE seen[s]
  BY <1>5 DEF GiveBar
<1> DEFINE given(s) == [count |-> seen[s].count + 1, last |-> b]
<1>11. \A s \in fed : KeyOf[s] = k /\ seen'[s].last = b
  <2> SUFFICES ASSUME NEW s \in fed PROVE KeyOf[s] = k /\ seen'[s].last = b
    OBVIOUS
  <2>1. seen'[s] = given(s) /\ KeyOf[s] = k
    BY <1>6, <1>10
  <2>2. given(s).last = b
    OBVIOUS
  <2>3. QED
    BY <2>1, <2>2
<1> HIDE DEF given
<1>12. PICK entering \in SUBSET {s \in fed : seen[s].count + 1 >= Warm} :
           /\ entries' = entries \cup (entering \X {b})
           /\ repeated' = (repeated \/ entries \cap (entering \X {b}) # {})
  BY <1>5 DEF GiveBar
<1>13. FeedInv'
  BY <1>2, <1>3, <1>4 DEF SInv, FeedInv
<1>14. SeenInv'
  <2> SUFFICES ASSUME NEW s \in Slots
               PROVE  /\ s \notin installed.slots => seen'[s].last = 0
                      /\ seen'[s].count > 0 => seen'[s].last > 0
                      /\ seen'[s].last > 0 => history'[KeyOf[s]] = seen'[s].last
                      /\ AtLeast(stream'[KeyOf[s]], seen'[s].last)
    BY <1>2 DEF SeenInv
  <2>1. CASE s \in fed
    <3>1. s \in installed.slots /\ KeyOf[s] = k /\ seen'[s].last = b
      BY <1>6, <1>11, <2>1
    <3>2. AtLeast(stream'[KeyOf[s]], b) /\ history'[KeyOf[s]] = b
      BY <1>3, <1>4, <3>1
    <3>3. QED
      BY <1>8, <3>1, <3>2
  <2>2. CASE s \notin fed
    <3>1. /\ s \notin installed.slots => seen[s].last = 0
          /\ seen[s].count > 0 => seen[s].last > 0
          /\ seen[s].last > 0 => history[KeyOf[s]] = seen[s].last
          /\ AtLeast(stream[KeyOf[s]], seen[s].last)
      BY <1>2 DEF SInv, SeenInv
    <3>2. seen'[s] = seen[s] /\ KeyOf[s] \in Keys
      BY <1>10, <2>2, SlotsAssumption
    <3>3. AtLeast(stream'[KeyOf[s]], seen[s].last)
      BY <1>3, <1>4, <3>1, <3>2
    <3>4. seen[s].last > 0 => history'[KeyOf[s]] = seen[s].last
      BY <1>4, <1>7, <2>2, <3>1, <3>2
    <3>5. QED
      BY <3>1, <3>2, <3>3, <3>4
  <2>3. QED
    BY <2>1, <2>2
<1>15. WaitInv'
  BY <1>2 DEF WaitInv
<1>16. EntryInv'
  <2> SUFFICES ASSUME NEW s \in Slots, NEW e \in 1 .. MaxBar, <<s, e>> \in entries'
               PROVE  /\ e <= clock[KeyOf[s]] /\ AtLeast(stream'[KeyOf[s]], e)
                      /\ seen'[s].count > 0 => e <= seen'[s].last
    BY <1>2 DEF EntryInv
  <2>1. CASE <<s, e>> \in entries
    <3>1. /\ e <= clock[KeyOf[s]] /\ AtLeast(stream[KeyOf[s]], e)
          /\ seen[s].count > 0 => e <= seen[s].last
      BY <1>2, <2>1 DEF SInv, EntryInv
    <3>2. AtLeast(stream'[KeyOf[s]], e)
      BY <1>3, <1>4, <3>1, SlotsAssumption
    <3>3. KeyOf[s] = k => e <= b
      BY <1>3, <3>1
    <3>4. seen'[s].count > 0 => e <= seen'[s].last
      <4>1. CASE s \in fed
        <5>1. KeyOf[s] = k /\ seen'[s].last = b
          BY <1>11, <4>1
        <5>2. QED
          BY <3>3, <5>1
      <4>2. CASE s \notin fed
        <5>1. seen'[s] = seen[s]
          BY <1>10, <4>2
        <5>2. QED
          BY <3>1, <5>1
      <4>3. QED
        BY <4>1, <4>2
    <3>5. QED
      BY <3>1, <3>2, <3>4
  <2>2. CASE <<s, e>> \notin entries
    <3>1. s \in entering /\ e = b
      BY <1>12, <2>2
    <3>2. s \in fed
      BY <3>1
    <3>3. KeyOf[s] = k /\ seen'[s].last = b
      BY <1>11, <3>2
    <3>4. AtLeast(stream'[KeyOf[s]], e) /\ e <= clock[KeyOf[s]]
      BY <1>3, <1>4, <3>1, <3>3
    <3>5. QED
      BY <1>8, <3>1, <3>3, <3>4
  <2>3. QED
    BY <2>1, <2>2
<1>17. BarsInOrder'
  <2>1. disorder' = (disorder \/ \E s \in fed : seen[s].last >= b)
    BY <1>5 DEF GiveBar
  <2>2. \A s \in fed : ~(seen[s].last >= b)
    <3> SUFFICES ASSUME NEW s \in fed PROVE ~(seen[s].last >= b)
      OBVIOUS
    <3>1. seen[s].last \in Nat
      BY <1>6, Bounds DEF SInv
    <3>2. seen[s].last < b
      BY <1>9
    <3>3. QED
      BY <1>8, <3>1, <3>2
  <2>3. QED
    BY <2>1, <2>2 DEF SInv, BarsInOrder
<1>18. EntryOncePerBar'
  <2>1. \A s \in entering : <<s, b>> \notin entries
    <3> SUFFICES ASSUME NEW s \in entering, <<s, b>> \in entries PROVE FALSE
      OBVIOUS
    <3>1. s \in fed /\ s \in Slots /\ seen[s].count + 1 >= Warm
      BY <1>6
    <3>2. seen[s].count > 0
      BY <3>1, Bounds, WarmAssumption DEF SInv
    <3>3. b <= seen[s].last
      BY <1>2, <1>3, <3>1, <3>2 DEF SInv, EntryInv, Bars
    <3>4. QED
      BY <1>8, <1>9, <3>1, <3>3, Bounds DEF SInv
  <2>2. entries \cap (entering \X {b}) = {}
    BY <2>1
  <2>3. QED
    BY <1>12, <2>2 DEF SInv, EntryOncePerBar
<1>19. QED
  BY <1>13, <1>14, <1>15, <1>16, <1>17, <1>18 DEF Order

LEMMA OrderStep == SInv /\ [Next]_vars => Order'
<1> SUFFICES ASSUME SInv, [Next]_vars PROVE Order'
  OBVIOUS
<1>1. Order
  BY DEF SInv, Order
<1>2. CASE SetList \/ PublishList \/ PublishOther \/ Deliver
  <2>1. UNCHANGED <<engineVars, feedVars, pastVars>>
    BY <1>2 DEF SetList, PublishList, PublishOther, Deliver
  <2>2. QED
    BY <1>1, <2>1, OrderSame
<1>3. CASE UNCHANGED vars
  BY <1>1, <1>3, OrderSame DEF vars
<1>4. QED
  BY <1>2, <1>3, NextSplit, OrderBarEnds, OrderBarMessage, OrderLoading, OrderHistory,
     OrderInstall, OrderBar, OrderRestart

LEMMA SInvStep == SInv /\ [Next]_vars => SInv'
BY TypeStep, OrderStep DEF SInv, Order

LEMMA SInvariance == Spec => []SInv
<1>1. Init => SInv
  BY TypeInit, OrderInit DEF SInv, Order
<1>2. SInv /\ [Next]_vars => SInv'
  BY SInvStep
<1>3. QED
  BY <1>1, <1>2, PTL DEF Spec

\* Every instance is given the bars of its key in order and once (EngineCore.cpp:276), however
\* many reloads, late histories, dropped messages and restarts there are.
THEOREM EachBarInOrder == Spec => []BarsInOrder
<1>1. SInv => BarsInOrder
  BY DEF SInv
<1>2. QED
  BY <1>1, SInvariance, PTL

\* No strategy enters twice in a bar (EngineCore.cpp:276): an instance made within the bar needs
\* a further bar before it may signal, which is why Warm is at least 2.
THEOREM OneEntryPerBar == Spec => []EntryOncePerBar
<1>1. SInv => EntryOncePerBar
  BY DEF SInv
<1>2. QED
  BY <1>1, SInvariance, PTL
=============================================================================

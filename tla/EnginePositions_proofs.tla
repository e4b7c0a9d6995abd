---------------------- MODULE EnginePositions_proofs ----------------------
(***************************************************************************)
(* Proofs about EnginePositions for any deals, prices, percentages, lists  *)
(* and delays: the types, and that the stops signalled for a position only *)
(* get better while it is monitored.                                       *)
(***************************************************************************)
EXTENDS EnginePositions, TLAPS

-----------------------------------------------------------------------------
(* The inductive invariant *)

\* b is no better than the stop that p's extremes alone ask for.
Within(d, p, b) == IF d \in Long THEN b <= p.high * (100 - Pct) ELSE p.low * (100 + Pct) <= b

\* A position the engine has: b is the best stop signalled for it, 0 if there is none.
Kept(d, p, b) == /\ p.on => p.low > 0 /\ (b # 0 => Within(d, p, b))
                 /\ ~p.on => b = 0

\* A stop was signalled for monitored positions only, and their extremes account for it,
\* whatever stop a list has put in place since.
BestInv == \A d \in Deals : Kept(d, positions[d], best[d])

\* A parsed list keeps the extremes.
ParsedInv == engine.pc = "install" =>
    \A d \in Deals : engine.parsed[d].on => Kept(d, engine.parsed[d], best[d])

PInv == TypeOK /\ BestInv /\ ParsedInv

-----------------------------------------------------------------------------
(* Extremes and stops *)

LEMMA Products ==
    ASSUME NEW a \in Nat, NEW b \in Nat, NEW c \in Nat
    PROVE  a * c \in Nat /\ (a <= b => a * c <= b * c)
<1>1. a * c \in Nat
  OBVIOUS
<1>2. ASSUME a <= b PROVE a * c <= b * c
  <2>1. b - a \in Nat
    BY <1>2
  <2>2. (b - a) * c \in Nat
    BY <2>1
  <2>3. b * c = a * c + (b - a) * c
    BY <2>1
  <2>4. b * c \in Nat
    OBVIOUS
  <2>5. QED
    BY <1>1, <2>2, <2>3, <2>4
<1>3. QED
  BY <1>1, <1>2

LEMMA Percents == 100 - Pct \in Nat /\ 100 + Pct \in Nat
BY PricesAssumption

LEMMA ExtendedType ==
    ASSUME NEW p \in Tracked, NEW low \in Prices, NEW high \in Prices
    PROVE  /\ Extended(p, low, high) \in Tracked
           /\ Extended(p, low, high).on = p.on /\ Extended(p, low, high).stop = p.stop
           /\ p.high <= Extended(p, low, high).high
           /\ p.low > 0 => 0 < Extended(p, low, high).low /\ Extended(p, low, high).low <= p.low
<1>1. low \in Nat /\ high \in Nat /\ low > 0
  BY PricesAssumption
<1>2. p.high \in Nat /\ p.low \in Nat /\ p.on \in BOOLEAN /\ p.stop \in Nat
  BY DEF Tracked
<1> DEFINE h == MaxOf(p.high, high)
           l == IF p.low = 0 THEN low ELSE MinOf(p.low, low)
<1>3. h \in Nat /\ l \in Nat
  BY <1>1, <1>2 DEF MaxOf, MinOf
<1>4. p.high <= h /\ (p.low > 0 => 0 < l /\ l <= p.low)
  BY <1>1, <1>2 DEF MaxOf, MinOf
<1>5. Extended(p, low, high) = [p EXCEPT !.high = h, !.low = l]
  BY DEF Extended
<1> HIDE DEF h, l
<1>6. /\ Extended(p, low, high) \in Tracked
      /\ Extended(p, low, high).on = p.on /\ Extended(p, low, high).stop = p.stop
      /\ Extended(p, low, high).high = h /\ Extended(p, low, high).low = l
  BY <1>3, <1>5 DEF Tracked
<1>7. QED
  BY <1>4, <1>6

\* Wider extremes account for what narrower ones did.
LEMMA WithinExtended ==
    ASSUME NEW d \in Deals, NEW p \in Tracked, NEW q \in Tracked, NEW b \in Nat,
           p.high <= q.high, q.low <= p.low, Within(d, p, b)
    PROVE  Within(d, q, b)
<1>1. /\ p.high \in Nat /\ q.high \in Nat /\ p.low \in Nat /\ q.low \in Nat
  BY DEF Tracked
<1>2. CASE d \in Long
  <2>1. /\ p.high * (100 - Pct) \in Nat /\ q.high * (100 - Pct) \in Nat
        /\ p.high * (100 - Pct) <= q.high * (100 - Pct)
    BY <1>1, Percents, Products
  <2>2. b <= p.high * (100 - Pct)
    BY <1>2 DEF Within
  <2>3. QED
    BY <1>2, <2>1, <2>2 DEF Within
<1>3. CASE d \notin Long
  <2>1. /\ p.low * (100 + Pct) \in Nat /\ q.low * (100 + Pct) \in Nat
        /\ q.low * (100 + Pct) <= p.low * (100 + Pct)
    BY <1>1, Percents, Products
  <2>2. p.low * (100 + Pct) <= b
    BY <1>3 DEF Within
  <2>3. QED
    BY <1>3, <2>1, <2>2 DEF Within
<1>4. QED
  BY <1>2, <1>3

LEMMA StopType ==
    ASSUME NEW d \in Deals, NEW p \in Tracked
    PROVE  PotentialStop(d, p) \in Nat
<1>1. p.high \in Nat /\ p.low \in Nat /\ p.stop \in Nat
  BY DEF Tracked
<1>2. p.high * (100 - Pct) \in Nat /\ p.low * (100 + Pct) \in Nat
  BY <1>1, Percents, Products
<1>3. QED
  BY <1>1, <1>2 DEF PotentialStop, MaxOf, MinOf

NoAnswer == [action |-> "NONE", stop |-> 0]
Signal == [action : {"UPDATE_SL", "CLOSE"}, stop : Nat]

LEMMA AnswerType ==
    ASSUME NEW d \in Deals, NEW p \in Tracked, NEW low, NEW high
    PROVE  Answer(d, p, low, high) = NoAnswer \/ Answer(d, p, low, high) \in Signal
<1>1. PotentialStop(d, p) \in Nat
  BY StopType
<1>2. QED
  BY <1>1 DEF Answer, NoAnswer, Signal

\* A stop is signalled only when the extremes ask for it: not better than they account for,
\* and no worse than any stop they did account for.
LEMMA Signalled ==
    ASSUME NEW d \in Deals, NEW p \in Tracked, NEW low, NEW high, p.low > 0,
           Answer(d, p, low, high).action = "UPDATE_SL"
    PROVE  LET stop == Answer(d, p, low, high).stop
           IN  /\ stop \in Nat /\ Within(d, p, stop)
               /\ \A b \in Nat : Within(d, p, b) => NoWorse(d, b, stop)
<1> DEFINE stop == PotentialStop(d, p)
           top == p.high * (100 - Pct)
           bottom == p.low * (100 + Pct)
<1>1. p.high \in Nat /\ p.low \in Nat /\ p.stop \in Nat /\ stop \in Nat
  BY StopType DEF Tracked
<1>2. top \in Nat /\ bottom \in Nat
  BY <1>1, Percents, Products
<1>3. Answer(d, p, low, high) = [action |-> "UPDATE_SL", stop |-> stop]
  BY DEF Answer
<1>4. 10000 * DistanceOf(stop, p.stop) > p.stop * Threshold
  BY DEF Answer
<1>5. stop # p.stop
  <2> SUFFICES ASSUME stop = p.stop PROVE FALSE
    OBVIOUS
  <2>1. DistanceOf(stop, p.stop) = 0
    BY <1>1 DEF DistanceOf
  <2>2. p.stop * Threshold \in Nat
    BY <1>1, PricesAssumption, Products
  <2>3. QED
    BY <1>4, <2>1, <2>2
<1>6. stop = IF d \in Long THEN top ELSE bottom
  BY <1>1, <1>2, <1>5 DEF PotentialStop, MaxOf, MinOf
<1>7. Within(d, p, stop)
  BY <1>1, <1>2, <1>6 DEF Within
<1>8. \A b \in Nat : Within(d, p, b) => NoWorse(d, b, stop)
  BY <1>2, <1>6 DEF Within, NoWorse
<1> HIDE DEF stop
<1>9. QED
  BY <1>1, <1>3, <1>7, <1>8

-----------------------------------------------------------------------------
(* Types *)

Stops == Nat \cup {NoEntry}
Rows == [Deals -> Stops]
BrokerType == [Deals -> [state : {"none", "open", "closed"}, stop : Nat]]
TmType == [pc : {"idle", "insert", "record", "set", "publish"}, deal : SUBSET Deals,
           stop : Stops, rows : Rows]
TaskType == [pc : {"idle", "write"}, snapshot : Entries]
EngineType == [pc : {"poll", "install"}, parsed : [Deals -> Tracked]]
Queues == [Deals -> Seq(Signal)]

LEMMA Values ==
    /\ Nowhere \in Rows /\ Nowhere \in Entries
    /\ Unmonitored \in Tracked /\ NoPositions \in [Deals -> Tracked]
    /\ Polling \in EngineType /\ TmIdle \in TmType /\ TaskIdle \in TaskType
<1>1. Nowhere \in Rows /\ Nowhere \in Entries
  BY DEF Nowhere, Rows, Stops, Entries
<1>2. Unmonitored \in Tracked
  BY DEF Unmonitored, Tracked
<1>3. NoPositions \in [Deals -> Tracked]
  BY <1>2 DEF NoPositions
<1>4. Polling \in EngineType
  BY <1>3 DEF Polling, EngineType
<1>5. TmIdle \in TmType
  BY <1>1 DEF TmIdle, TmType, Stops
<1>6. TaskIdle \in TaskType
  BY <1>1 DEF TaskIdle, TaskType
<1>7. QED
  BY <1>1, <1>2, <1>3, <1>4, <1>5, <1>6

\* TypeOK with the sets named.
LEMMA Types ==
    TypeOK <=> /\ broker \in BrokerType /\ row \in Rows /\ list \in Entries
               /\ notice \in BOOLEAN /\ dirty \in BOOLEAN
               /\ engine \in EngineType /\ positions \in [Deals -> Tracked]
               /\ signals \in Queues /\ tm \in TmType /\ task \in TaskType
               /\ faults \in 0 .. MaxFaults /\ best \in [Deals -> Nat]
BY DEF TypeOK, BrokerType, Rows, Stops, EngineType, Queues, Signal, TmType, TaskType

LEMMA TypesNext ==
    TypeOK' <=> /\ broker' \in BrokerType /\ row' \in Rows /\ list' \in Entries
                /\ notice' \in BOOLEAN /\ dirty' \in BOOLEAN
                /\ engine' \in EngineType /\ positions' \in [Deals -> Tracked]
                /\ signals' \in Queues /\ tm' \in TmType /\ task' \in TaskType
                /\ faults' \in 0 .. MaxFaults /\ best' \in [Deals -> Nat]
BY DEF TypeOK, BrokerType, Rows, Stops, EngineType, Queues, Signal, TmType, TaskType

LEMMA TypeInit == Init => TypeOK
<1> SUFFICES ASSUME Init PROVE TypeOK
  OBVIOUS
<1>1. broker \in BrokerType /\ best \in [Deals -> Nat] /\ signals \in Queues
  BY DEF Init, BrokerType, Queues
<1>2. faults \in 0 .. MaxFaults
  BY BoundsAssumption DEF Init
<1>3. QED
  BY <1>1, <1>2, Values, Types DEF Init

LEMMA TypeOpen ==
    ASSUME TypeOK, OpenPosition
    PROVE  TypeOK'
<1>1. PICK d \in Deals :
          /\ broker' = [broker EXCEPT ![d] = [state |-> "open", stop |-> FirstStop[d]]]
          /\ tm' = [tm EXCEPT !.pc = "insert", !.deal = {d}, !.stop = FirstStop[d]]
  BY DEF OpenPosition
<1>2. FirstStop[d] \in Nat
  BY DealsAssumption
<1>3. broker' \in BrokerType
  BY <1>1, <1>2, Types DEF BrokerType
<1>4. tm' \in TmType
  BY <1>1, <1>2, Types DEF TmType, Stops
<1>5. QED
  BY <1>3, <1>4, Types, TypesNext DEF OpenPosition, TmOthers, engineVars

\* A signal leaves the queue.
LEMMA Taken ==
    ASSUME TypeOK, NEW d \in Deals, NEW action, TakeSignal(d, action)
    PROVE  signals' \in Queues /\ Head(signals[d]) \in Signal
<1>1. signals[d] \in Seq(Signal) /\ signals[d] # <<>>
  BY Types DEF Queues, TakeSignal
<1>2. Head(signals[d]) \in Signal /\ Tail(signals[d]) \in Seq(Signal)
  BY <1>1
<1>3. QED
  BY <1>2, Types DEF TakeSignal, Queues

LEMMA TypeHandle ==
    ASSUME TypeOK, HandleUpdateStop \/ HandleClose
    PROVE  TypeOK'
<1>1. CASE HandleUpdateStop
  <2>1. PICK d \in Deals :
            /\ TakeSignal(d, "UPDATE_SL")
            /\ \/ /\ broker' = [broker EXCEPT ![d].stop = Head(signals[d]).stop]
                  /\ tm' = [tm EXCEPT !.pc = "record", !.deal = {d},
                                      !.stop = Head(signals[d]).stop]
               \/ UNCHANGED <<broker, tm>>
    BY <1>1 DEF HandleUpdateStop
  <2>2. signals' \in Queues /\ Head(signals[d]).stop \in Nat
    BY <2>1, Taken DEF Signal
  <2>3. broker' \in BrokerType /\ tm' \in TmType
    <3>1. CASE UNCHANGED <<broker, tm>>
      BY <3>1, Types
    <3>2. CASE /\ broker' = [broker EXCEPT ![d].stop = Head(signals[d]).stop]
               /\ tm' = [tm EXCEPT !.pc = "record", !.deal = {d}, !.stop = Head(signals[d]).stop]
      <4>1. broker' \in BrokerType
        BY <2>2, <3>2, Types DEF BrokerType
      <4>2. tm' \in TmType
        BY <2>2, <3>2, Types DEF TmType, Stops
      <4>3. QED
        BY <4>1, <4>2
    <3>3. QED
      BY <2>1, <3>1, <3>2
  <2>4. QED
    BY <2>1, <2>2, <2>3, Types, TypesNext DEF TakeSignal, TmOthers, engineVars
<1>2. CASE HandleClose
  <2>1. PICK d \in Deals :
            /\ TakeSignal(d, "CLOSE")
            /\ \/ /\ broker' = [broker EXCEPT ![d].state = "closed"]
                  /\ tm' = [tm EXCEPT !.pc = "record", !.deal = {d}, !.stop = NoEntry]
               \/ UNCHANGED <<broker, tm>>
    BY <1>2 DEF HandleClose
  <2>2. signals' \in Queues
    BY <2>1, Taken
  <2>3. broker' \in BrokerType /\ tm' \in TmType
    <3>1. CASE UNCHANGED <<broker, tm>>
      BY <3>1, Types
    <3>2. CASE /\ broker' = [broker EXCEPT ![d].state = "closed"]
               /\ tm' = [tm EXCEPT !.pc = "record", !.deal = {d}, !.stop = NoEntry]
      <4>1. broker' \in BrokerType
        BY <3>2, Types DEF BrokerType
      <4>2. tm' \in TmType
        BY <3>2, Types DEF TmType, Stops
      <4>3. QED
        BY <4>1, <4>2
    <3>3. QED
      BY <2>1, <3>1, <3>2
  <2>4. QED
    BY <2>1, <2>2, <2>3, Types, TypesNext DEF TakeSignal, TmOthers, engineVars
<1>3. QED
  BY <1>1, <1>2

LEMMA TypeRecord ==
    ASSUME TypeOK, RecordAndRead \/ SetList \/ Announce
    PROVE  TypeOK'
<1>1. CASE RecordAndRead
  <2>1. row' \in Rows
    <3>1. tm.stop \in Stops /\ row \in Rows
      BY Types DEF TmType
    <3>2. QED
      BY <1>1, <3>1 DEF RecordAndRead, Rows
  <2>2. tm' \in TmType
    BY <1>1, <2>1, Values DEF RecordAndRead, TmType
  <2>3. QED
    BY <1>1, <2>1, <2>2, Types, TypesNext DEF RecordAndRead, TmOthers, engineVars
<1>2. CASE SetList
  <2>1. list' \in Entries
    <3>1. tm.rows \in Rows
      BY Types DEF TmType
    <3>2. QED
      BY <1>2, <3>1 DEF SetList, Rows, Stops, Entries
  <2>2. tm' \in TmType
    BY <1>2, Values DEF SetList, TmType
  <2>3. QED
    BY <1>2, <2>1, <2>2, Types, TypesNext DEF SetList, TmOthers, engineVars
<1>3. CASE Announce
  BY <1>3, Values, Types, TypesNext DEF Announce, TmOthers, engineVars
<1>4. QED
  BY <1>1, <1>2, <1>3

LEMMA TypeMarket ==
    ASSUME TypeOK, StopOrTarget \/ RecordExit \/ TaskFetch \/ TaskWrite
    PROVE  TypeOK'
<1>1. CASE StopOrTarget
  <2>1. broker' \in BrokerType
    BY <1>1, Types DEF StopOrTarget, BrokerType
  <2>2. QED
    BY <1>1, <2>1, Types, TypesNext DEF StopOrTarget, flagVars, engineVars, tmVars
<1>2. CASE RecordExit
  <2>1. row' \in Rows
    BY <1>2, Types DEF RecordExit, Rows, Stops
  <2>2. QED
    BY <1>2, <2>1, Types, TypesNext DEF RecordExit, marketVars, flagVars, engineVars
<1>3. CASE TaskFetch
  <2>1. \A d \in Deals : broker[d].stop \in Nat
    BY Types DEF BrokerType
  <2>2. task' \in TaskType
    <3> DEFINE taken == [d \in Deals |-> IF broker[d].state # "open" THEN NoEntry
                                         ELSE IF broker[d].stop = 0 THEN NullStop
                                         ELSE broker[d].stop]
    <3>1. taken \in Entries
      BY <2>1 DEF Entries
    <3>2. task' = [pc |-> "write", snapshot |-> taken]
      BY <1>3 DEF TaskFetch
    <3> HIDE DEF taken
    <3>3. QED
      BY <3>1, <3>2 DEF TaskType
  <2>3. QED
    BY <1>3, <2>2, Types, TypesNext DEF TaskFetch, flagVars, engineVars, tmVars
<1>4. CASE TaskWrite
  <2>1. list' \in Entries
    BY <1>4, Types DEF TaskWrite, TaskType
  <2>2. task' \in TaskType
    BY <1>4, Values DEF TaskWrite
  <2>3. QED
    BY <1>4, <2>1, <2>2, Types, TypesNext DEF TaskWrite, flagVars, engineVars, tmVars
<1>5. QED
  BY <1>1, <1>2, <1>3, <1>4

\* A position of the list: new, or with the extremes it had.
LEMMA ParsedType ==
    ASSUME TypeOK, NEW d \in Deals, list[d] >= 0
    PROVE  /\ Parsed(d) \in Tracked /\ Parsed(d).on
           /\ positions[d].on => /\ Parsed(d).high = positions[d].high
                                 /\ Parsed(d).low = positions[d].low
           /\ ~positions[d].on => Parsed(d).low > 0
<1>1. list[d] \in Nat /\ Entry[d] \in Nat /\ Entry[d] > 0 /\ positions[d] \in Tracked
  <2>1. list[d] \in Nat \cup {NoEntry, NullStop}
    BY Types DEF Entries
  <2>2. list[d] \in Nat
    BY <2>1 DEF NoEntry, NullStop
  <2>3. QED
    BY <2>2, DealsAssumption, Types
<1>2. CASE positions[d].on
  BY <1>1, <1>2 DEF Parsed, Tracked
<1>3. CASE ~positions[d].on
  BY <1>1, <1>3 DEF Parsed, Tracked
<1>4. QED
  BY <1>2, <1>3

\* What ReadPositions makes of the list.
LEMMA ReadFacts ==
    ASSUME TypeOK, ReadPositions
    PROVE  /\ engine'.pc = "install" /\ engine' \in EngineType
           /\ \A d \in Deals : engine'.parsed[d].on =>
                  /\ positions[d].on => /\ engine'.parsed[d].high = positions[d].high
                                        /\ engine'.parsed[d].low = positions[d].low
                  /\ ~positions[d].on => engine'.parsed[d].low > 0
<1>1. PICK kept \in SUBSET {d \in Deals : list[d] >= 0} :
          engine' = [pc |-> "install",
                     parsed |-> [d \in Deals |-> IF d \in kept THEN Parsed(d) ELSE Unmonitored]]
  BY DEF ReadPositions
<1> DEFINE parsed == [d \in Deals |-> IF d \in kept THEN Parsed(d) ELSE Unmonitored]
<1>2. \A d \in kept : d \in Deals /\ list[d] >= 0
  OBVIOUS
<1>3. parsed \in [Deals -> Tracked]
  BY <1>2, ParsedType, Values
<1>4. \A d \in Deals : parsed[d].on =>
          /\ positions[d].on => parsed[d].high = positions[d].high /\ parsed[d].low = positions[d].low
          /\ ~positions[d].on => parsed[d].low > 0
  <2> SUFFICES ASSUME NEW d \in Deals, parsed[d].on
               PROVE  /\ positions[d].on => /\ parsed[d].high = positions[d].high
                                            /\ parsed[d].low = positions[d].low
                      /\ ~positions[d].on => parsed[d].low > 0
    OBVIOUS
  <2>1. d \in kept
    BY DEF Unmonitored
  <2>2. parsed[d] = Parsed(d)
    BY <2>1
  <2>3. QED
    BY <1>2, <2>1, <2>2, ParsedType
<1>5. engine' = [pc |-> "install", parsed |-> parsed]
  BY <1>1
<1> HIDE DEF parsed
<1>6. engine'.pc = "install" /\ engine'.parsed = parsed /\ engine' \in EngineType
  BY <1>3, <1>5 DEF EngineType
<1>7. QED
  BY <1>4, <1>6

LEMMA TypeEngine ==
    ASSUME TypeOK, Deliver \/ ReadPositions \/ InstallPositions \/ Restart
    PROVE  TypeOK'
<1>1. CASE Deliver
  BY <1>1, Types, TypesNext DEF Deliver, EngineOthers, engineVars, marketVars, tmVars
<1>2. CASE ReadPositions
  BY <1>2, ReadFacts, Types, TypesNext
  DEF ReadPositions, EngineOthers, flagVars, marketVars, tmVars
<1>3. CASE InstallPositions
  <2>1. positions' \in [Deals -> Tracked] /\ best' \in [Deals -> Nat]
    BY <1>3, Types DEF InstallPositions, EngineType
  <2>2. QED
    BY <1>3, <2>1, Values, Types, TypesNext
    DEF InstallPositions, EngineOthers, marketVars, tmVars
<1>4. CASE Restart
  <2>1. faults' \in 0 .. MaxFaults /\ best' \in [Deals -> Nat]
    BY <1>4, BoundsAssumption, Types DEF Restart
  <2>2. QED
    BY <1>4, <2>1, Values, Types, TypesNext DEF Restart, EngineOthers, marketVars, tmVars
<1>5. QED
  BY <1>1, <1>2, <1>3, <1>4

\* What a tick does to one deal.
Prior(d, low, high) == Extended(positions[d], low, high)

LEMMA MonitorFacts ==
    ASSUME TypeOK, Monitor
    PROVE  \E low, high \in Prices :
              /\ positions' \in [Deals -> Tracked] /\ best' \in [Deals -> Nat]
              /\ signals' \in Queues
              /\ \A d \in Deals :
                    \/ /\ positions[d].on /\ positions'[d].on
                       /\ Answer(d, Prior(d, low, high), low, high).action = "UPDATE_SL"
                       /\ positions'[d].high = Prior(d, low, high).high
                       /\ positions'[d].low = Prior(d, low, high).low
                       /\ best'[d] = Answer(d, Prior(d, low, high), low, high).stop
                    \/ /\ positions[d].on /\ positions'[d] = Prior(d, low, high)
                       /\ best'[d] = best[d]
                    \/ ~positions[d].on /\ positions'[d] = Unmonitored /\ best'[d] = best[d]
<1>1. PICK low \in Prices, high \in Prices :
          LET p == [d \in Deals |-> Extended(positions[d], low, high)]
              a == [d \in Deals |-> IF positions[d].on THEN Answer(d, p[d], low, high)
                                    ELSE [action |-> "NONE", stop |-> 0]]
              moved == {d \in Deals : a[d].action = "UPDATE_SL"}
          IN  /\ positions' = [d \in Deals |->
                     IF d \in moved THEN [p[d] EXCEPT !.stop = a[d].stop]
                     ELSE IF positions[d].on THEN p[d] ELSE Unmonitored]
              /\ signals' = [d \in Deals |-> IF a[d].action = "NONE" THEN signals[d]
                                             ELSE Append(signals[d], a[d])]
              /\ best' = [d \in Deals |-> IF d \in moved THEN a[d].stop ELSE best[d]]
  BY DEF Monitor
<1> DEFINE p == [d \in Deals |-> Extended(positions[d], low, high)]
           a == [d \in Deals |-> IF positions[d].on THEN Answer(d, p[d], low, high) ELSE NoAnswer]
           moved == {d \in Deals : a[d].action = "UPDATE_SL"}
<1>2. /\ positions' = [d \in Deals |-> IF d \in moved THEN [p[d] EXCEPT !.stop = a[d].stop]
                                       ELSE IF positions[d].on THEN p[d] ELSE Unmonitored]
      /\ signals' = [d \in Deals |-> IF a[d].action = "NONE" THEN signals[d]
                                     ELSE Append(signals[d], a[d])]
      /\ best' = [d \in Deals |-> IF d \in moved THEN a[d].stop ELSE best[d]]
  BY <1>1 DEF NoAnswer
<1>3. \A d \in Deals : /\ p[d] \in Tracked /\ p[d].on = positions[d].on
                       /\ p[d] = Prior(d, low, high)
  BY ExtendedType, Types DEF Prior
<1>4. \A d \in Deals : a[d] = NoAnswer \/ a[d] \in Signal
  BY <1>3, AnswerType
<1>5. \A d \in moved : /\ d \in Deals /\ positions[d].on /\ a[d].stop \in Nat
                       /\ a[d] = Answer(d, p[d], low, high)
  <2> SUFFICES ASSUME NEW d \in moved
               PROVE  /\ d \in Deals /\ positions[d].on /\ a[d].stop \in Nat
                      /\ a[d] = Answer(d, p[d], low, high)
    OBVIOUS
  <2>1. d \in Deals /\ a[d].action = "UPDATE_SL"
    OBVIOUS
  <2>2. a[d] # NoAnswer
    BY <2>1 DEF NoAnswer
  <2>3. a[d] \in Signal /\ positions[d].on
    BY <1>4, <2>1, <2>2
  <2>4. QED
    BY <2>1, <2>3 DEF Signal
<1>6. \A d \in Deals \ moved : a[d].action # "UPDATE_SL"
  OBVIOUS
<1>7. \A d \in Deals : a[d].action = "NONE" \/ a[d] \in Signal
  <2>1. NoAnswer.action = "NONE"
    BY DEF NoAnswer
  <2>2. QED
    BY <1>4, <2>1
<1>8. moved \subseteq Deals
  OBVIOUS
<1>9. \A d \in Deals : positions[d].on => a[d] = Answer(d, p[d], low, high)
  OBVIOUS
<1>10. \A d \in moved : a[d].action = "UPDATE_SL"
  OBVIOUS
<1> HIDE DEF p, a, moved
<1>11. positions' \in [Deals -> Tracked]
  <2>1. \A d \in moved : [p[d] EXCEPT !.stop = a[d].stop] \in Tracked
    BY <1>3, <1>5 DEF Tracked
  <2>2. QED
    BY <1>2, <1>3, <2>1, Values
<1>12. best' \in [Deals -> Nat]
  BY <1>2, <1>5, Types
<1>13. signals' \in Queues
  <2>1. \A d \in Deals : a[d] \in Signal => Append(signals[d], a[d]) \in Seq(Signal)
    BY Types DEF Queues
  <2>2. \A d \in Deals : signals[d] \in Seq(Signal)
    BY Types DEF Queues
  <2>3. QED
    BY <1>2, <1>7, <2>1, <2>2 DEF Queues
<1>14. ASSUME NEW d \in Deals
       PROVE  \/ /\ positions[d].on /\ positions'[d].on
                 /\ Answer(d, Prior(d, low, high), low, high).action = "UPDATE_SL"
                 /\ positions'[d].high = Prior(d, low, high).high
                 /\ positions'[d].low = Prior(d, low, high).low
                 /\ best'[d] = Answer(d, Prior(d, low, high), low, high).stop
              \/ /\ positions[d].on /\ positions'[d] = Prior(d, low, high)
                 /\ best'[d] = best[d]
              \/ ~positions[d].on /\ positions'[d] = Unmonitored /\ best'[d] = best[d]
  <2>1. CASE d \in moved
    <3>1. positions'[d] = [p[d] EXCEPT !.stop = a[d].stop] /\ best'[d] = a[d].stop
      BY <1>2, <2>1
    <3>2. positions'[d].on = p[d].on /\ positions'[d].high = p[d].high /\ positions'[d].low = p[d].low
      BY <1>3, <3>1 DEF Tracked
    <3>3. QED
      BY <1>3, <1>5, <1>10, <2>1, <3>1, <3>2
  <2>2. CASE d \notin moved
    BY <1>2, <1>3, <2>2
  <2>3. QED
    BY <2>1, <2>2
<1>15. QED
  BY <1>11, <1>12, <1>13, <1>14

LEMMA TypeMonitor ==
    ASSUME TypeOK, Monitor
    PROVE  TypeOK'
BY MonitorFacts, Types, TypesNext DEF Monitor, EngineOthers, flagVars, marketVars, tmVars

LEMMA TypeSame ==
    ASSUME TypeOK, UNCHANGED vars
    PROVE  TypeOK'
BY Types, TypesNext DEF vars, marketVars, flagVars, engineVars, tmVars

LEMMA TypeStep == TypeOK /\ [Next]_vars => TypeOK'
BY TypeOpen, TypeHandle, TypeRecord, TypeMarket, TypeEngine, TypeMonitor, TypeSame DEF Next

\* The type invariant of the engine's positions, for any deals, prices and percentages
\* (EngineCore.h:70-94).
THEOREM EpTypeCorrect == Spec => []TypeOK
<1>1. Init => TypeOK
  BY TypeInit
<1>2. TypeOK /\ [Next]_vars => TypeOK'
  BY TypeStep
<1>3. QED
  BY <1>1, <1>2, PTL DEF Spec

-----------------------------------------------------------------------------
(* The stops *)

LEMMA BestInit == Init => BestInv /\ ParsedInv
BY DEF Init, BestInv, ParsedInv, Kept, NoPositions, Unmonitored, Polling

\* Steps of the other programs, of the Redis thread, and none.
LEMMA BestSame ==
    ASSUME BestInv, ParsedInv, UNCHANGED <<engine, positions, best>>
    PROVE  BestInv' /\ ParsedInv'
BY DEF BestInv, ParsedInv, Kept, Within

LEMMA BestRead ==
    ASSUME PInv, ReadPositions
    PROVE  BestInv' /\ ParsedInv'
<1>1. UNCHANGED <<positions, best>>
  BY DEF ReadPositions
<1>2. BestInv'
  BY <1>1 DEF PInv, BestInv, Kept, Within
<1>3. ParsedInv'
  <2> SUFFICES ASSUME NEW d \in Deals, engine'.parsed[d].on
               PROVE  Kept(d, engine'.parsed[d], best[d])
    BY <1>1 DEF ParsedInv, Kept, Within
  <2>1. Kept(d, positions[d], best[d])
    BY DEF PInv, BestInv
  <2>2. CASE positions[d].on
    <3>1. /\ engine'.parsed[d].high = positions[d].high
          /\ engine'.parsed[d].low = positions[d].low
      BY <2>2, ReadFacts DEF PInv
    <3>2. QED
      BY <2>1, <2>2, <3>1 DEF Kept, Within
  <2>3. CASE ~positions[d].on
    <3>1. engine'.parsed[d].low > 0
      BY <2>3, ReadFacts DEF PInv
    <3>2. QED
      BY <2>1, <2>3, <3>1 DEF Kept
  <2>4. QED
    BY <2>2, <2>3
<1>4. QED
  BY <1>2, <1>3

LEMMA BestInstall ==
    ASSUME PInv, InstallPositions
    PROVE  BestInv' /\ ParsedInv'
<1>1. /\ engine.pc = "install" /\ positions' = engine.parsed /\ engine' = Polling
      /\ best' = [d \in Deals |-> IF engine.parsed[d].on THEN best[d] ELSE 0]
  BY DEF InstallPositions
<1>2. BestInv'
  <2> SUFFICES ASSUME NEW d \in Deals PROVE Kept(d, engine.parsed[d], best'[d])
    BY <1>1 DEF BestInv, Kept, Within
  <2>1. CASE engine.parsed[d].on
    BY <1>1, <2>1 DEF PInv, ParsedInv
  <2>2. CASE ~engine.parsed[d].on
    BY <1>1, <2>2 DEF Kept
  <2>3. QED
    BY <2>1, <2>2
<1>3. ParsedInv'
  BY <1>1 DEF ParsedInv, Polling
<1>4. QED
  BY <1>2, <1>3

LEMMA BestRestart ==
    ASSUME PInv, Restart
    PROVE  BestInv' /\ ParsedInv'
BY DEF Restart, BestInv, ParsedInv, Kept, NoPositions, Unmonitored, Polling

\* A tick: for one deal, the invariant is kept and a new best is no worse.
LEMMA BestMonitor ==
    ASSUME PInv, Monitor
    PROVE  /\ BestInv' /\ ParsedInv'
           /\ \A d \in Deals : best'[d] # 0 => NoWorse(d, best[d], best'[d])
<1>1. PICK low \in Prices, high \in Prices :
          \A d \in Deals :
              \/ /\ positions[d].on /\ positions'[d].on
                 /\ Answer(d, Prior(d, low, high), low, high).action = "UPDATE_SL"
                 /\ positions'[d].high = Prior(d, low, high).high
                 /\ positions'[d].low = Prior(d, low, high).low
                 /\ best'[d] = Answer(d, Prior(d, low, high), low, high).stop
              \/ /\ positions[d].on /\ positions'[d] = Prior(d, low, high)
                 /\ best'[d] = best[d]
              \/ ~positions[d].on /\ positions'[d] = Unmonitored /\ best'[d] = best[d]
  BY MonitorFacts DEF PInv
<1>2. ASSUME NEW d \in Deals
      PROVE  /\ Kept(d, positions'[d], best'[d])
             /\ best'[d] # 0 => NoWorse(d, best[d], best'[d])
  <2> DEFINE p == Prior(d, low, high)
  <2>1. positions[d] \in Tracked /\ best[d] \in Nat /\ Kept(d, positions[d], best[d])
    BY Types DEF PInv, BestInv
  <2>2. NoWorse(d, best[d], best[d])
    BY <2>1 DEF NoWorse
  <2>3. CASE ~positions[d].on
    BY <1>1, <2>1, <2>2, <2>3 DEF Kept, Unmonitored
  <2>4. CASE positions[d].on
    <3>1. /\ p \in Tracked /\ p.on /\ p.low > 0
          /\ positions[d].high <= p.high /\ p.low <= positions[d].low
      BY <2>1, <2>4, ExtendedType DEF Kept, Prior
    <3>2. best[d] # 0 => Within(d, p, best[d])
      BY <2>1, <2>4, <3>1, WithinExtended DEF Kept
    <3> HIDE DEF p
    <3>3. CASE positions'[d] = p /\ best'[d] = best[d]
      BY <2>2, <3>1, <3>2, <3>3 DEF Kept
    <3>4. CASE /\ positions'[d].on /\ Answer(d, p, low, high).action = "UPDATE_SL"
               /\ positions'[d].high = p.high /\ positions'[d].low = p.low
               /\ best'[d] = Answer(d, p, low, high).stop
      <4>1. /\ Within(d, p, best'[d])
            /\ \A b \in Nat : Within(d, p, b) => NoWorse(d, b, best'[d])
        BY <3>1, <3>4, Signalled
      <4>2. Kept(d, positions'[d], best'[d])
        BY <3>1, <3>4, <4>1 DEF Kept, Within
      <4>3. NoWorse(d, best[d], best'[d])
        BY <2>1, <3>2, <4>1 DEF NoWorse
      <4>4. QED
        BY <4>2, <4>3
    <3>5. QED
      BY <1>1, <2>4, <3>3, <3>4 DEF p
  <2>5. QED
    BY <2>3, <2>4
<1>3. BestInv'
  BY <1>2 DEF BestInv, Kept, Within
<1>4. ParsedInv'
  BY DEF Monitor, ParsedInv
<1>5. QED
  BY <1>2, <1>3, <1>4

LEMMA BestStep == PInv /\ [Next]_vars => PInv'
<1> SUFFICES ASSUME PInv, [Next]_vars PROVE BestInv' /\ ParsedInv'
  BY TypeStep DEF PInv
<1>1. CASE \/ OpenPosition \/ HandleUpdateStop \/ HandleClose \/ RecordAndRead \/ SetList
           \/ Announce \/ StopOrTarget \/ RecordExit \/ TaskFetch \/ TaskWrite \/ Deliver
           \/ UNCHANGED vars
  <2>1. UNCHANGED <<engine, positions, best>>
    BY <1>1 DEF OpenPosition, HandleUpdateStop, HandleClose, TakeSignal, RecordAndRead, SetList,
                Announce, TmOthers, StopOrTarget, RecordExit, TaskFetch, TaskWrite, Deliver,
                engineVars, vars
  <2>2. QED
    BY <2>1, BestSame DEF PInv
<1>2. CASE ReadPositions \/ InstallPositions \/ Monitor \/ Restart
  BY <1>2, BestRead, BestInstall, BestMonitor, BestRestart
<1>3. QED
  BY <1>1, <1>2 DEF Next

LEMMA PInvariance == Spec => []PInv
<1>1. Init => PInv
  BY TypeInit, BestInit DEF PInv
<1>2. QED
  BY <1>1, BestStep, PTL DEF Spec

\* The stops signalled for a position only get better while it is monitored (IStrategy.hpp:136,
\* 148), for any percentage, threshold and delay of the lists that overwrite its local stop.
THEOREM SignalledStopsImprove == Spec => StopsSignalledImprove
<1>1. PInv /\ [Next]_vars =>
          [\A d \in Deals : best'[d] # 0 => NoWorse(d, best[d], best'[d])]_vars
  <2> SUFFICES ASSUME PInv, Next, NEW d \in Deals, best'[d] # 0
               PROVE  NoWorse(d, best[d], best'[d])
    BY DEF vars
  <2>1. best[d] \in Nat /\ NoWorse(d, best[d], best[d])
    BY Types DEF PInv, NoWorse
  <2>2. CASE UNCHANGED best
    BY <2>1, <2>2
  <2>3. CASE InstallPositions
    BY <2>1, <2>3 DEF InstallPositions
  <2>4. CASE Monitor
    BY <2>4, BestMonitor
  <2>5. CASE Restart
    BY <2>5 DEF Restart
  <2>6. QED
    BY <2>2, <2>3, <2>4, <2>5
    DEF Next, OpenPosition, HandleUpdateStop, HandleClose, TakeSignal, RecordAndRead, SetList,
        Announce, TmOthers, StopOrTarget, RecordExit, TaskFetch, TaskWrite, Deliver,
        ReadPositions, engineVars
<1>2. QED
  BY <1>1, PInvariance, PTL DEF Spec, StopsSignalledImprove
=============================================================================

--------------------------- MODULE EnginePositions ---------------------------
(***************************************************************************)
(* The trading engine's positions and their trailing stops.  The engine    *)
(* reads the list of open positions from Redis when the trade manager      *)
(* announces it, follows the extreme prices of each position, and signals  *)
(* a better stop, or a close, to the trade manager, which moves the stop   *)
(* at the broker and in its table and announces a new list.  AccountSync-  *)
(* Task overwrites the list without an announcement.                       *)
(*                                                                         *)
(* Prices are natural numbers and stops are in hundredths of them, so the  *)
(* percentages of the rules are exact.  A stop of 0 is no stop.            *)
(***************************************************************************)
EXTENDS Integers, Sequences

CONSTANTS
    Deals,        \* deal identifiers
    Long,         \* the deals that are bought; the others are sold
    Entry,        \* the price of each deal
    FirstStop,    \* the stop each deal is opened with
    Prices,       \* prices the market may take
    Pct,          \* TSTOP_LOSS_PERCENT of the strategy
    Threshold,    \* TSTOP_UPDATE_THRESHOLD, in 1/10000
    MaxSignals,   \* bound: signals about one deal waiting for the trade manager
    MaxFaults,    \* bound: crashes of the engine
    ApiWrites     \* TRUE: AccountSyncTask overwrites the list

ASSUME DealsAssumption == /\ Long \subseteq Deals
                          /\ Entry \in [Deals -> Nat \ {0}] /\ FirstStop \in [Deals -> Nat]
ASSUME PricesAssumption == Prices \subseteq Nat \ {0} /\ Pct \in 0..99 /\ Threshold \in Nat
ASSUME BoundsAssumption == MaxSignals \in Nat /\ MaxFaults \in Nat /\ ApiWrites \in BOOLEAN

VARIABLES
    broker,      \* each deal at Capital.com: its state and its stop
    row,         \* the stop in the open row of each deal, or NoEntry
    list,        \* Redis CACHED_OPEN_TRADES: the stop of each deal listed
    notice,      \* a message on CHANNEL_POSITIONS_UPDATED, not yet consumed
    dirty,       \* EngineCore.positions_dirty_
    engine,      \* control point of the main loop and the positions it has parsed
    positions,   \* EngineCore.active_positions_
    signals,     \* per deal, signals the trade manager has not handled yet
    tm,          \* control point and locals of the trade manager
    task,        \* control point and snapshot of AccountSyncTask
    faults,      \* counter for the bound MaxFaults
    best         \* per deal, the best stop signalled since it is monitored (history)

marketVars == <<broker, task>>
flagVars == <<notice, dirty>>
engineVars == <<engine, positions, best>>
tmVars == <<row, tm>>
vars == <<marketVars, list, flagVars, engineVars, signals, tmVars, faults>>

NoEntry == -2    \* the deal is not there
NullStop == -1   \* api_server writes null for a missing stop; trade_manager writes 0
Nowhere == [d \in Deals |-> NoEntry]
Unmonitored == [on |-> FALSE, stop |-> 0, high |-> 0, low |-> 0]
NoPositions == [d \in Deals |-> Unmonitored]
Polling == [pc |-> "poll", parsed |-> NoPositions]
TmIdle == [pc |-> "idle", deal |-> {}, stop |-> 0, rows |-> Nowhere]
TaskIdle == [pc |-> "idle", snapshot |-> Nowhere]

Init ==
    /\ broker = [d \in Deals |-> [state |-> "none", stop |-> 0]]
    /\ row = Nowhere
    /\ list = Nowhere
    /\ notice = FALSE /\ dirty = TRUE
    /\ engine = Polling
    /\ positions = NoPositions
    /\ signals = [d \in Deals |-> <<>>]
    /\ tm = TmIdle
    /\ task = TaskIdle
    /\ faults = 0
    /\ best = [d \in Deals |-> 0]

-----------------------------------------------------------------------------
(* The trade manager: broker first, then the row, then the list and the      *)
(* announcement.  Failures in between are OrderExecution's subject.          *)

TmOthers == UNCHANGED <<task, dirty, engineVars, faults>>

OpenPosition ==
    /\ tm.pc = "idle"
    /\ \E d \in Deals :
          /\ broker[d].state = "none"
          /\ broker' = [broker EXCEPT ![d] = [state |-> "open", stop |-> FirstStop[d]]]
          /\ tm' = [tm EXCEPT !.pc = "insert", !.deal = {d}, !.stop = FirstStop[d]]
    /\ TmOthers /\ UNCHANGED <<row, list, notice, signals>>

\* The first signal about d is handled; the broker may refuse it, and does unless d is open.
TakeSignal(d, action) ==
    /\ tm.pc = "idle"
    /\ signals[d] # <<>> /\ Head(signals[d]).action = action
    /\ signals' = [signals EXCEPT ![d] = Tail(@)]
    /\ TmOthers /\ UNCHANGED <<row, list, notice>>

HandleUpdateStop ==
    \E d \in Deals :
        /\ TakeSignal(d, "UPDATE_SL")
        /\ \/ /\ broker[d].state = "open"
              /\ broker' = [broker EXCEPT ![d].stop = Head(signals[d]).stop]
              /\ tm' = [tm EXCEPT !.pc = "record", !.deal = {d}, !.stop = Head(signals[d]).stop]
           \/ UNCHANGED <<broker, tm>>

HandleClose ==
    \E d \in Deals :
        /\ TakeSignal(d, "CLOSE")
        /\ \/ /\ broker[d].state = "open"
              /\ broker' = [broker EXCEPT ![d].state = "closed"]
              /\ tm' = [tm EXCEPT !.pc = "record", !.deal = {d}, !.stop = NoEntry]
           \/ UNCHANGED <<broker, tm>>

\* The row is inserted or updated and the open rows are read for the list.  An update finds
\* a row that has got its exit meanwhile, too; it stays unlisted.
RecordAndRead ==
    /\ tm.pc \in {"insert", "record"}
    /\ row' = [d \in Deals |-> IF d \in tm.deal /\ (tm.pc = "insert" \/ row[d] # NoEntry)
                               THEN tm.stop ELSE row[d]]
    /\ tm' = [TmIdle EXCEPT !.pc = "set", !.rows = row']
    /\ TmOthers /\ UNCHANGED <<broker, list, notice, signals>>

SetList ==
    /\ tm.pc = "set"
    /\ list' = tm.rows
    /\ tm' = [TmIdle EXCEPT !.pc = "publish"]
    /\ TmOthers /\ UNCHANGED <<broker, row, notice, signals>>

Announce ==
    /\ tm.pc = "publish"
    /\ notice' = TRUE
    /\ tm' = TmIdle
    /\ TmOthers /\ UNCHANGED <<broker, row, list, signals>>

-----------------------------------------------------------------------------
(* The broker and AccountSyncTask *)

StopOrTarget ==
    /\ \E d \in Deals : /\ broker[d].state = "open"
                        /\ broker' = [broker EXCEPT ![d].state = "closed"]
    /\ UNCHANGED <<task, list, flagVars, engineVars, signals, tmVars, faults>>

\* The active sync records an exit.
RecordExit ==
    /\ \E d \in Deals : /\ broker[d].state = "closed" /\ row[d] # NoEntry
                        /\ row' = [row EXCEPT ![d] = NoEntry]
    /\ UNCHANGED <<marketVars, list, flagVars, engineVars, signals, tm, faults>>

TaskFetch ==
    /\ ApiWrites
    /\ task.pc = "idle"
    /\ task' = [pc |-> "write",
                snapshot |-> [d \in Deals |-> IF broker[d].state # "open" THEN NoEntry
                                              ELSE IF broker[d].stop = 0 THEN NullStop
                                              ELSE broker[d].stop]]
    /\ UNCHANGED <<broker, list, flagVars, engineVars, signals, tmVars, faults>>

TaskWrite ==
    /\ task.pc = "write"
    /\ list' = task.snapshot
    /\ task' = TaskIdle
    /\ UNCHANGED <<broker, flagVars, engineVars, signals, tmVars, faults>>

-----------------------------------------------------------------------------
(* The engine: the Redis thread, and sync_positions in the main loop         *)

EngineOthers == UNCHANGED <<marketVars, list, tmVars>>

Deliver ==
    /\ notice
    /\ notice' = FALSE
    /\ dirty' = TRUE
    /\ EngineOthers /\ UNCHANGED <<engineVars, signals, faults>>

\* Mutant: the extremes start anew with every list.
ParsedForgets(d) ==
    [on |-> TRUE, stop |-> list[d], high |-> Entry[d], low |-> Entry[d]]

\* A position of the list: the extremes of a known one are kept.
Parsed(d) ==
    IF positions[d].on THEN [positions[d] EXCEPT !.stop = list[d]]
    ELSE [on |-> TRUE, stop |-> list[d], high |-> Entry[d], low |-> Entry[d]]

\* Mutant: a null stop is taken for a stop.
ReadNulls ==
    /\ engine.pc = "poll" /\ dirty
    /\ engine' = [pc |-> "install",
                  parsed |-> [d \in Deals |-> IF list[d] # NoEntry THEN Parsed(d)
                                              ELSE Unmonitored]]
    /\ EngineOthers /\ UNCHANGED <<flagVars, positions, best, signals, faults>>

\* The list is read and parsed.  A null stop is rejected by an exception which ends the
\* parsing: only entries before it, if any, are kept.
ReadPositions ==
    /\ engine.pc = "poll" /\ dirty
    /\ LET sound == {d \in Deals : list[d] >= 0}
           broken == \E d \in Deals : list[d] = NullStop
       IN  \E kept \in SUBSET sound :
              /\ broken \/ kept = sound
              /\ engine' = [pc |-> "install",
                            parsed |-> [d \in Deals |-> IF d \in kept THEN Parsed(d)
                                                        ELSE Unmonitored]]
    /\ EngineOthers /\ UNCHANGED <<flagVars, positions, best, signals, faults>>

InstallPositions ==
    /\ engine.pc = "install"
    /\ positions' = engine.parsed
    /\ dirty' = FALSE
    /\ engine' = Polling
    /\ best' = [d \in Deals |-> IF engine.parsed[d].on THEN best[d] ELSE 0]
    /\ EngineOthers /\ UNCHANGED <<notice, signals, faults>>

-----------------------------------------------------------------------------
(* The trailing stop (IStrategy.hpp) *)

MaxOf(a, b) == IF a > b THEN a ELSE b
MinOf(a, b) == IF a < b THEN a ELSE b

\* The extremes of p once the prices low..high have been seen.
Extended(p, low, high) ==
    [p EXCEPT !.high = MaxOf(@, high), !.low = IF @ = 0 THEN low ELSE MinOf(@, low)]

\* The stop a position should have: never worse than the one it has.
PotentialStop(d, p) ==
    IF d \in Long THEN MaxOf(p.stop, p.high * (100 - Pct))
    ELSE IF p.stop = 0 THEN p.low * (100 + Pct) ELSE MinOf(p.stop, p.low * (100 + Pct))

Crossed(d, stop, low, high) == IF d \in Long THEN 100 * low <= stop ELSE 100 * high >= stop

DistanceOf(a, b) == IF a > b THEN a - b ELSE b - a

\* process_position_update: what the strategy answers for a monitored position.
Answer(d, p, low, high) ==
    LET stop == PotentialStop(d, p)
    IN  IF Pct = 0 THEN [action |-> "NONE", stop |-> 0]
        ELSE IF Crossed(d, stop, low, high) THEN [action |-> "CLOSE", stop |-> 0]
        ELSE IF 10000 * DistanceOf(stop, p.stop) > p.stop * Threshold
             THEN [action |-> "UPDATE_SL", stop |-> stop]
        ELSE [action |-> "NONE", stop |-> 0]

\* A tick (low = high) or the first message of a bar: the monitored positions are extended
\* and asked for, and the local stop follows the signal.
Monitor ==
    /\ engine.pc = "poll"
    /\ \A d \in Deals : Len(signals[d]) < MaxSignals
    /\ \E low, high \in Prices :
          /\ low <= high
          /\ LET p == [d \in Deals |-> Extended(positions[d], low, high)]
                 a == [d \in Deals |-> IF positions[d].on THEN Answer(d, p[d], low, high)
                                       ELSE [action |-> "NONE", stop |-> 0]]
                 moved == {d \in Deals : a[d].action = "UPDATE_SL"}
             IN  /\ positions' = [d \in Deals |->
                        IF d \in moved THEN [p[d] EXCEPT !.stop = a[d].stop]
                        ELSE IF positions[d].on THEN p[d] ELSE Unmonitored]
                 /\ signals' = [d \in Deals |-> IF a[d].action = "NONE" THEN signals[d]
                                                ELSE Append(signals[d], a[d])]
                 /\ best' = [d \in Deals |-> IF d \in moved THEN a[d].stop ELSE best[d]]
    /\ EngineOthers /\ UNCHANGED <<flagVars, engine, faults>>

\* The process dies and Docker restarts it: positions_dirty_ is set.
Restart ==
    /\ faults < MaxFaults /\ faults' = faults + 1
    /\ engine' = Polling
    /\ positions' = NoPositions
    /\ best' = [d \in Deals |-> 0]
    /\ notice' = FALSE /\ dirty' = TRUE
    /\ EngineOthers /\ UNCHANGED signals

-----------------------------------------------------------------------------
Next ==
    \/ OpenPosition \/ HandleUpdateStop \/ HandleClose
    \/ RecordAndRead \/ SetList \/ Announce
    \/ StopOrTarget \/ RecordExit
    \/ TaskFetch \/ TaskWrite
    \/ Deliver \/ ReadPositions \/ InstallPositions \/ Monitor
    \/ Restart

Spec == Init /\ [][Next]_vars

-----------------------------------------------------------------------------
(* Properties *)

Entries == [Deals -> Nat \cup {NoEntry, NullStop}]
Tracked == [on : BOOLEAN, stop : Nat, high : Nat, low : Nat]

\* The types of the variables.
TypeOK ==
    /\ broker \in [Deals -> [state : {"none", "open", "closed"}, stop : Nat]]
    /\ row \in [Deals -> Nat \cup {NoEntry}]
    /\ list \in Entries
    /\ notice \in BOOLEAN /\ dirty \in BOOLEAN
    /\ engine \in [pc : {"poll", "install"}, parsed : [Deals -> Tracked]]
    /\ positions \in [Deals -> Tracked]
    /\ signals \in [Deals -> Seq([action : {"UPDATE_SL", "CLOSE"}, stop : Nat])]
    /\ tm \in [pc : {"idle", "insert", "record", "set", "publish"}, deal : SUBSET Deals,
               stop : Nat \cup {NoEntry}, rows : [Deals -> Nat \cup {NoEntry}]]
    /\ task \in [pc : {"idle", "write"}, snapshot : Entries]
    /\ faults \in 0..MaxFaults
    /\ best \in [Deals -> Nat]

\* b is no worse a stop than a for d.
NoWorse(d, a, b) == a = 0 \/ (IF d \in Long THEN b >= a ELSE b <= a)

\* IStrategy.hpp:136,148: while a position is monitored the stops signalled for it only
\* get better, although lists with older stops overwrite the local one.
StopsSignalledImprove ==
    [][ \A d \in Deals : best'[d] # 0 => NoWorse(d, best[d], best'[d]) ]_vars

-----------------------------------------------------------------------------
(* What the documentation says and the code does not keep: TLC refutes these *)
(* (README, further divergences); no run states them.                        *)

\* PineL4.hpp:20: the stop trails at a distance of Pct.  A price that leaves a monitored
\* position open leaves its stop no further than that from its best price.
StopTrails ==
    [][ \A d \in Deals :
            /\ engine.pc = "poll" /\ engine' = engine /\ positions[d].on /\ positions'[d].on
            /\ positions' # positions /\ Len(signals'[d]) <= Len(signals[d])
            => NoWorse(d, PotentialStop(d, positions'[d]), positions'[d].stop) ]_vars

\* trade_service.py:240: the list is updated for the engine to see.  Once every
\* announcement is handled, the engine monitors the positions with an open row.
AnnouncedIsSeen ==
    tm.pc = "idle" /\ ~notice /\ ~dirty /\ engine.pc = "poll" =>
        \A d \in Deals : broker[d].state = "open" /\ row[d] # NoEntry => positions[d].on
=============================================================================

--------------------------- MODULE OrderExecution ---------------------------
(***************************************************************************)
(* Positions and their records.  The trade manager turns signals into      *)
(* broker orders and keeps a row per deal in the trades table; the         *)
(* api_server's AccountSyncTask repairs the table from the broker's        *)
(* transaction list; and three programs overwrite the list of open         *)
(* positions in Redis (CACHED_OPEN_TRADES) from three different sources.   *)
(*                                                                         *)
(* The broker accepts an order first and decides on it later: it executes  *)
(* or rejects it.  The trade manager asks for a confirm, and takes every   *)
(* answer for an execution; it never looks at the confirm's dealStatus.    *)
(*                                                                         *)
(* Between two calls of one program (HTTP, SQL, Redis) the others may run, *)
(* answers of the broker may be lost, the database may refuse, and the     *)
(* trade manager may crash.                                                *)
(*                                                                         *)
(* Signals are not stored: pub/sub hands a signal to the listener or loses *)
(* it, and the engine repeats a CLOSE on every tick, so any signal may     *)
(* arrive whenever the listener is idle.  Whether an open is refused by    *)
(* the halt, the ML filter or the sizing is RiskControl's subject; here a  *)
(* refused signal changes nothing.                                         *)
(***************************************************************************)
EXTENDS Naturals

CONSTANTS
    Epics,      \* instruments
    Deals,      \* deal identifiers the broker hands out, each once
    RefOf,      \* for each deal, the identifier its row gets when the confirm lists no
                \* affected deal: the confirm's own dealId or the deal reference, the id
                \* of no position
    EpicOf,     \* the instrument of each deal, also under its other identifier
    NoDeal,     \* no deal_id
    MaxFaults,  \* bound: lost answers, refused writes, crashes of a behaviour
    Outages     \* TRUE: closings may leave the transaction list unread

Refs == {RefOf[d] : d \in Deals}
Ids == Deals \cup Refs

ASSUME DealsAssumption ==
    /\ NoDeal \notin Ids /\ Deals \cap Refs = {}
    /\ \A c, d \in Deals : RefOf[c] = RefOf[d] => c = d
    /\ EpicOf \in [Ids -> Epics] /\ \A d \in Deals : EpicOf[RefOf[d]] = EpicOf[d]
ASSUME FaultsAssumption == MaxFaults \in Nat /\ Outages \in BOOLEAN

VARIABLES
    broker,         \* each deal at Capital.com: "none", "ordered" (undecided), "rejected",
                    \* "open", "closing" (open, with an undecided close) or "closed"
    listed,         \* closings still in the broker's transaction list (last 120 s)
    kept,           \* deals whose close the broker has rejected (history)
    db,             \* the row of each identifier: "absent", "open" or "closed"
    cache,          \* Redis CACHED_OPEN_TRADES: the identifiers it lists
    openPositions,  \* TradeService.open_positions: instrument -> identifier
    tm,             \* control point and locals of the trade manager's listener
    task,           \* control point and locals of AccountSyncTask's position part
    request,        \* control point and snapshot of UpdatePositionLimitsAsync
    faults,         \* counter for the bound MaxFaults
    seen            \* closings a completed active sync has worked on (history)

extVars == <<broker, listed, kept>>
tmVars == <<openPositions, tm>>
vars == <<extVars, db, cache, tmVars, task, request, faults, seen>>

NoPositions == [e \in Epics |-> NoDeal]
TmIdle == [pc |-> "idle", deal |-> NoDeal, epic |-> NoDeal, rows |-> {}]
TaskIdle == [pc |-> "idle", snapshot |-> {}, txs |-> {}, todo |-> {}]
RequestIdle == [pc |-> "idle", snapshot |-> {}]

Init ==
    /\ broker = [d \in Deals |-> "none"]
    /\ listed = {} /\ kept = {}
    /\ db = [i \in Ids |-> "absent"]
    /\ cache = {}
    /\ openPositions = NoPositions
    /\ tm = TmIdle
    /\ task = TaskIdle
    /\ request = RequestIdle
    /\ faults = 0
    /\ seen = {}

InMarket(d) == broker[d] \in {"open", "closing"}
Executed(d) == broker[d] \in {"open", "closing", "closed"}
OpenAtBroker == {d \in Deals : InMarket(d)}
OpenInDb == {i \in Ids : db[i] = "open"}

\* A step that only happens when something goes wrong.
Fault == faults < MaxFaults /\ faults' = faults + 1
NoFault == UNCHANGED faults

-----------------------------------------------------------------------------
(* The broker decides on the orders it has accepted; a stop or a target      *)
(* closes a position, also one whose close is not decided; closings leave    *)
(* the transaction list.  Without outages the 120 s window outlasts the 60 s *)
(* timer: a completed active sync has worked on the closing before.          *)

BrokerOthers == NoFault /\ UNCHANGED <<db, cache, tmVars, task, request, seen>>

DecideOpen ==
    /\ \E d \in Deals, outcome \in {"open", "rejected"} :
          broker[d] = "ordered" /\ broker' = [broker EXCEPT ![d] = outcome]
    /\ BrokerOthers /\ UNCHANGED <<listed, kept>>

RejectClose ==
    /\ \E d \in Deals : /\ broker[d] = "closing"
                        /\ broker' = [broker EXCEPT ![d] = "open"]
                        /\ kept' = kept \cup {d}
    /\ BrokerOthers /\ UNCHANGED listed

\* A close is executed, or a stop or a target is reached.
BrokerCloses ==
    /\ \E d \in Deals : /\ InMarket(d)
                        /\ broker' = [broker EXCEPT ![d] = "closed"]
                        /\ listed' = listed \cup {d}
    /\ BrokerOthers /\ UNCHANGED kept

TransactionExpires ==
    /\ \E d \in listed : /\ Outages \/ d \in seen
                         /\ listed' = listed \ {d}
    /\ BrokerOthers /\ UNCHANGED <<broker, kept>>

-----------------------------------------------------------------------------
(* TradeService._handle_open *)

TmOthers == UNCHANGED <<task, request, seen>>

\* The broker accepts an order for a deal, or to close one.
Orders(d) == broker[d] = "none" /\ broker' = [broker EXCEPT ![d] = "ordered"]
OrdersClose(d) == InMarket(d) /\ broker' = [broker EXCEPT ![d] = "closing"]

\* Mutant: the map names the deal before it is confirmed and recorded.
OpenPositionMapsEarly ==
    /\ tm.pc = "idle"
    /\ \E d \in Deals :
          /\ Orders(d)
          /\ openPositions' = [openPositions EXCEPT ![EpicOf[d]] = d]
          /\ tm' = [tm EXCEPT !.pc = "confirmOpen", !.deal = d, !.epic = EpicOf[d]]
    /\ NoFault /\ TmOthers /\ UNCHANGED <<listed, kept, db, cache>>

\* POST /positions; the broker accepts the order and answers with a deal reference.
OpenPosition ==
    /\ tm.pc = "idle"
    /\ \E d \in Deals :
          /\ Orders(d)
          /\ tm' = [tm EXCEPT !.pc = "confirmOpen", !.deal = d, !.epic = EpicOf[d]]
    /\ NoFault /\ TmOthers /\ UNCHANGED <<listed, kept, db, cache, openPositions>>

\* The order is accepted and the answer is lost (timeout): open_position is None.
OpenAnswerLost ==
    /\ tm.pc = "idle"
    /\ \E d \in Deals : Orders(d)
    /\ Fault /\ TmOthers /\ UNCHANGED <<listed, kept, db, cache, tmVars>>

\* Mutant: the first affected deal is not looked at.
ConfirmOpenUnnamed ==
    /\ tm.pc = "confirmOpen" /\ broker[tm.deal] # "ordered"
    /\ tm' = [tm EXCEPT !.pc = "insert", !.deal = RefOf[@]]
    /\ NoFault /\ TmOthers /\ UNCHANGED <<extVars, db, cache, openPositions>>

\* The confirm, once the broker has decided.  An executed order's affected deal names the
\* position.  A rejected order has none and is recorded all the same, under an identifier
\* of no position; so is, as a fault, an executed order whose confirm lists no deal.
ConfirmOpen ==
    /\ tm.pc = "confirmOpen" /\ broker[tm.deal] # "ordered"
    /\ \/ /\ Executed(tm.deal) /\ NoFault
          /\ tm' = [tm EXCEPT !.pc = "insert"]
       \/ /\ IF Executed(tm.deal) THEN Fault ELSE NoFault
          /\ tm' = [tm EXCEPT !.pc = "insert", !.deal = RefOf[@]]
    /\ TmOthers /\ UNCHANGED <<extVars, db, cache, openPositions>>

\* insert_trade_open (ON CONFLICT DO NOTHING), then the in-memory map.
InsertTrade ==
    /\ tm.pc = "insert"
    /\ db' = IF db[tm.deal] = "absent" THEN [db EXCEPT ![tm.deal] = "open"] ELSE db
    /\ openPositions' = [openPositions EXCEPT ![tm.epic] = tm.deal]
    /\ tm' = [tm EXCEPT !.pc = "readRows"]
    /\ NoFault /\ TmOthers /\ UNCHANGED <<extVars, cache>>

-----------------------------------------------------------------------------
(* TradeService._handle_close.  The signal names a deal, or the map is asked *)
(* for the instrument's; nothing happens without one.  The operator's CLOSE  *)
(* need not name an instrument.                                              *)

CloseTargets == {t \in Deals \X (Epics \cup {NoDeal}) :
                    \/ Executed(t[1]) /\ t[2] \in {EpicOf[t[1]], NoDeal}
                    \/ t[2] # NoDeal /\ openPositions[t[2]] = t[1]}

\* DELETE /positions/{deal} is accepted; an error for a deal that is not open, or an id that
\* is no position's, changes nothing.
ClosePosition ==
    /\ tm.pc = "idle"
    /\ \E t \in CloseTargets :
          /\ OrdersClose(t[1])
          /\ tm' = [tm EXCEPT !.pc = "confirmClose", !.deal = t[1], !.epic = t[2]]
    /\ NoFault /\ TmOthers /\ UNCHANGED <<listed, kept, db, cache, openPositions>>

CloseAnswerLost ==
    /\ tm.pc = "idle"
    /\ \E t \in CloseTargets : OrdersClose(t[1])
    /\ Fault /\ TmOthers /\ UNCHANGED <<listed, kept, db, cache, tmVars>>

\* Mutant: an accepted close is recorded without a confirm.
ConfirmCloseSkipped ==
    /\ tm.pc = "confirmClose"
    /\ tm' = [tm EXCEPT !.pc = "recordClose"]
    /\ NoFault /\ TmOthers /\ UNCHANGED <<extVars, db, cache, openPositions>>

\* The confirm, once the broker has decided: executed or rejected, the exit is recorded.
ConfirmClose ==
    /\ tm.pc = "confirmClose" /\ broker[tm.deal] # "closing"
    /\ tm' = [tm EXCEPT !.pc = "recordClose"]
    /\ NoFault /\ TmOthers /\ UNCHANGED <<extVars, db, cache, openPositions>>

\* Mutants: the arguments of update_trade_close are swapped; a missing row is inserted.
RecordCloseSwapped ==
    /\ tm.pc = "recordClose"
    /\ db' = IF db[tm.deal] = "absent" THEN db ELSE [db EXCEPT ![tm.deal] = "AUTO"]
    /\ openPositions' = IF tm.epic = NoDeal THEN openPositions
                        ELSE [openPositions EXCEPT ![tm.epic] = NoDeal]
    /\ tm' = [tm EXCEPT !.pc = "readRows"]
    /\ NoFault /\ TmOthers /\ UNCHANGED <<extVars, cache>>

RecordCloseUpserts ==
    /\ tm.pc = "recordClose"
    /\ db' = [db EXCEPT ![tm.deal] = "closed"]
    /\ openPositions' = IF tm.epic = NoDeal THEN openPositions
                        ELSE [openPositions EXCEPT ![tm.epic] = NoDeal]
    /\ tm' = [tm EXCEPT !.pc = "readRows"]
    /\ NoFault /\ TmOthers /\ UNCHANGED <<extVars, cache>>

\* update_trade_close overwrites whatever exit the row has; the map forgets the
\* instrument's deal, whichever it is.
RecordClose ==
    /\ tm.pc = "recordClose"
    /\ db' = IF db[tm.deal] = "absent" THEN db ELSE [db EXCEPT ![tm.deal] = "closed"]
    /\ openPositions' = IF tm.epic = NoDeal THEN openPositions
                        ELSE [openPositions EXCEPT ![tm.epic] = NoDeal]
    /\ tm' = [tm EXCEPT !.pc = "readRows"]
    /\ NoFault /\ TmOthers /\ UNCHANGED <<extVars, cache>>

-----------------------------------------------------------------------------
(* TradeService._handle_update_sl: broker, row, then the Redis list.  The    *)
(* stop itself is not modelled here.                                         *)

UpdateStop ==
    /\ tm.pc = "idle"
    /\ OpenAtBroker # {}
    /\ tm' = [tm EXCEPT !.pc = "readRows"]
    /\ NoFault /\ TmOthers /\ UNCHANGED <<extVars, db, cache, openPositions>>

-----------------------------------------------------------------------------
(* TradeService.sync_positions_to_redis: the rows without an exit are read,  *)
(* then written to Redis (and announced to the engine).                      *)

ReadRows ==
    /\ tm.pc = "readRows"
    /\ tm' = [TmIdle EXCEPT !.pc = "setCache", !.rows = OpenInDb]
    /\ NoFault /\ TmOthers /\ UNCHANGED <<extVars, db, cache, openPositions>>

SetCache ==
    /\ tm.pc = "setCache"
    /\ cache' = tm.rows
    /\ tm' = TmIdle
    /\ NoFault /\ TmOthers /\ UNCHANGED <<extVars, db, openPositions>>

\* The broker does not confirm in time, or the database or Redis fails: the handler
\* returns, or its exception is caught by the listener's loop.
HandlerFails ==
    /\ tm.pc # "idle"
    /\ tm' = TmIdle
    /\ Fault /\ TmOthers /\ UNCHANGED <<extVars, db, cache, openPositions>>

\* The process dies and is restarted by Docker: main() begins with a sync.
Restart ==
    /\ tm' = [TmIdle EXCEPT !.pc = "readRows"]
    /\ openPositions' = NoPositions
    /\ Fault /\ TmOthers /\ UNCHANGED <<extVars, db, cache>>

TmStep ==
    \/ ConfirmOpen \/ InsertTrade \/ ConfirmClose \/ RecordClose \/ ReadRows \/ SetCache

-----------------------------------------------------------------------------
(* AccountSyncTask, the position part of one pass *)

TaskOthers == UNCHANGED <<extVars, tmVars, request>>

\* The open positions are fetched at the start of the pass.
TaskFetch ==
    /\ task.pc = "idle"
    /\ task' = [task EXCEPT !.pc = "fetched", !.snapshot = OpenAtBroker]
    /\ NoFault /\ TaskOthers /\ UNCHANGED <<db, cache, seen>>

\* The 60 s timer has run out: the transactions of the last 120 s are fetched.
TaskTransactions ==
    /\ task.pc = "fetched"
    /\ task' = [task EXCEPT !.pc = "match", !.txs = listed]
    /\ NoFault /\ TaskOthers /\ UNCHANGED <<db, cache, seen>>

\* The timer is running.
TaskNotDue ==
    /\ task.pc = "fetched"
    /\ task' = [task EXCEPT !.pc = "write"]
    /\ NoFault /\ TaskOthers /\ UNCHANGED <<db, cache, seen>>

\* Mutant: closings are looked up among the positions still open.
TaskMatchSnapshot ==
    /\ task.pc = "match"
    /\ task' = [task EXCEPT !.pc = "record", !.todo = task.txs \cap task.snapshot,
                            !.txs = @ \ {tm.deal}]
    /\ NoFault /\ TaskOthers /\ UNCHANGED <<db, cache, seen>>

\* GetOpenTradeDealIdsAsync: closings without an open row are skipped.  Those whose
\* handler is still at work will be listed when the timer next runs out.
TaskMatch ==
    /\ task.pc = "match"
    /\ task' = [task EXCEPT !.pc = "record", !.todo = task.txs \cap OpenInDb,
                            !.txs = @ \ {tm.deal}]
    /\ NoFault /\ TaskOthers /\ UNCHANGED <<db, cache, seen>>

\* UpdateTradeClosingAsync, one row at a time, only while the row has no exit.
TaskRecordExit ==
    /\ task.pc = "record"
    /\ \E d \in task.todo :
          /\ db' = IF db[d] = "open" THEN [db EXCEPT ![d] = "closed"] ELSE db
          /\ task' = [task EXCEPT !.todo = @ \ {d}]
    /\ NoFault /\ TaskOthers /\ UNCHANGED <<cache, seen>>

\* LAST_TRADE_SYNC_TIME is written: the timer starts again.
TaskRecorded ==
    /\ task.pc = "record" /\ task.todo = {}
    /\ task' = [task EXCEPT !.pc = "write", !.txs = {}]
    /\ seen' = seen \cup task.txs
    /\ NoFault /\ TaskOthers /\ UNCHANGED <<db, cache>>

\* Mutant: only entries already listed are refreshed.
TaskRefreshCache ==
    /\ task.pc = "write"
    /\ cache' = task.snapshot \cap cache
    /\ task' = TaskIdle
    /\ NoFault /\ TaskOthers /\ UNCHANGED <<db, seen>>

\* Mutant: the snapshot is added to the list.
TaskMergeCache ==
    /\ task.pc = "write"
    /\ cache' = cache \cup task.snapshot
    /\ task' = TaskIdle
    /\ NoFault /\ TaskOthers /\ UNCHANGED <<db, seen>>

\* The list in Redis is replaced by the snapshot of the start of the pass.
TaskWriteCache ==
    /\ task.pc = "write"
    /\ cache' = task.snapshot
    /\ task' = TaskIdle
    /\ NoFault /\ TaskOthers /\ UNCHANGED <<db, seen>>

\* An exception ends the pass; LAST_TRADE_SYNC_TIME is not written, so the next pass
\* fetches the transactions again.
TaskFails ==
    /\ task.pc # "idle"
    /\ task' = TaskIdle
    /\ Fault /\ TaskOthers /\ UNCHANGED <<db, cache, seen>>

TaskStep == TaskFetch \/ TaskTransactions \/ TaskMatch \/ TaskRecordExit \/ TaskRecorded
            \/ TaskWriteCache

-----------------------------------------------------------------------------
(* TradeService.UpdatePositionLimitsAsync (api_server): after the broker has *)
(* moved the limits, the list is rebuilt from the broker's positions.        *)

LimitsFetch ==
    /\ request.pc = "idle"
    /\ OpenAtBroker # {}
    /\ request' = [pc |-> "write", snapshot |-> OpenAtBroker]
    /\ NoFault /\ UNCHANGED <<extVars, db, cache, tmVars, task, seen>>

LimitsWriteCache ==
    /\ request.pc = "write"
    /\ cache' = request.snapshot
    /\ request' = RequestIdle
    /\ NoFault /\ UNCHANGED <<extVars, db, tmVars, task, seen>>

-----------------------------------------------------------------------------
Next ==
    \/ DecideOpen \/ RejectClose \/ BrokerCloses \/ TransactionExpires
    \/ OpenPosition \/ OpenAnswerLost
    \/ ClosePosition \/ CloseAnswerLost
    \/ UpdateStop
    \/ TmStep \/ HandlerFails \/ Restart
    \/ TaskStep \/ TaskNotDue \/ TaskFails
    \/ LimitsFetch \/ LimitsWriteCache

Spec == Init /\ [][Next]_vars

\* The listener finishes what it began, a request finishes, and the sync task runs pass
\* after pass; its 60 s timer runs out again and again.
Fairness ==
    /\ WF_vars(TmStep)
    /\ WF_vars(TaskStep \/ TaskNotDue) /\ SF_vars(TaskTransactions)
    /\ WF_vars(LimitsWriteCache)

FairSpec == Spec /\ Fairness

-----------------------------------------------------------------------------
(* Properties *)

TmPcs == {"idle", "confirmOpen", "insert", "confirmClose", "recordClose", "readRows", "setCache"}
TaskPcs == {"idle", "fetched", "match", "record", "write"}
DealStates == {"none", "ordered", "rejected", "open", "closing", "closed"}

\* The types of the variables.
TypeOK ==
    /\ broker \in [Deals -> DealStates]
    /\ listed \subseteq Deals /\ kept \subseteq Deals
    /\ db \in [Ids -> {"absent", "open", "closed"}]
    /\ cache \subseteq Ids
    /\ openPositions \in [Epics -> Ids \cup {NoDeal}]
    /\ tm \in [pc : TmPcs, deal : Ids \cup {NoDeal}, epic : Epics \cup {NoDeal},
              rows : SUBSET Ids]
    /\ tm.pc = "confirmOpen" => tm.deal \in Deals
    /\ task \in [pc : TaskPcs, snapshot : SUBSET Deals, txs : SUBSET Deals,
                 todo : SUBSET Deals]
    /\ request \in [pc : {"idle", "write"}, snapshot : SUBSET Deals]
    /\ faults \in 0..MaxFaults
    /\ seen \subseteq Deals

\* The table follows the broker's decisions, though not its refusals.  A deal has a row only
\* once it is executed, and an exit only when it is closed or the broker has rejected a
\* close of it, be it written by update_trade_close or by the repair of AccountSyncTask.
\* A row of no position is of an order the broker has decided on and that has no other row:
\* a rejected one, or one the confirm did not name.  Nothing ever closes such a row.
RowsFollowDecisions ==
    \A d \in Deals :
        /\ db[d] # "absent" => Executed(d)
        /\ db[d] = "closed" => broker[d] = "closed" \/ d \in kept
        /\ db[RefOf[d]] # "absent" =>
              /\ Executed(d) \/ broker[d] = "rejected"
              /\ db[RefOf[d]] = "open" /\ db[d] = "absent"

\* While nothing goes wrong, a position that is open at the broker has its row, or is the
\* very one the trade manager is working on, whatever the broker rejects.
OpenPositionsRecorded ==
    faults = 0 => \A d \in OpenAtBroker : db[d] # "absent" \/ tm.deal = d

\* The map from instruments to identifiers only names recorded ones, of the right
\* instrument: a CLOSE without a deal_id never closes another instrument's position.
MapNamesRecorded ==
    \A e \in Epics : openPositions[e] # NoDeal =>
        EpicOf[openPositions[e]] = e /\ db[openPositions[e]] # "absent"

\* Refinement: orders and rows go through the lifecycle, whoever writes the rows; the broker
\* having an order, or a close, to decide on makes no difference to it.
Market == [d \in Deals |-> CASE broker[d] = "ordered" -> "none"
                             [] broker[d] = "closing" -> "open"
                             [] OTHER -> broker[d]]
Life == INSTANCE TradeLifecycle WITH market <- Market, record <- db
LifecycleRefined == Life!LifeSpec

\* A position the broker closes, or whose close the trade manager could not record, gets
\* its exit from the active sync.
ExitsAreRecorded ==
    \A d \in Deals : (broker[d] = "closed" /\ db[d] = "open") ~> db[d] = "closed"

\* A closed position leaves the Redis list for good, although three programs write the
\* list from snapshots taken earlier.
ClosedDealLeavesList ==
    \A d \in Deals : (broker[d] = "closed" /\ db[d] = "closed") ~> [](d \notin cache)

\* A recorded open position gets into the list.
OpenDealEntersList ==
    \A d \in Deals : (InMarket(d) /\ db[d] = "open")
                        ~> (broker[d] = "closed" \/ d \in cache)

-----------------------------------------------------------------------------
(* The inductive invariant behind the safety properties. *)

\* What the broker has done, and what has no row yet, when the handler is between two calls.
HandlerInv ==
    /\ tm.pc = "confirmOpen" =>
          /\ tm.deal \in Deals /\ broker[tm.deal] # "none"
          /\ db[tm.deal] = "absent" /\ db[RefOf[tm.deal]] = "absent"
          /\ tm.epic = EpicOf[tm.deal]
    /\ tm.pc = "insert" => \E d \in Deals :
          /\ tm.deal \in {d, RefOf[d]}
          /\ Executed(d) \/ (broker[d] = "rejected" /\ tm.deal = RefOf[d])
          /\ db[d] = "absent" /\ db[RefOf[d]] = "absent"
          /\ tm.epic = EpicOf[d]
    /\ tm.pc = "confirmClose" =>
          tm.deal \in Deals /\ (broker[tm.deal] \in {"closing", "closed"} \/ tm.deal \in kept)
    /\ tm.pc = "recordClose" =>
          tm.deal \in Deals /\ (broker[tm.deal] = "closed" \/ tm.deal \in kept)

\* Only closed deals are listed as closings, here and in the task's copies of the list.
ListedInv == \A d \in listed \cup task.txs \cup task.todo : broker[d] = "closed"

\* A close is rejected of an executed deal only.
KeptInv == \A d \in kept : Executed(d)

\* OpenPositionsRecorded, with the control points at which the row is still to come.
UnrecordedInv ==
    faults = 0 => \A d \in Deals :
        /\ broker[d] = "ordered" => tm.pc = "confirmOpen" /\ tm.deal = d
        /\ InMarket(d) /\ db[d] = "absent" =>
              tm.pc \in {"confirmOpen", "insert"} /\ tm.deal = d

IInv == /\ TypeOK /\ RowsFollowDecisions /\ MapNamesRecorded
        /\ HandlerInv /\ ListedInv /\ KeptInv /\ UnrecordedInv

-----------------------------------------------------------------------------
(* README.md:76 has orders created and their records stored.  That a row is  *)
(* of an executed order and an exit of a closed position, the code does not  *)
(* keep: a rejected order gets a row and a rejected close an exit.           *)
RecordsTrailMarket ==
    \A d \in Deals : /\ db[d] = "closed" => broker[d] = "closed"
                     /\ db[RefOf[d]] = "absent"
=============================================================================

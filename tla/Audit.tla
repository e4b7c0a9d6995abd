------------------------------- MODULE Audit -------------------------------
(***************************************************************************)
(* AuditAction: live trades of the database against a backtest of the same *)
(* label.  The costs of the days of the range are fetched from the broker  *)
(* first, then the first label is run by BacktestEngine, every live trade  *)
(* is compared with the backtest's trades, and a report is written.        *)
(*                                                                         *)
(* Time is in hours from the start of the range.                           *)
(***************************************************************************)
EXTENDS BacktestEngine

CONSTANTS
    BarHours,    \* hours of a bar
    MatchHours,  \* 4: how near a backtest trade must be
    LiveTrades,  \* what get_trades may answer: sequences of [deal, entry, side, price]
    Days,        \* the days of the range
    Costs        \* the broker's cost transactions: [day, deal]

ASSUME AuditAssumption ==
    /\ BarHours \in Nat \ {0} /\ MatchHours \in Nat
    /\ \A live \in LiveTrades : live \in Seq([deal : STRING, entry : Nat, side : {1, -1}, price : Nat])
    /\ Days \subseteq Nat /\ IsFiniteSet(Days)
    /\ Costs \subseteq [day : Days, deal : STRING]

VARIABLES
    costs,  \* table trade_costs: [day, deal]
    audit   \* control point and locals of AuditAction.execute

AuditInit ==
    /\ costs = {}
    /\ audit = [pc |-> "fetch", live |-> <<>>, missing |-> {}, results |-> <<>>]

-----------------------------------------------------------------------------
(* Costs *)

\* The names of a TradeCostDTO's dict and those of the INSERT.
RecordKeys == {"deal_id", "date", "type", "amount", "currency", "epic", "raw_reference"}
InsertKeys == {"date", "deal_id", "cost_type", "amount", "currency", "epic", "raw_reference"}

\* TradeRepository.upsert_trade_costs: all records or, when one of them fails, none: for want
\* of a key, or of the trade it refers to.
UpsertTradeCosts(records, deals) ==
    IF InsertKeys \subseteq RecordKeys /\ \A r \in records : r.deal \in deals
    THEN costs \cup records
    ELSE costs

\* TradeRepository.get_covered_cost_dates
CoveredCostDates == {r.day : r \in costs}

\* CapitalClient.fetch_costs_for_range(d, d): the day's, or nothing when the request fails.
FetchCosts(d) == {{r \in Costs : r.day = d}, {}}

LiveDeals == {audit.live[k].deal : k \in 1 .. Len(audit.live)}

\* No live trade: a warning, and nothing else happens.  No trade has a list of strategies or
\* epics for its own.
FetchLive ==
    /\ audit.pc = "fetch"
    /\ \E live \in (IF Len(bt.request.labels) = 1 THEN LiveTrades ELSE {<<>>}) :
          audit' = [audit EXCEPT !.live = live, !.pc = IF live = <<>> THEN "none" ELSE "sync"]
    /\ UNCHANGED <<costs, bt>>

\* --skip-sync, or a range without its two dates.
SkipSync ==
    /\ audit.pc = "sync"
    /\ audit' = [audit EXCEPT !.pc = "backtest"]
    /\ UNCHANGED <<costs, bt>>

StartSync ==
    /\ audit.pc = "sync"
    /\ audit' = [audit EXCEPT !.pc = "syncing", !.missing = Days \ CoveredCostDates]
    /\ UNCHANGED <<costs, bt>>

SyncDay ==
    /\ audit.pc = "syncing" /\ audit.missing # {}
    /\ LET d == Min(audit.missing)
       IN  \E records \in FetchCosts(d) :
              /\ costs' = UpsertTradeCosts(records, LiveDeals)
              /\ audit' = [audit EXCEPT !.missing = audit.missing \ {d}]
    /\ UNCHANGED bt

EndSync ==
    /\ audit.pc = "syncing" /\ audit.missing = {}
    /\ audit' = [audit EXCEPT !.pc = "synced"]
    /\ UNCHANGED <<costs, bt>>

-----------------------------------------------------------------------------
(* Comparison *)

AuditBacktest ==
    /\ audit.pc \in {"backtest", "synced"}
    /\ RunBacktest
    /\ UNCHANGED <<costs, audit>>

\* "Could not run matching backtest", or the run ended in an exception.
NoPortfolio ==
    /\ audit.pc \in {"backtest", "synced"} /\ bt.pc \in {"empty", "crashed"}
    /\ audit' = [audit EXCEPT !.pc = "none"]
    /\ UNCHANGED <<costs, bt>>

Distance(live, t) ==
    LET hour == t.entry * BarHours
    IN  IF hour >= live.entry THEN hour - live.entry ELSE live.entry - hour

\* Mutant: the first trade that is near enough.
FirstNear(live, trades) ==
    {k \in 1 .. Len(trades) : /\ Distance(live, trades[k]) < MatchHours
                              /\ \A j \in 1 .. k - 1 : Distance(live, trades[j]) >= MatchHours}

\* The first of the nearest in time, whatever its side, if it is near enough.
NearestTrade(live, trades) ==
    {k \in 1 .. Len(trades) :
        /\ Distance(live, trades[k]) < MatchHours
        /\ \A j \in 1 .. Len(trades) : Distance(live, trades[j]) >= Distance(live, trades[k])
        /\ \A j \in 1 .. k - 1 : Distance(live, trades[j]) > Distance(live, trades[k])}

\* A match names the backtest trade; the slippage is against the live trade's side.
Compare(live) ==
    LET nearest == NearestTrade(live, bt.trades[1])
    IN  IF nearest = {} THEN [deal |-> live.deal, match |-> 0, slippage |-> 0]
        ELSE LET k == CHOOSE k \in nearest : TRUE
             IN  [deal |-> live.deal, match |-> k,
                  slippage |-> live.side * (live.price - OpenPrice[bt.trades[1][k].entry])]

CompareTrades ==
    /\ audit.pc \in {"backtest", "synced"} /\ bt.pc = "metrics"
    /\ audit' = [audit EXCEPT !.pc = "report",
                     !.results = [k \in 1 .. Len(audit.live) |-> Compare(audit.live[k])]]
    /\ UNCHANGED <<costs, bt>>

\* The table is loaded again by the label's second and third part: an epic or a resolution of
\* two parts (MINUTE_5) finds nothing, and the chart fails without a table.
AuditReport ==
    /\ audit.pc = "report"
    /\ \/ /\ bt.columns[1].label.epicParts = 1 /\ bt.columns[1].label.resParts = 1
          /\ audit' = [audit EXCEPT !.pc = "done"]
       \/ audit' = [audit EXCEPT !.pc = "crashed"]
    /\ UNCHANGED <<costs, bt>>

AuditNext == \/ FetchLive \/ SkipSync \/ StartSync \/ SyncDay \/ EndSync
             \/ AuditBacktest \/ NoPortfolio \/ CompareTrades \/ AuditReport

-----------------------------------------------------------------------------
(* Properties *)

AuditTypeOK ==
    /\ costs \subseteq Costs
    /\ audit.pc \in {"fetch", "none", "sync", "syncing", "backtest", "synced", "report", "done", "crashed"}
    /\ audit.live \in LiveTrades \cup {<<>>}
    /\ audit.missing \subseteq Days
    /\ Len(audit.results) \in {0, Len(audit.live)}

\* "Match live trades to backtest trades": every live trade has its result; one without a match
\* has no backtest trade nearby, one with a match none that is nearer.
MatchesAreNearest ==
    audit.pc \in {"report", "done"} =>
        \A k \in 1 .. Len(audit.live) :
            LET r == audit.results[k]
                live == audit.live[k]
            IN  /\ r.deal = live.deal
                /\ \A j \in 1 .. Len(bt.trades[1]) :
                      Distance(live, bt.trades[1][j]) >=
                          (IF r.match = 0 THEN MatchHours ELSE Distance(live, bt.trades[1][r.match]))
=============================================================================

--------------------------- MODULE BacktestEngine ---------------------------
(***************************************************************************)
(* BacktestEngine.run_backtest and what BacktestAction makes of it.  One   *)
(* label (strategy, epic, resolution) after the other is loaded, run by    *)
(* its strategy and added to the columns; vectorbt turns the columns into  *)
(* trades; metrics, Monte Carlo and the report follow.                     *)
(*                                                                         *)
(* A strategy's BatchResult is abstracted to its rounds: the bar of the    *)
(* signal, the bar of the exit (N when it has none), the side (1 long,     *)
(* -1 short), the price of the exit and the stop line on the bar of the    *)
(* entry.  Prices and cash are integers, fees are left out, and all labels *)
(* have the same bars 0 .. N - 1.                                          *)
(***************************************************************************)
EXTENDS Integers, Sequences, SequencesExt, FiniteSets, FiniteSetsExt

CONSTANTS
    N,           \* bars of a table
    OpenPrice, ClosePrice,  \* [0 .. N - 1 -> Nat]
    Batches,     \* what run_batch may return: sequences of rounds
    Requests,    \* labels (strategies x epics x resolutions, in order), --sizing-type, --use-ml
    Cash,        \* initial_cash
    PositionSize \* units of FIXED, percent of RISK

Bars == 0 .. N - 1
Round == [signal : Bars, exit : 0 .. N, side : {1, -1}, price : Nat, stop : Nat]
Label == [name : STRING, epicParts : Nat, resParts : Nat]

ASSUME EngineAssumption ==
    /\ N \in Nat \ {0} /\ Cash \in Nat /\ PositionSize \in Nat
    /\ OpenPrice \in [Bars -> Nat \ {0}] /\ ClosePrice \in [Bars -> Nat \ {0}]
    /\ \A q \in Requests : q.labels \in Seq(Label) /\ q.labels # <<>>
                           /\ q.sizing \in {"FIXED", "RISK"} /\ q.ml \in BOOLEAN
    /\ \A batch \in Batches :
          /\ batch \in Seq(Round)
          /\ \A k \in 1 .. Len(batch) : batch[k].exit > batch[k].signal
          /\ \A k \in 1 .. Len(batch) - 1 : batch[k + 1].signal >= batch[k].exit

\* What a sequence of amounts adds up to.
Total(amounts) == FoldLeft(LAMBDA sum, x : sum + x, 0, amounts)

VARIABLE bt     \* control point and locals of run_backtest and BacktestAction.execute

NoMonteCarlo == [final |-> 0, drawdown |-> -1]

BtInit == \E q \in Requests :
    bt = [pc |-> "load", request |-> q, label |-> 1, found |-> FALSE,
          columns |-> <<>>, trades |-> <<>>,
          metrics |-> [profit |-> 0, value |-> 0, count |-> 0],
          mc |-> NoMonteCarlo]

-----------------------------------------------------------------------------
(* The columns *)

\* Mutant: the signal is executed on its own bar.
EntryBarUnshifted(r) == r.signal

\* entries.shift(1): a signal is executed on the next bar; the last bar's falls off.
EntryBar(r) == r.signal + 1

\* MLInferenceHandler.apply_ml_filter: of the executed long entries, any may be dropped;
\* without a model or a pipeline none is.  Short entries are not filtered.
Filtered(batch) ==
    IF bt.request.ml
    THEN {[k \in 1 .. Len(batch) |-> batch[k].side = -1 \/ k \in kept] :
             kept \in SUBSET (1 .. Len(batch))}
    ELSE {[k \in 1 .. Len(batch) |-> TRUE]}

\* load_data: no candles, or the database failed.
LoadNothing ==
    /\ bt.pc = "load" /\ bt.label <= Len(bt.request.labels)
    /\ bt' = [bt EXCEPT !.label = bt.label + 1, !.found = FALSE]

AddColumn ==
    /\ bt.pc = "load" /\ bt.label <= Len(bt.request.labels)
    /\ \E batch \in Batches : \E entries \in Filtered(batch) :
          bt' = [bt EXCEPT !.label = bt.label + 1, !.found = TRUE,
                     !.columns = Append(bt.columns,
                         [label |-> bt.request.labels[bt.label], batch |-> batch, entries |-> entries])]

\* None, None: "Portfolio is empty".
Empty ==
    /\ bt.pc = "load" /\ bt.label > Len(bt.request.labels) /\ bt.columns = <<>>
    /\ bt' = [bt EXCEPT !.pc = "empty"]

\* The frequency is inferred from the last df, which is None when the last label had no data.
CrashOnFrequency ==
    /\ bt.pc = "load" /\ bt.label > Len(bt.request.labels) /\ bt.columns # <<>> /\ ~bt.found
    /\ bt' = [bt EXCEPT !.pc = "crashed"]

-----------------------------------------------------------------------------
(* vectorbt *)

AllIn(cash, price) == cash \div price

\* RISK: risk_pct / dist_pct of the cash, no more than all of it (nothing when the stop is the
\* price); FIXED: the units asked for, for a long as far as the cash goes.
Units(r, cash) ==
    LET price == OpenPrice[EntryBar(r)]
        dist == IF price >= r.stop THEN price - r.stop ELSE r.stop - price
    IN  IF cash <= 0 THEN 0
        ELSE IF bt.request.sizing = "RISK"
             THEN IF dist = 0 THEN 0
                  ELSE Min({AllIn(cash, price), (PositionSize * cash) \div (100 * dist)})
             ELSE IF r.side = 1 THEN Min({AllIn(cash, price), PositionSize}) ELSE PositionSize

\* Executed unless filtered, beyond the last bar, or exited on the bar of the entry: from_signals
\* ignores an entry and an exit of one side that meet.  Without an exit it is valued at the end.
Executed(r, entry) == entry /\ EntryBar(r) \in Bars /\ r.exit # EntryBar(r)

Trade(r, cash) ==
    LET price == IF r.exit \in Bars THEN r.price ELSE ClosePrice[N - 1]
        units == Units(r, cash)
    IN  [round |-> r, entry |-> EntryBar(r), exit |-> Min({r.exit, N - 1}), units |-> units,
         pnl |-> r.side * units * (price - OpenPrice[EntryBar(r)])]

Pnl(trades) == Total([k \in 1 .. Len(trades) |-> trades[k].pnl])

\* Round k with the cash the trades before it left.
AfterRound(column, k, trades) ==
    LET r == column.batch[k]
        cash == Cash + Pnl(trades)
    IN  IF Executed(r, column.entries[k]) /\ Units(r, cash) > 0
        THEN Append(trades, Trade(r, cash))
        ELSE trades

\* One column: its rounds in turn.
FromSignals(column) ==
    FoldLeft(LAMBDA trades, k : AfterRound(column, k, trades),
             <<>>, [k \in 1 .. Len(column.batch) |-> k])

Simulate ==
    /\ bt.pc = "load" /\ bt.label > Len(bt.request.labels) /\ bt.columns # <<>> /\ bt.found
    /\ bt' = [bt EXCEPT !.pc = "metrics",
                  !.trades = [c \in 1 .. Len(bt.columns) |-> FromSignals(bt.columns[c])]]

\* What a trade has earned by the close of a bar.
Earned(t, bar) ==
    IF bar < t.entry THEN 0
    ELSE IF bar >= t.exit THEN t.pnl
    ELSE t.round.side * t.units * (ClosePrice[bar] - OpenPrice[t.entry])

\* portfolio[label].value() on a bar.
ColumnValue(trades, bar) == Cash + Total([k \in 1 .. Len(trades) |-> Earned(trades[k], bar)])

-----------------------------------------------------------------------------
(* calculate_advanced_metrics *)

AllTrades == FlattenSeq(bt.trades)

\* Mutant: the cash of every column is taken off.
PortfolioValueEmptied(bar) ==
    Total([c \in 1 .. Len(bt.trades) |-> ColumnValue(bt.trades[c], bar)]) - Len(bt.trades) * Cash

\* The columns together, as if they had started from one account.
PortfolioValue(bar) ==
    Total([c \in 1 .. Len(bt.trades) |-> ColumnValue(bt.trades[c], bar)]) - (Len(bt.trades) - 1) * Cash

CalculateMetrics ==
    /\ bt.pc = "metrics"
    /\ bt' = [bt EXCEPT !.pc = "monte carlo",
                  !.metrics = [profit |-> Pnl(AllTrades), value |-> PortfolioValue(N - 1),
                               count |-> Len(AllTrades)]]

-----------------------------------------------------------------------------
(* run_monte_carlo: one of the n_simulations orders. *)

EquityCurve(pnls) == [k \in 0 .. Len(pnls) |-> Cash + Total(SubSeq(pnls, 1, k))]

\* Mutant: the cash before the first trade is no peak.
DrawdownLate(equity) ==
    Max({0} \cup {Max({equity[i] : i \in 1 .. j}) - equity[j] : j \in 1 .. Cardinality(DOMAIN equity) - 1})

\* Mutant: the fall keeps its sign.
DrawdownSigned(equity) == Min({equity[j] - Max({equity[i] : i \in 0 .. j}) : j \in DOMAIN equity})

\* In money rather than percent: the largest fall from the peak so far.
Drawdown(equity) == Max({Max({equity[i] : i \in 0 .. j}) - equity[j] : j \in DOMAIN equity})

Orders == {f \in [1 .. Len(AllTrades) -> 1 .. Len(AllTrades)] : IsInjective(f)}

RunMonteCarlo ==
    /\ bt.pc = "monte carlo" /\ bt.metrics.count > 0
    /\ \E order \in Orders :
          LET equity == EquityCurve([k \in 1 .. Len(AllTrades) |-> AllTrades[order[k]].pnl])
          IN  bt' = [bt EXCEPT !.pc = "report",
                         !.mc = [final |-> equity[Len(AllTrades)], drawdown |-> Drawdown(equity)]]

\* Without --monte, or without a trade.
SkipMonteCarlo ==
    /\ bt.pc = "monte carlo"
    /\ bt' = [bt EXCEPT !.pc = "report", !.mc = NoMonteCarlo]

-----------------------------------------------------------------------------
(* _generate_report: the first label's table is loaded once more, its epic and resolution cut *)
(* out of the label; the database may fail this time.                                         *)

GenerateReport ==
    /\ bt.pc = "report"
    /\ \/ /\ bt.metrics.count > 0 /\ bt.columns[1].label.epicParts = 1
          /\ bt' = [bt EXCEPT !.pc = "done"]
       \/ /\ bt.metrics.count > 0
          /\ bt' = [bt EXCEPT !.pc = "crashed"]
       \/ /\ bt.metrics.count = 0
          /\ bt' = [bt EXCEPT !.pc = "no report"]

RunBacktest == LoadNothing \/ AddColumn \/ Empty \/ CrashOnFrequency \/ Simulate
Analyze == CalculateMetrics \/ RunMonteCarlo \/ SkipMonteCarlo \/ GenerateReport

-----------------------------------------------------------------------------
(* Properties *)

BtTypeOK ==
    /\ bt.pc \in {"load", "metrics", "monte carlo", "report", "done", "no report", "empty", "crashed"}
    /\ bt.request \in Requests /\ bt.label \in 1 .. Len(bt.request.labels) + 1 /\ bt.found \in BOOLEAN
    /\ Len(bt.columns) \in 0 .. Len(bt.request.labels) /\ Len(bt.trades) \in {0, Len(bt.columns)}
    /\ bt.metrics \in [profit : Int, value : Int, count : Nat]
    /\ bt.mc \in {NoMonteCarlo} \cup [final : Int, drawdown : Nat]

\* The trades of a column are known only after their signals: each is entered on a later bar
\* than its signal, at that bar's open, and left on a later one; none overlaps the next.
NoLookAhead ==
    \A c \in 1 .. Len(bt.trades) : \A k \in 1 .. Len(bt.trades[c]) :
        LET t == bt.trades[c][k]
        IN  /\ t.round.signal < t.entry /\ t.entry <= t.exit
            /\ t.exit = t.entry => t.exit = N - 1
            /\ k > 1 => bt.trades[c][k - 1].exit < t.entry

\* The two ways the summary measures the result agree: the profit of all trades of all columns
\* is what the combined equity curve gained.
ProfitIsValue ==
    bt.pc \in {"monte carlo", "report", "done"} => bt.metrics.value - Cash = bt.metrics.profit

\* "Final Return": whatever the order, the shuffled trades end where the backtest did, and the
\* drawdown of an order is at least what the trades lose together.
ShufflesAgree ==
    bt.mc # NoMonteCarlo =>
        /\ bt.mc.final = Cash + bt.metrics.profit
        /\ bt.mc.drawdown >= Cash - bt.mc.final
=============================================================================

---------------------------- MODULE WalkForward ----------------------------
(***************************************************************************)
(* Optimization and walk-forward analysis (backtest_engine).  A run of a   *)
(* strategy is abstracted to what it earns in each bar of the table of     *)
(* candles, so the return of a stretch of bars is the sum over them; the   *)
(* optimizer only runs the long half of a strategy.                        *)
(*                                                                         *)
(* Bars of the loaded range are numbered from 0 as in the code; the table  *)
(* may hold bars before it (start), numbered from -args.before.            *)
(***************************************************************************)
EXTENDS Integers, FiniteSets, Sequences, FiniteSetsExt

CONSTANTS
    MinWindow,  \* bars a window needs (30)
    MinTest,    \* bars a test stretch needs (5)
    Params,     \* the combinations of the parameter grid
    Default,    \* the parameters the engine's strategy was created with
    Ranges,     \* command lines: bars loaded and before, splits, train ratio num/den
    Gains       \* what each combination may earn per bar: all of it and its long half

RangeSet == [bars : Nat, before : Nat, splits : Nat \ {0}, num : Nat, den : Nat \ {0}]

ASSUME SizesAssumption == MinWindow \in Nat \ {0} /\ MinTest \in Nat \ {0}
ASSUME ParamsAssumption == Default \in Params /\ IsFiniteSet(Params)
ASSUME RangesAssumption == Ranges \subseteq RangeSet
ASSUME GainsAssumption ==
    \A g \in Gains, r \in Ranges, p \in Params : \A b \in -r.before .. r.bars - 1 :
        g[p][b] \in [all : Int, long : Int]

VARIABLES
    args,   \* the command line
    gain,   \* [Params -> [bar -> [all, long]]]
    wfo     \* control point and locals of run_wfo

wfoVars == <<args, gain, wfo>>

WfoInit ==
    /\ args \in Ranges
    /\ gain \in Gains
    /\ wfo = [pc |-> "load", split |-> 0, best |-> Default, windows |-> <<>>]

-----------------------------------------------------------------------------
(* Windows *)

WindowSize == args.bars \div args.splits
TrainSize == (WindowSize * args.num) \div args.den
TestSize == WindowSize - TrainSize

\* Mutants: the last split is not stretched to the last bar; the test starts in the training.
SplitEndShort(i) == (i + 1) * WindowSize
TestShared(i) == (i * WindowSize + TrainSize - 1) .. (i + 1) * WindowSize - 1

\* Split i, counted from 0; the last one takes the bars the division leaves over.
SplitEnd(i) == IF i < args.splits - 1 THEN (i + 1) * WindowSize ELSE args.bars
Train(i) == (i * WindowSize) .. (i * WindowSize + TrainSize - 1)
Test(i) == (i * WindowSize + TrainSize) .. (SplitEnd(i) - 1)

-----------------------------------------------------------------------------
(* Returns *)

\* BacktestEngine.optimize: every combination on the same bars, without its short side.
OptimizeReturn(p, bars) == MapThenSumSet(LAMBDA b : gain[p][b].long, bars)

\* total_return().idxmax()
Best(bars) == {p \in Params : \A q \in Params : OptimizeReturn(p, bars) >= OptimizeReturn(q, bars)}

\* BacktestEngine.run_backtest as run_wfo calls it: the engine's own strategy, whatever params
\* the configuration names, over every bar of the table up to the end of the test.
TestReturn(i) == MapThenSumSet(LAMBDA b : gain[Default][b].all, (-args.before) .. (SplitEnd(i) - 1))

-----------------------------------------------------------------------------
(* run_wfo *)

\* No data, windows too small or test stretches too small: an error message and no result.
Refuse ==
    /\ wfo.pc = "load"
    /\ args.bars = 0 \/ WindowSize < MinWindow \/ TestSize < MinTest
    /\ wfo' = [wfo EXCEPT !.pc = "none"]
    /\ UNCHANGED <<args, gain>>

Accept ==
    /\ wfo.pc = "load"
    /\ args.bars # 0 /\ WindowSize >= MinWindow /\ TestSize >= MinTest
    /\ wfo' = [wfo EXCEPT !.pc = "train"]
    /\ UNCHANGED <<args, gain>>

\* An empty training stretch has no best parameters: the split is skipped.
SkipSplit ==
    /\ wfo.pc = "train" /\ wfo.split < args.splits
    /\ Train(wfo.split) = {}
    /\ wfo' = [wfo EXCEPT !.split = wfo.split + 1]
    /\ UNCHANGED <<args, gain>>

OptimizeTrain ==
    /\ wfo.pc = "train" /\ wfo.split < args.splits
    /\ Train(wfo.split) # {}
    /\ \E p \in Best(Train(wfo.split)) : wfo' = [wfo EXCEPT !.pc = "test", !.best = p]
    /\ UNCHANGED <<args, gain>>

\* The window's result; without data for the second run (the database fails) it is zero.
BacktestTest ==
    /\ wfo.pc = "test"
    /\ \E return \in {TestReturn(wfo.split), 0} :
          wfo' = [wfo EXCEPT !.pc = "train", !.split = wfo.split + 1,
                      !.windows = Append(wfo.windows,
                          [train |-> Train(wfo.split), test |-> Test(wfo.split),
                           best |-> wfo.best, return |-> return])]
    /\ UNCHANGED <<args, gain>>

\* The combined metrics; without a window there is no result.
Summarize ==
    /\ wfo.pc = "train" /\ wfo.split = args.splits
    /\ wfo' = [wfo EXCEPT !.pc = IF wfo.windows = <<>> THEN "none" ELSE "done"]
    /\ UNCHANGED <<args, gain>>

WfoNext == Refuse \/ Accept \/ SkipSplit \/ OptimizeTrain \/ BacktestTest \/ Summarize
WfoSpec == WfoInit /\ [][WfoNext]_wfoVars

-----------------------------------------------------------------------------
(* Properties *)

Stretch == SUBSET (0 .. args.bars - 1)

WfoTypeOK ==
    /\ args \in Ranges
    /\ wfo.pc \in {"load", "train", "test", "none", "done"}
    /\ wfo.split \in 0 .. args.splits /\ wfo.best \in Params
    /\ wfo.windows \in Seq([train : Stretch, test : Stretch, best : Params, return : Int])

\* Rolling windows: within a window every training bar is before every test bar, there are
\* at least MinTest of those, and the windows follow each other without a common bar.
TestFollowsTrain ==
    \A k \in 1 .. Len(wfo.windows) :
        LET w == wfo.windows[k]
        IN  /\ \A a \in w.train, b \in w.test : a < b
            /\ \E b \in w.test : b + MinTest - 1 \in w.test
            /\ \A l \in k + 1 .. Len(wfo.windows) :
                  \A a \in w.train \cup w.test,
                     b \in wfo.windows[l].train \cup wfo.windows[l].test : a < b

\* "Splits the full historical data into N sequential windows": no loaded bar is left out of
\* a result with training bars.
NoBarLost ==
    wfo.pc = "done" =>
        \A b \in 0 .. args.bars - 1 :
            \E k \in 1 .. Len(wfo.windows) : b \in wfo.windows[k].train \cup wfo.windows[k].test

\* "[Test period]  Backtest using those best params (out-of-sample)": a window's test return
\* is what its best parameters earn on its test bars (or 0 without data).
OutOfSample ==
    \A k \in 1 .. Len(wfo.windows) :
        LET w == wfo.windows[k]
        IN  w.return \in {0, MapThenSumSet(LAMBDA b : gain[w.best][b].all, w.test)}
=============================================================================

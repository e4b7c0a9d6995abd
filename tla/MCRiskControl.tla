--------------------------- MODULE MCRiskControl ---------------------------
(***************************************************************************)
(* A small account: 200 at the start of the month, a loss of 5% that trips *)
(* the daily limit, and a drop to 190 that passes the next day's baseline  *)
(* and then trips the monthly limit of 6%.  The operator may switch the    *)
(* daily limit off.                                                        *)
(***************************************************************************)
EXTENDS RiskControl

MCAccounts == {[balance |-> 200, pnl |-> 0], [balance |-> 200, pnl |-> -10],
               [balance |-> 190, pnl |-> -2]}
MCDefaultLimits == [daily |-> 5, dailyOn |-> TRUE, monthly |-> 6, monthlyOn |-> TRUE]
\* For the liveness run: the account either stands or is 5% down.
MCTwoAccounts == {[balance |-> 200, pnl |-> 0], [balance |-> 200, pnl |-> -10]}
MCLimitSettings == {[MCDefaultLimits EXCEPT !.dailyOn = FALSE]}

\* Two parts of the state space: orders, while a day lasts; and days that pass, with cycles that
\* are aborted, but no orders.
MCBounds ==
    \/ day = 1 /\ aborts = 0
    \/ ops <= 1 /\ signals = 0 /\ tradeManager = "idle" /\ opensSinceHalt = 0
=============================================================================

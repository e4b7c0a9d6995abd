----------------------------- MODULE MCBacktest -----------------------------
(***************************************************************************)
(* Four bars, two strategies, and every list of at most two rounds at two  *)
(* prices; walk-forward ranges with a remainder, with bars before the      *)
(* range, with an empty training stretch and too small ones.               *)
(***************************************************************************)
EXTENDS Backtest

MCBars == 0 .. 3
MCOpen == [b \in MCBars |-> IF b = 2 THEN 4 ELSE 5]
MCClose == [b \in MCBars |-> IF b = 1 THEN 6 ELSE 5]
MCRounds == {r \in [signal : MCBars, exit : 0 .. 4, side : {1, -1}, price : {3, 7}, stop : {3}] :
                 r.exit > r.signal /\ (r.exit = 4 => r.price = 3)}
MCBatches == {<<>>} \cup {<<r>> : r \in MCRounds}
                 \cup {x \in MCRounds \X MCRounds : x[2].signal >= x[1].exit /\ x[1].side = 1}

MCOne == [name |-> "MACD", epicParts |-> 1, resParts |-> 1]
MCTwo == [name |-> "PineL4", epicParts |-> 2, resParts |-> 1]
MCMinute == [name |-> "MACD", epicParts |-> 1, resParts |-> 2]
MCRequests == {[labels |-> <<MCOne, MCTwo>>, sizing |-> "FIXED", ml |-> FALSE],
               [labels |-> <<MCOne>>, sizing |-> "RISK", ml |-> TRUE],
               [labels |-> <<MCMinute>>, sizing |-> "FIXED", ml |-> FALSE],
               [labels |-> <<MCTwo>>, sizing |-> "FIXED", ml |-> TRUE]}

MCLive == {<<>>,
           <<[deal |-> "d1", entry |-> 4, side |-> 1, price |-> 5]>>,
           <<[deal |-> "d1", entry |-> 5, side |-> -1, price |-> 6],
             [deal |-> "d2", entry |-> 12, side |-> 1, price |-> 4]>>}
MCDays == {0, 1}
MCCosts == {[day |-> 0, deal |-> "d1"], [day |-> 0, deal |-> "d3"], [day |-> 1, deal |-> "d2"]}

MCParams == {"p", "q"}
MCRanges == {[bars |-> 7, before |-> 1, splits |-> 2, num |-> 1, den |-> 2],
             [bars |-> 6, before |-> 0, splits |-> 2, num |-> 2, den |-> 3],
             [bars |-> 10, before |-> 0, splits |-> 3, num |-> 0, den |-> 1],
             [bars |-> 5, before |-> 0, splits |-> 2, num |-> 1, den |-> 2],
             [bars |-> 6, before |-> 0, splits |-> 2, num |-> 1, den |-> 1],
             [bars |-> 0, before |-> 0, splits |-> 1, num |-> 1, den |-> 2]}
\* Either combination may be better in the first bar of a window or in its others; a part of
\* what q earns is short.
MCGain(p, b, early, late) ==
    IF p = "p" THEN [all |-> 1, long |-> 1]
    ELSE LET g == IF b % 3 = 0 THEN early ELSE late IN [all |-> g, long |-> g - 1]
MCGains == {[p \in MCParams |-> [b \in -1 .. 9 |-> MCGain(p, b, early, late)]] :
                early \in {0, 3}, late \in {0, 3}}

MCStrategies == <<"MACD", "PineL4", "YuBrokenBottom">>
MCGroup(name, p) == [name |-> name, params |-> p]
MCGroups == {<<>>,
             <<MCGroup("none", "x")>>,
             <<MCGroup("PineL4", "x"), MCGroup("none", "y")>>,
             <<MCGroup("none", "x"), MCGroup("MACD", "y"), MCGroup("none", "z")>>,
             <<MCGroup("MACD", "x"), MCGroup("MACD", "y")>>}

\* The modes do not share the variables that start with several values: in each of them the
\* other modes' are fixed.
MCBounds ==
    /\ mode \in {"backtest", "audit"} =>
           args.bars = 7 /\ gain = [p \in MCParams |-> [b \in -1 .. 9 |-> MCGain(p, b, 0, 0)]]
    /\ mode \in {"backtest", "audit", "wfo", "optimize"} => given = <<>>
    /\ mode \in {"wfo", "optimize"} => bt.request.ml = FALSE /\ Len(bt.request.labels) = 2
=============================================================================

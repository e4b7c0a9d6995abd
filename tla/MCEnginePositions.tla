-------------------------- MODULE MCEnginePositions --------------------------
(* A bought and a sold deal at 10, prices around it and a trailing stop of 10%. *)
EXTENDS EnginePositions

CONSTANTS d1, d2

MCDeals == {d1, d2}
MCOneDeal == {d1}
MCLong == {d1}
MCEntry == [d \in MCDeals |-> 10]
MCFirstStop == [d \in MCDeals |-> IF d = d1 THEN 800 ELSE 0]
MCOneEntry == [d \in MCOneDeal |-> 10]
MCOneFirstStop == [d \in MCOneDeal |-> 800]
MCPrices == {10, 12, 14}
MCTwoPrices == {8, 10, 12}
MCSoldDeal == {d2}
MCSold == {}
MCSoldEntry == [d \in MCSoldDeal |-> 10]
MCSoldFirstStop == [d \in MCSoldDeal |-> 0]
MCLowPrices == {6, 8, 10}
=============================================================================

-------------------------- MODULE MCOrderExecution --------------------------
(* Two deals of one instrument, or a single deal. *)
EXTENDS OrderExecution, TLC

CONSTANTS e1, d1, d2, r1, r2

MCEpics == {e1}
MCDeals == {d1, d2}
MCOneDeal == {d1}
MCRefOf == d1 :> r1 @@ d2 :> r2
MCOneRef == d1 :> r1
MCSameEpic == [i \in {d1, d2, r1, r2} |-> e1]
MCOneEpic == [i \in {d1, r1} |-> e1]

\* A deal is exchanged for the other one together with its other identifier.
MCSymmetry == {p \in Permutations({d1, d2, r1, r2}) :
                  \A d \in MCDeals : p[d] \in MCDeals /\ p[MCRefOf[d]] = MCRefOf[p[d]]}

\* For the safety run: the list in Redis, the snapshots it is written from and the history
\* `seen` (Outages = TRUE) change no other variable, and only TypeOK speaks of them.
MCView == <<extVars, db, openPositions, [tm EXCEPT !.rows = {}],
            [task EXCEPT !.snapshot = {}], faults>>
=============================================================================

--------------------------- MODULE TradeLifecycle ---------------------------
(***************************************************************************)
(* What the trade records promise, whoever keeps them.  An order is        *)
(* executed or refused and recorded once at most, after that: an executed  *)
(* one under its position's identifier or, like a refused one, under an    *)
(* identifier of no position.  A position is closed, or a close of it      *)
(* refused, before its exit is recorded.  Nothing is taken back: a row     *)
(* that is not of a position stays open for ever, an exit stays.           *)
(* Recording may lag behind, or never happen.                              *)
(***************************************************************************)
CONSTANTS
    Deals,    \* what is ordered
    RefOf     \* the identifier of no position that a deal may be recorded under

VARIABLES
    market,   \* each deal at the broker: "none", "rejected", "open" or "closed"
    kept,     \* deals whose close was refused
    record    \* each identifier in the trades table: "absent", "open" or "closed"

lifeVars == <<market, kept, record>>

LifeInit ==
    /\ market = [d \in Deals |-> "none"]
    /\ kept = {}
    /\ record = [i \in Deals \cup {RefOf[d] : d \in Deals} |-> "absent"]

Decide(d, outcome) ==
    /\ market[d] = "none"
    /\ market' = [market EXCEPT ![d] = outcome]
    /\ UNCHANGED <<kept, record>>

Exit(d) ==
    /\ market[d] = "open"
    /\ market' = [market EXCEPT ![d] = "closed"]
    /\ UNCHANGED <<kept, record>>

RefuseExit(d) ==
    /\ market[d] = "open"
    /\ kept' = kept \cup {d}
    /\ UNCHANGED <<market, record>>

Record(d, id) ==
    /\ record[d] = "absent" /\ record[RefOf[d]] = "absent"
    /\ \/ id = d /\ market[d] \in {"open", "closed"}
       \/ id = RefOf[d] /\ market[d] # "none"
    /\ record' = [record EXCEPT ![id] = "open"]
    /\ UNCHANGED <<market, kept>>

RecordExit(d) ==
    /\ record[d] = "open"
    /\ market[d] = "closed" \/ d \in kept
    /\ record' = [record EXCEPT ![d] = "closed"]
    /\ UNCHANGED <<market, kept>>

LifeNext == \E d \in Deals :
    \/ \E outcome \in {"open", "rejected"} : Decide(d, outcome)
    \/ Exit(d) \/ RefuseExit(d)
    \/ \E id \in {d, RefOf[d]} : Record(d, id)
    \/ RecordExit(d)

LifeSpec == LifeInit /\ [][LifeNext]_lifeVars
=============================================================================

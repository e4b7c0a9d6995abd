----------------------- MODULE OrderExecution_proofs -----------------------
(***************************************************************************)
(* Proofs about OrderExecution, for every set of deals and instruments and *)
(* any number of faults, and any decisions of the broker: the types, the   *)
(* inductive invariant IInv, the safety properties that follow from it,    *)
(* and the refinement of TradeLifecycle.                                   *)
(***************************************************************************)
EXTENDS OrderExecution, TLAPS

(* The type invariant: rows, positions and control points have their types   *)
(* whatever the three programs do.                                           *)
THEOREM Typing == Spec => []TypeOK
<1>1. Init => TypeOK
  BY DealsAssumption, FaultsAssumption
  DEF Init, TypeOK, NoPositions, TmIdle, TmPcs, TaskIdle, TaskPcs, RequestIdle, DealStates
<1>2. TypeOK /\ [Next]_vars => TypeOK'
  <2> SUFFICES ASSUME TypeOK, [Next]_vars PROVE TypeOK'
    OBVIOUS
  <2> USE DealsAssumption, FaultsAssumption
      DEF TypeOK, TmPcs, TaskPcs, DealStates, Ids, Refs, Fault, NoFault
  <2>1. CASE DecideOpen \/ RejectClose
    BY <2>1 DEF DecideOpen, RejectClose, BrokerOthers, tmVars
  <2>2. CASE BrokerCloses \/ TransactionExpires
    BY <2>2 DEF BrokerCloses, TransactionExpires, BrokerOthers, tmVars
  <2>3. CASE OpenPosition
    <3>1. PICK d \in Deals : /\ broker' = [broker EXCEPT ![d] = "ordered"]
                            /\ tm' = [tm EXCEPT !.pc = "confirmOpen", !.deal = d,
                                              !.epic = EpicOf[d]]
      BY <2>3 DEF OpenPosition, Orders
    <3>2. EpicOf[d] \in Epics
      OBVIOUS
    <3>3. tm' \in [pc : TmPcs, deal : Ids \cup {NoDeal}, epic : Epics \cup {NoDeal},
                   rows : SUBSET Ids]
      BY <3>1, <3>2
    <3>4. broker' \in [Deals -> DealStates]
      BY <3>1
    <3>5. QED
      BY <2>3, <3>3, <3>4 DEF OpenPosition, TmOthers
  <2>4. CASE OpenAnswerLost
    BY <2>4 DEF OpenAnswerLost, Orders, TmOthers, tmVars
  <2>5. CASE ClosePosition
    <3>1. PICK t \in CloseTargets :
             /\ OrdersClose(t[1])
             /\ tm' = [tm EXCEPT !.pc = "confirmClose", !.deal = t[1], !.epic = t[2]]
      BY <2>5 DEF ClosePosition
    <3>2. t[1] \in Deals /\ t[2] \in Epics \cup {NoDeal}
      BY DEF CloseTargets
    <3>3. tm' \in [pc : TmPcs, deal : Ids \cup {NoDeal}, epic : Epics \cup {NoDeal},
                   rows : SUBSET Ids]
      BY <3>1, <3>2
    <3>4. broker' \in [Deals -> DealStates]
      BY <3>1, <3>2 DEF OrdersClose
    <3>5. QED
      BY <2>5, <3>3, <3>4 DEF ClosePosition, TmOthers
  <2>6. CASE CloseAnswerLost
    BY <2>6 DEF CloseAnswerLost, CloseTargets, OrdersClose, TmOthers, tmVars
  <2>7. CASE UpdateStop
    BY <2>7 DEF UpdateStop, TmOthers, extVars
  <2>8. CASE ConfirmOpen \/ ConfirmClose
    <3>1. PICK i \in Ids \cup {NoDeal}, pc \in {"insert", "recordClose"} :
             tm' = [tm EXCEPT !.pc = pc, !.deal = i]
      <4>1. CASE ConfirmOpen
        <5>1. tm.deal \in Ids /\ RefOf[tm.deal] \in Ids
          BY <4>1 DEF ConfirmOpen
        <5>2. \/ tm' = [tm EXCEPT !.pc = "insert"]
              \/ tm' = [tm EXCEPT !.pc = "insert", !.deal = RefOf[@]]
          BY <4>1 DEF ConfirmOpen
        <5>3. tm' = [tm EXCEPT !.pc = "insert", !.deal = tm.deal]
              \/ tm' = [tm EXCEPT !.pc = "insert", !.deal = RefOf[tm.deal]]
          BY <5>2
        <5>4. QED
          BY <5>1, <5>3
      <4>2. CASE ConfirmClose
        <5>1. tm' = [tm EXCEPT !.pc = "recordClose", !.deal = tm.deal]
          BY <4>2 DEF ConfirmClose
        <5>2. QED
          BY <5>1
      <4>3. QED
        BY <2>8, <4>1, <4>2
    <3>2. /\ tm' \in [pc : TmPcs, deal : Ids \cup {NoDeal}, epic : Epics \cup {NoDeal},
                      rows : SUBSET Ids]
          /\ tm'.pc # "confirmOpen"
      BY <3>1
    <3>3. faults' \in 0..MaxFaults
      <4>1. faults' = faults \/ (faults < MaxFaults /\ faults' = faults + 1)
        BY <2>8 DEF ConfirmOpen, ConfirmClose
      <4>2. QED
        BY <4>1
    <3>4. UNCHANGED <<broker, listed, kept, db, cache, openPositions, task, request, seen>>
      BY <2>8 DEF ConfirmOpen, ConfirmClose, TmOthers, extVars
    <3>5. QED
      BY <3>2, <3>3, <3>4
  <2>9. CASE InsertTrade
    BY <2>9 DEF InsertTrade, TmOthers, extVars
  <2>10. CASE RecordClose
    BY <2>10 DEF RecordClose, TmOthers, extVars
  <2>11. CASE ReadRows
    BY <2>11 DEF ReadRows, OpenInDb, TmIdle, TmOthers, extVars
  <2>12. CASE SetCache
    BY <2>12 DEF SetCache, TmIdle, TmOthers, extVars
  <2>13. CASE HandlerFails
    BY <2>13 DEF HandlerFails, TmIdle, TmOthers, extVars
  <2>14. CASE Restart
    BY <2>14 DEF Restart, TmIdle, NoPositions, TmOthers, extVars
  <2>15. CASE TaskFetch
    BY <2>15 DEF TaskFetch, OpenAtBroker, TaskOthers, extVars, tmVars
  <2>16. CASE TaskTransactions \/ TaskNotDue
    <3> DEFINE TaskType == [pc : TaskPcs, snapshot : SUBSET Deals, txs : SUBSET Deals,
                            todo : SUBSET Deals]
    <3>1. ASSUME TaskTransactions PROVE task' \in TaskType
      <4>1. task' = [task EXCEPT !.pc = "match", !.txs = listed]
        BY <3>1 DEF TaskTransactions
      <4>2. task \in TaskType /\ listed \in SUBSET Deals /\ "match" \in TaskPcs
        OBVIOUS
      <4>3. task' \in TaskType
        BY ONLY <4>1, <4>2
      <4>4. QED
        BY <4>3
    <3>2. ASSUME TaskNotDue PROVE task' \in TaskType
      <4>1. task' = [task EXCEPT !.pc = "write"]
        BY <3>2 DEF TaskNotDue
      <4>2. task \in TaskType /\ "write" \in TaskPcs
        OBVIOUS
      <4>3. task' \in TaskType
        BY ONLY <4>1, <4>2
      <4>4. QED
        BY <4>3
    <3>3. task' \in TaskType
      BY <2>16, <3>1, <3>2
    <3>4. UNCHANGED <<broker, listed, kept, db, cache, openPositions, tm, request, faults, seen>>
      BY <2>16 DEF TaskTransactions, TaskNotDue, TaskOthers, extVars, tmVars
    <3>5. QED
      BY <3>3, <3>4
  <2>17. CASE TaskMatch
    BY <2>17 DEF TaskMatch, OpenInDb, TaskOthers, extVars, tmVars
  <2>18. CASE TaskRecordExit
    BY <2>18 DEF TaskRecordExit, TaskOthers, extVars, tmVars
  <2>19. CASE TaskRecorded
    BY <2>19 DEF TaskRecorded, TaskOthers, extVars, tmVars
  <2>20. CASE TaskWriteCache \/ TaskFails
    BY <2>20 DEF TaskWriteCache, TaskFails, TaskIdle, TaskOthers, extVars, tmVars
  <2>21. CASE LimitsFetch
    BY <2>21 DEF LimitsFetch, OpenAtBroker, extVars, tmVars
  <2>22. CASE LimitsWriteCache
    BY <2>22 DEF LimitsWriteCache, RequestIdle, extVars, tmVars
  <2>23. CASE UNCHANGED vars
    BY <2>23 DEF vars, extVars, tmVars
  <2>24. QED
    BY <2>1, <2>2, <2>3, <2>4, <2>5, <2>6, <2>7, <2>8, <2>9, <2>10, <2>11, <2>12, <2>13,
       <2>14, <2>15, <2>16, <2>17, <2>18, <2>19, <2>20, <2>21, <2>22, <2>23
    DEF Next, TmStep, TaskStep
<1>3. QED
  BY <1>1, <1>2, PTL DEF Spec

-----------------------------------------------------------------------------
(* Lemmas about the broker.  It decides, closes and takes orders: what is    *)
(* executed or rejected stays so, a closed deal stays closed, and a close it *)
(* has accepted is executed or rejected.                                     *)

BrokerAdvances ==
    /\ \A d \in Deals :
          /\ Executed(d) => Executed(d)'
          /\ broker[d] # "none" => broker'[d] # "none"
          /\ broker[d] = "rejected" => broker'[d] = "rejected"
          /\ broker[d] = "closing" => broker'[d] \in {"closing", "closed"} \/ d \in kept'
          /\ broker[d] = "closed" => broker'[d] = "closed"
    /\ kept \subseteq kept' /\ \A d \in kept' \ kept : Executed(d)'

LEMMA OrderingAdvances ==
    ASSUME TypeOK, NEW d \in Deals, Orders(d) \/ OrdersClose(d), UNCHANGED kept
    PROVE  BrokerAdvances
BY DEF TypeOK, Orders, OrdersClose, InMarket, BrokerAdvances, Executed

LEMMA DecidingAdvances ==
    ASSUME TypeOK, DecideOpen \/ RejectClose \/ BrokerCloses PROVE BrokerAdvances
<1>1. CASE DecideOpen
  BY <1>1 DEF TypeOK, DecideOpen, BrokerAdvances, Executed
<1>2. CASE RejectClose
  BY <1>2 DEF TypeOK, RejectClose, BrokerAdvances, Executed
<1>3. CASE BrokerCloses
  BY <1>3 DEF TypeOK, BrokerCloses, InMarket, BrokerAdvances, Executed
<1>4. QED
  BY <1>1, <1>2, <1>3

LEMMA StandingAdvances ==
    ASSUME UNCHANGED <<broker, kept>> PROVE BrokerAdvances
BY DEF BrokerAdvances, Executed

\* A close, recorded or not, is of a deal.
LEMMA CloseTargetsAreDeals ==
    ASSUME NEW t \in CloseTargets PROVE t[1] \in Deals /\ t[2] \in Epics \cup {NoDeal}
BY DEF CloseTargets

\* A deal and its other identifier are two, and no two deals share either.
LEMMA IdsAreDistinct ==
    ASSUME NEW c \in Deals, NEW d \in Deals
    PROVE  /\ c \in Ids /\ RefOf[c] \in Ids /\ c # RefOf[d]
           /\ RefOf[c] = RefOf[d] => c = d
           /\ EpicOf[RefOf[c]] = EpicOf[c]
BY DealsAssumption DEF Ids, Refs

-----------------------------------------------------------------------------
(* IInv is inductive.  The steps that leave the records, the map and the     *)
(* locals alone preserve it because the broker only advances.                *)

\* What an action that writes no row has to keep of IInv, given its new types.
LEMMA WithoutRows ==
    ASSUME IInv, TypeOK', BrokerAdvances, UNCHANGED <<db, openPositions>>
    PROVE  RowsFollowDecisions' /\ MapNamesRecorded' /\ KeptInv'
<1>1. RowsFollowDecisions'
  BY DEF IInv, BrokerAdvances, RowsFollowDecisions
<1>2. MapNamesRecorded'
  BY DEF IInv, MapNamesRecorded
<1>3. KeptInv'
  BY DEF IInv, TypeOK, BrokerAdvances, KeptInv
<1>4. QED
  BY <1>1, <1>2, <1>3

LEMMA WithoutHandler ==
    ASSUME IInv, BrokerAdvances, UNCHANGED <<db, tm>>
    PROVE  HandlerInv'
<1>1. CASE tm.pc = "confirmOpen"
  BY <1>1 DEF IInv, HandlerInv, BrokerAdvances
<1>2. CASE tm.pc = "insert"
  <2>1. PICK d \in Deals :
           /\ tm.deal \in {d, RefOf[d]}
           /\ Executed(d) \/ (broker[d] = "rejected" /\ tm.deal = RefOf[d])
           /\ db[d] = "absent" /\ db[RefOf[d]] = "absent" /\ tm.epic = EpicOf[d]
    BY <1>2 DEF IInv, HandlerInv
  <2>2. Executed(d)' \/ (broker'[d] = "rejected" /\ tm.deal = RefOf[d])
    BY <2>1 DEF BrokerAdvances
  <2>3. QED
    BY <1>2, <2>1, <2>2 DEF HandlerInv
<1>3. CASE tm.pc \in {"confirmClose", "recordClose"}
  BY <1>3 DEF IInv, HandlerInv, BrokerAdvances
<1>4. CASE tm.pc \notin {"confirmOpen", "insert", "confirmClose", "recordClose"}
  BY <1>4 DEF HandlerInv
<1>5. QED
  BY <1>1, <1>2, <1>3, <1>4

LEMMA InvInit == Init => IInv
<1> SUFFICES ASSUME Init PROVE IInv
  OBVIOUS
<1>1. TypeOK
  BY DealsAssumption, FaultsAssumption
  DEF Init, TypeOK, NoPositions, TmIdle, TmPcs, TaskIdle, TaskPcs, RequestIdle, DealStates
<1>2. RowsFollowDecisions /\ MapNamesRecorded
  BY IdsAreDistinct DEF Init, RowsFollowDecisions, MapNamesRecorded, NoPositions
<1>3. QED
  BY <1>1, <1>2 DEF Init, IInv, HandlerInv, ListedInv, KeptInv, UnrecordedInv, InMarket,
                    TmIdle, TaskIdle

LEMMA InvBrokerSteps ==
    ASSUME IInv, TypeOK', DecideOpen \/ RejectClose \/ BrokerCloses \/ TransactionExpires
    PROVE  IInv'
<1> USE DEF IInv
<1>1. UNCHANGED <<db, openPositions, tm, task, faults>>
  BY DEF DecideOpen, RejectClose, BrokerCloses, TransactionExpires, BrokerOthers, NoFault, tmVars
<1>2. BrokerAdvances
  <2>1. TransactionExpires => UNCHANGED <<broker, kept>>
    BY DEF TransactionExpires
  <2>2. QED
    BY <2>1, DecidingAdvances, StandingAdvances
<1>3. RowsFollowDecisions' /\ MapNamesRecorded' /\ KeptInv' /\ HandlerInv'
  BY <1>1, <1>2, WithoutRows, WithoutHandler
<1>4. ListedInv'
  <2>1. CASE BrokerCloses
    <3>1. PICK d \in Deals : /\ broker' = [broker EXCEPT ![d] = "closed"]
                            /\ listed' = listed \cup {d}
      BY <2>1 DEF BrokerCloses
    <3>2. QED
      BY <1>1, <1>2, <3>1 DEF BrokerAdvances, ListedInv, TypeOK
  <2>2. CASE ~BrokerCloses
    <3>1. listed' \subseteq listed
      BY <2>2 DEF DecideOpen, RejectClose, TransactionExpires
    <3>2. QED
      BY <1>1, <1>2, <3>1 DEF BrokerAdvances, ListedInv, TypeOK
  <2>3. QED
    BY <2>1, <2>2
<1>5. UnrecordedInv'
  <2>1. CASE DecideOpen
    BY <1>1, <2>1 DEF DecideOpen, UnrecordedInv, InMarket, TypeOK
  <2>2. CASE RejectClose
    BY <1>1, <2>2 DEF RejectClose, UnrecordedInv, InMarket, TypeOK
  <2>3. CASE BrokerCloses
    BY <1>1, <2>3 DEF BrokerCloses, UnrecordedInv, InMarket, TypeOK
  <2>4. CASE TransactionExpires
    BY <1>1, <2>4 DEF TransactionExpires, UnrecordedInv, InMarket
  <2>5. QED
    BY <2>1, <2>2, <2>3, <2>4
<1>6. QED
  BY <1>3, <1>4, <1>5

\* While nothing has failed, an order that is not decided or has no row is the handler's: an
\* idle listener leaves no such deal.
LEMMA InvOpenSteps ==
    ASSUME IInv, TypeOK', OpenPosition \/ OpenAnswerLost
    PROVE  IInv'
<1> USE DEF IInv
<1>1. PICK d \in Deals : Orders(d) /\ (OpenPosition =>
           tm' = [tm EXCEPT !.pc = "confirmOpen", !.deal = d, !.epic = EpicOf[d]])
  BY DEF OpenPosition, OpenAnswerLost
<1>2. tm.pc = "idle" /\ UNCHANGED <<listed, kept, db, openPositions, task>>
  BY DEF OpenPosition, OpenAnswerLost, TmOthers, tmVars
<1>3. BrokerAdvances
  BY <1>1, <1>2, OrderingAdvances
<1>4. RowsFollowDecisions' /\ MapNamesRecorded' /\ KeptInv'
  BY <1>2, <1>3, WithoutRows
<1>5. ListedInv'
  BY <1>2, <1>3 DEF BrokerAdvances, ListedInv, TypeOK
<1>6. CASE OpenPosition
  <2>1. tm'.pc = "confirmOpen" /\ tm'.deal = d /\ tm'.epic = EpicOf[d]
    BY <1>1, <1>6 DEF TypeOK
  <2>2. db[d] = "absent" /\ db[RefOf[d]] = "absent"
    BY <1>1 DEF Orders, RowsFollowDecisions, Executed
  <2>3. HandlerInv'
    BY <1>1, <1>2, <2>1, <2>2 DEF Orders, HandlerInv, TypeOK
  <2>4. faults' = faults /\ broker' = [broker EXCEPT ![d] = "ordered"]
    BY <1>1, <1>6 DEF OpenPosition, NoFault, Orders
  <2>5. UnrecordedInv'
    <3> SUFFICES ASSUME faults = 0, NEW c \in Deals
                 PROVE  /\ broker'[c] = "ordered" => c = d
                        /\ broker'[c] \in {"open", "closing"} => db[c] # "absent" \/ c = d
      BY <1>2, <2>1, <2>4 DEF UnrecordedInv, InMarket
    <3>1. broker[c] # "ordered" /\ (broker[c] \in {"open", "closing"} => db[c] # "absent")
      BY <1>2 DEF UnrecordedInv, InMarket
    <3>2. c # d => broker'[c] = broker[c]
      BY <2>4 DEF TypeOK
    <3>3. QED
      BY <3>1, <3>2
  <2>6. QED
    BY <1>4, <1>5, <2>3, <2>5
<1>7. CASE OpenAnswerLost
  <2>1. UNCHANGED tm /\ faults' = faults + 1
    BY <1>7 DEF OpenAnswerLost, Fault, tmVars
  <2>2. HandlerInv'
    BY <1>2, <1>3, <2>1, WithoutHandler
  <2>3. UnrecordedInv'
    BY <2>1, FaultsAssumption DEF UnrecordedInv, TypeOK
  <2>4. QED
    BY <1>4, <1>5, <2>2, <2>3
<1>8. QED
  BY <1>6, <1>7

LEMMA InvCloseSteps ==
    ASSUME IInv, TypeOK', ClosePosition \/ CloseAnswerLost
    PROVE  IInv'
<1> USE DEF IInv
<1>1. PICK t \in CloseTargets : OrdersClose(t[1]) /\ (ClosePosition =>
           tm' = [tm EXCEPT !.pc = "confirmClose", !.deal = t[1], !.epic = t[2]])
  BY DEF ClosePosition, CloseAnswerLost
<1>2. t[1] \in Deals
  BY CloseTargetsAreDeals
<1>3. tm.pc = "idle" /\ UNCHANGED <<listed, kept, db, openPositions, task>>
  BY DEF ClosePosition, CloseAnswerLost, TmOthers, tmVars
<1>4. BrokerAdvances
  BY <1>1, <1>2, <1>3, OrderingAdvances
<1>5. RowsFollowDecisions' /\ MapNamesRecorded' /\ KeptInv'
  BY <1>3, <1>4, WithoutRows
<1>6. ListedInv'
  BY <1>3, <1>4 DEF BrokerAdvances, ListedInv, TypeOK
<1>7. CASE ClosePosition
  <2>1. tm'.pc = "confirmClose" /\ tm'.deal = t[1]
    BY <1>1, <1>7 DEF TypeOK
  <2>2. HandlerInv'
    BY <1>1, <1>2, <2>1 DEF OrdersClose, HandlerInv, TypeOK
  <2>3. /\ faults' = faults /\ broker' = [broker EXCEPT ![t[1]] = "closing"]
        /\ broker[t[1]] \in {"open", "closing"}
    BY <1>1, <1>7 DEF ClosePosition, NoFault, OrdersClose, InMarket
  <2>4. UnrecordedInv'
    <3> SUFFICES ASSUME faults = 0, NEW c \in Deals
                 PROVE  /\ broker'[c] # "ordered"
                        /\ broker'[c] \in {"open", "closing"} => db[c] # "absent"
      BY <1>3, <2>3 DEF UnrecordedInv, InMarket
    <3>1. broker[c] # "ordered" /\ (broker[c] \in {"open", "closing"} => db[c] # "absent")
      BY <1>3 DEF UnrecordedInv, InMarket
    <3>2. broker'[c] = IF c = t[1] THEN "closing" ELSE broker[c]
      BY <1>2, <2>3 DEF TypeOK
    <3>3. QED
      BY <2>3, <3>1, <3>2
  <2>5. QED
    BY <1>5, <1>6, <2>2, <2>4
<1>8. CASE CloseAnswerLost
  <2>1. UNCHANGED tm /\ faults' = faults + 1
    BY <1>8 DEF CloseAnswerLost, Fault, tmVars
  <2>2. HandlerInv'
    BY <1>3, <1>4, <2>1, WithoutHandler
  <2>3. UnrecordedInv'
    BY <2>1, FaultsAssumption DEF UnrecordedInv, TypeOK
  <2>4. QED
    BY <1>5, <1>6, <2>2, <2>3
<1>9. QED
  BY <1>7, <1>8

LEMMA InvConfirmSteps ==
    ASSUME IInv, TypeOK', ConfirmOpen \/ ConfirmClose
    PROVE  IInv'
<1> USE DEF IInv
<1>1. UNCHANGED <<broker, listed, kept, db, openPositions, task>>
  BY DEF ConfirmOpen, ConfirmClose, TmOthers, extVars
<1>2. RowsFollowDecisions' /\ MapNamesRecorded' /\ KeptInv' /\ ListedInv'
  BY <1>1, StandingAdvances, WithoutRows DEF ListedInv
<1>3. CASE ConfirmOpen
  <2>1. /\ tm.deal \in Deals /\ broker[tm.deal] \in DealStates \ {"none", "ordered"}
        /\ db[tm.deal] = "absent" /\ db[RefOf[tm.deal]] = "absent"
        /\ tm.epic = EpicOf[tm.deal] /\ tm.pc = "confirmOpen"
    BY <1>3 DEF ConfirmOpen, HandlerInv, TypeOK
  <2>2. /\ tm'.pc = "insert" /\ tm'.epic = tm.epic
        /\ \/ Executed(tm.deal) /\ tm'.deal = tm.deal /\ UNCHANGED faults
           \/ /\ tm'.deal = RefOf[tm.deal]
              /\ IF Executed(tm.deal) THEN faults' = faults + 1 ELSE UNCHANGED faults
    BY <1>3 DEF ConfirmOpen, Fault, NoFault, TypeOK
  <2>3. Executed(tm.deal) \/ broker[tm.deal] = "rejected"
    BY <2>1 DEF Executed, DealStates
  <2>4. HandlerInv'
    BY <1>1, <2>1, <2>2, <2>3 DEF HandlerInv, Executed
  <2>5. UnrecordedInv'
    <3>1. CASE faults' = faults + 1
      BY <3>1, FaultsAssumption DEF UnrecordedInv, TypeOK
    <3>2. CASE UNCHANGED faults /\ Executed(tm.deal) /\ tm'.deal = tm.deal
      BY <1>1, <2>1, <2>2, <3>2 DEF UnrecordedInv, InMarket, Executed
    <3>3. CASE UNCHANGED faults /\ ~Executed(tm.deal)
      BY <1>1, <2>1, <2>3, <3>3 DEF UnrecordedInv, InMarket, Executed
    <3>4. QED
      BY <2>2, <3>1, <3>2, <3>3
  <2>6. QED
    BY <1>2, <2>4, <2>5
<1>4. CASE ConfirmClose
  <2>1. /\ tm.pc = "confirmClose" /\ tm'.pc = "recordClose" /\ tm'.deal = tm.deal
        /\ UNCHANGED faults /\ broker[tm.deal] # "closing"
    BY <1>4 DEF ConfirmClose, NoFault, TypeOK
  <2>2. HandlerInv' /\ UnrecordedInv'
    BY <1>1, <2>1 DEF HandlerInv, UnrecordedInv, InMarket
  <2>3. QED
    BY <1>2, <2>2
<1>5. QED
  BY <1>3, <1>4

LEMMA InvListenerSteps ==
    ASSUME IInv, TypeOK', \/ InsertTrade \/ RecordClose \/ UpdateStop \/ ReadRows \/ SetCache
                          \/ HandlerFails \/ Restart
    PROVE  IInv'
<1> USE DEF IInv
<1>1. CASE InsertTrade
  <2>1. UNCHANGED <<broker, listed, kept, task, faults>> /\ tm.pc = "insert"
    BY <1>1 DEF InsertTrade, NoFault, TmOthers, extVars
  <2>2. PICK d \in Deals :
           /\ tm.deal \in {d, RefOf[d]}
           /\ Executed(d) \/ (broker[d] = "rejected" /\ tm.deal = RefOf[d])
           /\ db[d] = "absent" /\ db[RefOf[d]] = "absent" /\ tm.epic = EpicOf[d]
    BY <2>1 DEF HandlerInv
  <2>3. \A i \in Ids : db'[i] = IF i = tm.deal THEN "open" ELSE db[i]
    BY <1>1, <2>2 DEF InsertTrade, TypeOK
  <2>4. openPositions' = [openPositions EXCEPT ![tm.epic] = tm.deal]
    BY <1>1 DEF InsertTrade
  <2>5. RowsFollowDecisions'
    <3> SUFFICES ASSUME NEW c \in Deals
                 PROVE  /\ db'[c] # "absent" => Executed(c)'
                        /\ db'[c] = "closed" => broker'[c] = "closed" \/ c \in kept'
                        /\ db'[RefOf[c]] # "absent" =>
                              /\ Executed(c)' \/ broker'[c] = "rejected"
                              /\ db'[RefOf[c]] = "open" /\ db'[c] = "absent"
      BY DEF RowsFollowDecisions, Executed
    <3>1. Executed(c)' <=> Executed(c)
      BY <2>1 DEF Executed
    <3>2. c # RefOf[d] /\ d # RefOf[c] /\ (RefOf[c] = RefOf[d] <=> c = d)
      BY IdsAreDistinct
    <3>3. /\ db'[c] = IF c = tm.deal THEN "open" ELSE db[c]
          /\ db'[RefOf[c]] = IF RefOf[c] = tm.deal THEN "open" ELSE db[RefOf[c]]
      BY <2>3, IdsAreDistinct
    <3>4. CASE c = d
      BY <2>1, <2>2, <3>1, <3>2, <3>3, <3>4
    <3>5. CASE c # d
      BY <2>1, <2>2, <3>1, <3>2, <3>3, <3>5 DEF RowsFollowDecisions
    <3>6. QED
      BY <3>4, <3>5
  <2>6. MapNamesRecorded'
    BY <2>2, <2>3, <2>4, IdsAreDistinct, DealsAssumption DEF MapNamesRecorded, TypeOK
  <2>7. tm'.pc = "readRows"
    BY <1>1 DEF InsertTrade, TypeOK
  <2>8. HandlerInv' /\ ListedInv' /\ KeptInv'
    BY <2>1, <2>7 DEF HandlerInv, ListedInv, KeptInv, Executed
  <2>9. UnrecordedInv'
    <3> SUFFICES ASSUME faults = 0, NEW c \in Deals
                 PROVE  /\ broker[c] # "ordered"
                        /\ InMarket(c) => db'[c] # "absent"
      BY <2>1 DEF UnrecordedInv, InMarket
    <3>1. broker[c] # "ordered" /\ (InMarket(c) /\ db[c] = "absent" => tm.deal = c)
      BY <2>1 DEF UnrecordedInv
    <3>2. db'[c] = IF c = tm.deal THEN "open" ELSE db[c]
      BY <2>3, IdsAreDistinct
    <3>3. QED
      BY <3>1, <3>2
  <2>10. QED
    BY <2>5, <2>6, <2>8, <2>9
<1>2. CASE RecordClose
  <2>1. UNCHANGED <<broker, listed, kept, task, faults>> /\ tm.pc = "recordClose"
    BY <1>2 DEF RecordClose, NoFault, TmOthers, extVars
  <2>2. tm.deal \in Deals /\ (broker[tm.deal] = "closed" \/ tm.deal \in kept)
    BY <2>1 DEF HandlerInv
  <2>3. /\ tm.deal \in Ids
        /\ \A i \in Ids : db'[i] = IF i = tm.deal /\ db[i] # "absent" THEN "closed" ELSE db[i]
    BY <1>2, <2>2 DEF RecordClose, TypeOK, Ids
  <2>4. \A e \in Epics : openPositions'[e] \in {openPositions[e], NoDeal}
    BY <1>2 DEF RecordClose, TypeOK
  <2>5. RowsFollowDecisions'
    BY <2>1, <2>2, <2>3, IdsAreDistinct DEF RowsFollowDecisions, Executed
  <2>6. MapNamesRecorded'
    BY <2>3, <2>4 DEF MapNamesRecorded, TypeOK
  <2>7. tm'.pc = "readRows"
    BY <1>2 DEF RecordClose, TypeOK
  <2>8. HandlerInv' /\ ListedInv' /\ KeptInv'
    BY <2>1, <2>7 DEF HandlerInv, ListedInv, KeptInv, Executed
  <2>9. UnrecordedInv'
    <3> SUFFICES ASSUME faults = 0, NEW c \in Deals
                 PROVE  /\ broker[c] # "ordered"
                        /\ InMarket(c) => db'[c] # "absent"
      BY <2>1 DEF UnrecordedInv, InMarket
    <3>1. broker[c] # "ordered" /\ (InMarket(c) => db[c] # "absent")
      BY <2>1 DEF UnrecordedInv
    <3>2. QED
      BY <2>3, <3>1, IdsAreDistinct
  <2>10. QED
    BY <2>5, <2>6, <2>8, <2>9
<1>3. CASE UpdateStop \/ ReadRows \/ SetCache
  <2>1. UNCHANGED <<broker, listed, kept, db, openPositions, task, faults>>
    BY <1>3 DEF UpdateStop, ReadRows, SetCache, NoFault, TmOthers, extVars
  <2>2. /\ tm.pc \notin {"confirmOpen", "insert"}
        /\ tm'.pc \in {"idle", "readRows", "setCache"}
    <3>1. UpdateStop => tm.pc = "idle" /\ tm'.pc = "readRows"
      BY DEF UpdateStop, TypeOK
    <3>2. ReadRows => tm.pc = "readRows" /\ tm'.pc = "setCache"
      BY DEF ReadRows, TmIdle
    <3>3. SetCache => tm.pc = "setCache" /\ tm'.pc = "idle"
      BY DEF SetCache, TmIdle
    <3>4. QED
      BY <1>3, <3>1, <3>2, <3>3
  <2>3. RowsFollowDecisions' /\ MapNamesRecorded' /\ ListedInv' /\ KeptInv'
    BY <2>1, StandingAdvances, WithoutRows DEF ListedInv
  <2>4. HandlerInv' /\ UnrecordedInv'
    BY <2>1, <2>2 DEF HandlerInv, UnrecordedInv, InMarket
  <2>5. QED
    BY <2>3, <2>4
<1>4. CASE HandlerFails \/ Restart
  <2>1. UNCHANGED <<broker, listed, kept, db, task>> /\ faults' = faults + 1
    BY <1>4 DEF HandlerFails, Restart, Fault, TmOthers, extVars
  <2>2. openPositions' \in {openPositions, NoPositions} /\ tm'.pc \in {"idle", "readRows"}
    BY <1>4 DEF HandlerFails, Restart, TmIdle
  <2>3. RowsFollowDecisions' /\ HandlerInv' /\ ListedInv' /\ KeptInv'
    BY <2>1, <2>2 DEF RowsFollowDecisions, HandlerInv, ListedInv, KeptInv, Executed
  <2>4. MapNamesRecorded'
    BY <2>1, <2>2 DEF MapNamesRecorded, NoPositions
  <2>5. UnrecordedInv'
    BY <2>1, FaultsAssumption DEF UnrecordedInv, TypeOK
  <2>6. QED
    BY <2>3, <2>4, <2>5
<1>5. QED
  BY <1>1, <1>2, <1>3, <1>4

LEMMA InvTaskSteps ==
    ASSUME IInv, TypeOK', TaskStep \/ TaskNotDue \/ TaskFails
    PROVE  IInv'
<1> USE DEF IInv
<1>1. /\ UNCHANGED <<broker, listed, kept, openPositions, tm>>
      /\ faults' \in {faults, faults + 1}
  BY DEF TaskStep, TaskFetch, TaskTransactions, TaskMatch, TaskRecordExit, TaskRecorded,
         TaskWriteCache, TaskNotDue, TaskFails, Fault, NoFault, TaskOthers, extVars, tmVars
<1>2. KeptInv'
  BY <1>1 DEF KeptInv, Executed
<1>3. CASE TaskRecordExit
  <2>1. PICK d \in task.todo :
           /\ db' = IF db[d] = "open" THEN [db EXCEPT ![d] = "closed"] ELSE db
           /\ task' = [task EXCEPT !.todo = @ \ {d}]
    BY <1>3 DEF TaskRecordExit
  <2>2. d \in Deals /\ broker[d] = "closed"
    BY <2>1 DEF ListedInv, TypeOK
  <2>3. \A i \in Ids : db'[i] = IF i = d /\ db[i] = "open" THEN "closed" ELSE db[i]
    BY <2>1, <2>2 DEF TypeOK, Ids
  <2>4. RowsFollowDecisions'
    BY <1>1, <2>2, <2>3, IdsAreDistinct DEF RowsFollowDecisions, Executed
  <2>5. MapNamesRecorded'
    BY <1>1, <2>3 DEF MapNamesRecorded, TypeOK
  <2>6. ListedInv'
    BY <1>1, <2>1 DEF ListedInv, TypeOK
  <2>7. \A c \in Deals : /\ db'[c] = "absent" <=> db[c] = "absent"
                        /\ db'[RefOf[c]] = "absent" <=> db[RefOf[c]] = "absent"
    BY <2>3, IdsAreDistinct
  <2>8. HandlerInv'
    BY <1>1, <2>7 DEF HandlerInv, Executed
  <2>9. UnrecordedInv'
    BY <1>1, <1>3, <2>7 DEF TaskRecordExit, NoFault, UnrecordedInv, InMarket
  <2>10. QED
    BY <1>2, <2>4, <2>5, <2>6, <2>8, <2>9
<1>4. CASE ~TaskRecordExit
  <2>1. UNCHANGED db
    BY <1>4 DEF TaskStep, TaskFetch, TaskTransactions, TaskMatch, TaskRecorded, TaskWriteCache,
                TaskNotDue, TaskFails
  <2>2. RowsFollowDecisions' /\ MapNamesRecorded' /\ HandlerInv'
    BY <1>1, <2>1, StandingAdvances, WithoutRows, WithoutHandler
  <2>3. task'.txs \cup task'.todo \subseteq task.txs \cup task.todo \cup listed
    <3>1. CASE TaskFetch \/ TaskNotDue
      BY <3>1 DEF TaskFetch, TaskNotDue, TypeOK
    <3>2. CASE TaskTransactions
      BY <3>2 DEF TaskTransactions, TypeOK
    <3>3. CASE TaskMatch
      BY <3>3 DEF TaskMatch, TypeOK
    <3>4. CASE TaskRecorded
      BY <3>4 DEF TaskRecorded, TypeOK
    <3>5. CASE TaskWriteCache \/ TaskFails
      BY <3>5 DEF TaskWriteCache, TaskFails, TaskIdle
    <3>6. QED
      BY <1>4, <3>1, <3>2, <3>3, <3>4, <3>5 DEF TaskStep
  <2>4. ListedInv'
    BY <1>1, <2>3 DEF ListedInv
  <2>5. UnrecordedInv'
    BY <1>1, <2>1, FaultsAssumption DEF UnrecordedInv, InMarket, TypeOK
  <2>6. QED
    BY <1>2, <2>2, <2>4, <2>5
<1>5. QED
  BY <1>3, <1>4

LEMMA InvRequestSteps ==
    ASSUME IInv, TypeOK', LimitsFetch \/ LimitsWriteCache \/ UNCHANGED vars
    PROVE  IInv'
<1>1. UNCHANGED <<broker, listed, kept, db, openPositions, tm, task, faults>>
  BY DEF LimitsFetch, LimitsWriteCache, NoFault, vars, extVars, tmVars
<1>2. QED
  BY <1>1 DEF IInv, RowsFollowDecisions, MapNamesRecorded, HandlerInv, ListedInv, KeptInv,
              UnrecordedInv, Executed, InMarket

\* IInv is inductive: it holds when the programs start and every step of the trade manager,
\* the sync task, a limits request or the broker keeps it, whatever the broker decides.
THEOREM Invariance == Spec => []IInv
<1>1. Init => IInv
  BY InvInit
<1>2. IInv /\ TypeOK' /\ [Next]_vars => IInv'
  BY InvBrokerSteps, InvOpenSteps, InvCloseSteps, InvConfirmSteps, InvListenerSteps,
     InvTaskSteps, InvRequestSteps
  DEF Next, TmStep
<1>3. QED
  BY <1>1, <1>2, Typing, PTL DEF Spec

-----------------------------------------------------------------------------
(* What follows from it. *)

\* The table follows the broker's decisions, though _handle_open and _handle_close record
\* whatever the confirm says: rows of deals are of executed ones, exits of deals closed or
\* of which a close was rejected, and an order has one row at most, which stays open for
\* ever when it is of no position.
THEOREM TableFollows == Spec => []RowsFollowDecisions
<1>1. IInv => RowsFollowDecisions
  BY DEF IInv
<1>2. QED
  BY <1>1, Invariance, PTL

\* TradeService.open_positions names recorded identifiers of the right instrument only,
\* although opens, closes, rejections, failures and restarts rewrite it: a CLOSE without a
\* deal_id never closes a position of another instrument.
THEOREM MapIsRecorded == Spec => []MapNamesRecorded
<1>1. IInv => MapNamesRecorded
  BY DEF IInv
<1>2. QED
  BY <1>1, Invariance, PTL

\* While no answer is lost and nothing fails, every open position has its row, but for
\* the one that _handle_open is working on.
THEOREM PositionsAreRecorded == Spec => []OpenPositionsRecorded
<1>1. IInv => OpenPositionsRecorded
  BY DEF IInv, TypeOK, UnrecordedInv, OpenPositionsRecorded, OpenAtBroker
<1>2. QED
  BY <1>1, Invariance, PTL

-----------------------------------------------------------------------------
(* Refinement: a step of the three programs and the broker is a step of the  *)
(* deal lifecycle or changes neither the market, nor a refusal, nor a row.   *)

\* The state of a deal in the lifecycle.
InLife(state) == CASE state = "ordered" -> "none" [] state = "closing" -> "open" [] OTHER -> state

LEMMA MarketMoves ==
    ASSUME TypeOK, NEW d \in Deals, NEW state \in DealStates,
           broker' = [broker EXCEPT ![d] = state]
    PROVE  Market' = [Market EXCEPT ![d] = InLife(state)]
BY DEF TypeOK, Market, InLife

LEMMA MarketStays ==
    ASSUME TypeOK, NEW d \in Deals, NEW state \in DealStates,
           broker' = [broker EXCEPT ![d] = state], InLife(state) = InLife(broker[d])
    PROVE  UNCHANGED Market
BY DEF TypeOK, Market, InLife

LEMMA MarketValues ==
    ASSUME NEW d \in Deals
    PROVE  Market[d] = InLife(broker[d])
BY DEF Market, InLife

Refines == Life!LifeNext \/ UNCHANGED <<Market, kept, db>>

LEMMA DecideRefines ==
    ASSUME TypeOK, DecideOpen PROVE Refines
<1>1. PICK d \in Deals, outcome \in {"open", "rejected"} :
         broker[d] = "ordered" /\ broker' = [broker EXCEPT ![d] = outcome]
  BY DEF DecideOpen
<1>2. outcome \in DealStates /\ InLife(outcome) = outcome /\ Market[d] = "none"
  BY <1>1, MarketValues DEF DealStates, InLife
<1>3. Market' = [Market EXCEPT ![d] = outcome]
  BY <1>1, <1>2, MarketMoves
<1>4. Life!Decide(d, outcome)
  BY <1>2, <1>3 DEF Life!Decide, DecideOpen, BrokerOthers
<1>5. QED
  BY <1>4 DEF Refines, Life!LifeNext

LEMMA RejectRefines ==
    ASSUME TypeOK, RejectClose PROVE Refines
<1>1. PICK d \in Deals : /\ broker[d] = "closing" /\ kept' = kept \cup {d}
                        /\ broker' = [broker EXCEPT ![d] = "open"]
  BY DEF RejectClose
<1>2. InLife("open") = "open" /\ InLife(broker[d]) = "open" /\ "open" \in DealStates
  BY <1>1 DEF InLife, DealStates
<1>3. UNCHANGED Market /\ Market[d] = "open"
  BY <1>1, <1>2, MarketStays, MarketValues
<1>4. Life!RefuseExit(d)
  BY <1>1, <1>3 DEF Life!RefuseExit, RejectClose, BrokerOthers
<1>5. QED
  BY <1>4 DEF Refines, Life!LifeNext

LEMMA ClosingRefines ==
    ASSUME TypeOK, BrokerCloses PROVE Refines
<1>1. PICK d \in Deals : InMarket(d) /\ broker' = [broker EXCEPT ![d] = "closed"]
  BY DEF BrokerCloses
<1>2. InLife("closed") = "closed" /\ InLife(broker[d]) = "open" /\ "closed" \in DealStates
  BY <1>1 DEF InLife, DealStates, InMarket
<1>3. Market' = [Market EXCEPT ![d] = "closed"] /\ Market[d] = "open"
  BY <1>1, <1>2, MarketMoves, MarketValues
<1>4. Life!Exit(d)
  BY <1>3 DEF Life!Exit, BrokerCloses, BrokerOthers
<1>5. QED
  BY <1>4 DEF Refines, Life!LifeNext

\* An order the broker has accepted is not decided: nothing happens in the lifecycle.
LEMMA OrdersStutter ==
    ASSUME TypeOK, OpenPosition \/ OpenAnswerLost \/ ClosePosition \/ CloseAnswerLost
    PROVE  Refines
<1>1. PICK d \in Deals : Orders(d) \/ OrdersClose(d)
  BY CloseTargetsAreDeals DEF OpenPosition, OpenAnswerLost, ClosePosition, CloseAnswerLost
<1>2. \E state \in DealStates : /\ broker' = [broker EXCEPT ![d] = state]
                               /\ InLife(state) = InLife(broker[d])
  BY <1>1 DEF Orders, OrdersClose, InMarket, InLife, DealStates
<1>3. UNCHANGED Market
  BY <1>2, MarketStays
<1>4. QED
  BY <1>3 DEF Refines, OpenPosition, OpenAnswerLost, ClosePosition, CloseAnswerLost

LEMMA InsertRefines ==
    ASSUME IInv, InsertTrade PROVE Refines
<1>1. PICK d \in Deals :
         /\ tm.deal \in {d, RefOf[d]}
         /\ Executed(d) \/ (broker[d] = "rejected" /\ tm.deal = RefOf[d])
         /\ db[d] = "absent" /\ db[RefOf[d]] = "absent"
  BY DEF IInv, HandlerInv, InsertTrade
<1>2. UNCHANGED <<broker, kept>> /\ db' = [db EXCEPT ![tm.deal] = "open"]
  BY <1>1 DEF InsertTrade, extVars
<1>3. UNCHANGED Market
  BY <1>2 DEF Market
<1>4. /\ Executed(d) => Market[d] \in {"open", "closed"}
      /\ broker[d] = "rejected" => Market[d] # "none"
  BY MarketValues DEF Executed, InLife
<1>5. Life!Record(d, tm.deal)
  BY <1>1, <1>2, <1>3, <1>4 DEF Life!Record
<1>6. QED
  BY <1>1, <1>5 DEF Refines, Life!LifeNext

\* An exit is written for a deal that is closed, or of which a close was rejected.
LEMMA ExitRefines ==
    ASSUME TypeOK, NEW d \in Deals, broker[d] = "closed" \/ d \in kept,
           UNCHANGED <<broker, kept>>, db' \in {db, [db EXCEPT ![d] = "closed"]},
           db[d] # "open" => db' = db
    PROVE  Refines
<1>1. UNCHANGED Market
  BY DEF Market
<1>2. CASE db[d] = "open" /\ db' = [db EXCEPT ![d] = "closed"]
  <2>1. Market[d] = "closed" \/ d \in kept
    BY MarketValues DEF InLife
  <2>2. Life!RecordExit(d)
    BY <1>1, <1>2, <2>1 DEF Life!RecordExit
  <2>3. QED
    BY <2>2 DEF Refines, Life!LifeNext
<1>3. CASE db' = db
  BY <1>1, <1>3 DEF Refines
<1>4. QED
  BY <1>2, <1>3

LEMMA RecordCloseRefines ==
    ASSUME IInv, RecordClose PROVE Refines
<1>1. /\ tm.deal \in Deals /\ (broker[tm.deal] = "closed" \/ tm.deal \in kept)
      /\ UNCHANGED <<broker, kept>> /\ TypeOK
  BY DEF IInv, HandlerInv, RecordClose, extVars
<1>2. db' = IF db[tm.deal] = "absent" THEN db ELSE [db EXCEPT ![tm.deal] = "closed"]
  BY DEF RecordClose
<1>3. db[tm.deal] # "open" => db' = db
  BY <1>1, <1>2 DEF TypeOK, Ids
<1>4. QED
  BY <1>1, <1>2, <1>3, ExitRefines

LEMMA RecordExitRefines ==
    ASSUME IInv, TaskRecordExit PROVE Refines
<1>1. PICK d \in task.todo :
         db' = IF db[d] = "open" THEN [db EXCEPT ![d] = "closed"] ELSE db
  BY DEF TaskRecordExit
<1>2. d \in Deals /\ broker[d] = "closed" /\ UNCHANGED <<broker, kept>> /\ TypeOK
  BY DEF IInv, ListedInv, TypeOK, TaskRecordExit, TaskOthers, extVars
<1>3. QED
  BY <1>1, <1>2, ExitRefines

LEMMA StepRefines ==
    ASSUME IInv, [Next]_vars PROVE Refines
<1>1. UNCHANGED <<broker, kept, db>> => Refines
  BY DEF Refines, Market
<1>2. CASE \/ TransactionExpires \/ UpdateStop \/ HandlerFails \/ Restart
           \/ ConfirmOpen \/ ConfirmClose \/ ReadRows \/ SetCache
  BY <1>1, <1>2 DEF TransactionExpires, BrokerOthers, UpdateStop, HandlerFails, Restart,
                    ConfirmOpen, ConfirmClose, ReadRows, SetCache, extVars
<1>3. CASE \/ TaskFetch \/ TaskTransactions \/ TaskMatch \/ TaskRecorded
           \/ TaskWriteCache \/ TaskNotDue \/ TaskFails
  BY <1>1, <1>3 DEF TaskFetch, TaskTransactions, TaskMatch, TaskRecorded, TaskWriteCache,
                    TaskNotDue, TaskFails, TaskOthers, extVars
<1>4. CASE LimitsFetch \/ LimitsWriteCache \/ UNCHANGED vars
  BY <1>1, <1>4 DEF LimitsFetch, LimitsWriteCache, vars, extVars
<1>5. TypeOK
  BY DEF IInv
<1>6. QED
  BY <1>2, <1>3, <1>4, <1>5, DecideRefines, RejectRefines, ClosingRefines, OrdersStutter,
     InsertRefines, RecordCloseRefines, RecordExitRefines DEF Next, TmStep, TaskStep

\* The orders, the broker's decisions and the table implement the deal lifecycle, whoever
\* writes the rows and whatever is lost or rejected: each order is recorded once at most and
\* after its decision, each exit after the position was closed or its close refused.
THEOREM Refinement == Spec => LifecycleRefined
<1>1. Init => Life!LifeInit
  BY DEF Init, Market, Ids, Refs, Life!LifeInit
<1>2. IInv /\ [Next]_vars => [Life!LifeNext]_(Life!lifeVars)
  BY StepRefines DEF Refines, Life!lifeVars
<1>3. QED
  BY <1>1, <1>2, Invariance, PTL DEF Spec, LifecycleRefined, Life!LifeSpec
=============================================================================

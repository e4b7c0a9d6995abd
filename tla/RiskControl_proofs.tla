------------------------- MODULE RiskControl_proofs -------------------------
(***************************************************************************)
(* Proofs about RiskControl, for every account, limit setting, calendar    *)
(* and number of signals, requests and aborted passes: the types, the      *)
(* dates of the baselines, the life of a halt and what gets through one.   *)
(***************************************************************************)
EXTENDS RiskControl, TLAPS

-----------------------------------------------------------------------------
(* Lemmas about the operators.                                               *)

LEMMA MonthOfType ==
    ASSUME NEW d \in Nat PROVE MonthOf(d) \in Nat
BY BoundsAssumption DEF MonthOf

LEMMA MonthOfZero == MonthOf(0) = 0
BY BoundsAssumption DEF MonthOf

LEMMA MonthOfMonotone ==
    ASSUME NEW c \in Nat, NEW d \in Nat, c <= d PROVE MonthOf(c) <= MonthOf(d)
BY BoundsAssumption DEF MonthOf

LEMMA VerdictType ==
    ASSUME NEW risk, NEW start, NEW equity
    PROVE  Verdict(risk, start, equity) \in {"none", "daily", "monthly"}
BY DEF Verdict, HaltReason

-----------------------------------------------------------------------------
(* Types. *)

LEMMA TypesOfTheStart ==
    /\ NoRiskState \in RiskStateSet /\ NoStatus \in StatusSet /\ NoAccount \in AccountSet
    /\ SyncIdle \in [pc : SyncPcs, today : 0..MaxDay, acc : AccountSet]
    /\ EnforceIdle \in [pc : EnforcePcs, risk : RiskStateSet, start : [day : Nat, month : Nat],
                        base : 0..MaxDay, status : StatusSet]
<1>1. NoRiskState \in RiskStateSet
  BY LimitsAssumption DEF NoRiskState, RiskStateSet
<1>2. NoStatus \in StatusSet /\ NoAccount \in AccountSet
  BY DEF NoStatus, StatusSet, NoAccount, AccountSet
<1>3. QED
  BY <1>1, <1>2, BoundsAssumption DEF SyncIdle, SyncPcs, EnforceIdle, EnforcePcs

LEMMA TypeInit == Init => TypeOK
<1> SUFFICES ASSUME Init PROVE TypeOK
  OBVIOUS
<1>1. broker \in Accounts /\ 1 \in 1..MaxDay /\ 0 \in 0..MaxDay
  BY BoundsAssumption DEF Init
<1>2. accountState \in [start_day_balance : Nat, last_reset_day : 0..MaxDay,
                        start_month_balance : Nat, last_reset_month : Nat]
  BY <1>1 DEF Init, NoAccountState
<1>3. QED
  BY <1>1, <1>2, TypesOfTheStart, BoundsAssumption DEF Init, TypeOK

\* A write of RISK_STATE keeps the type of what it touches.
LEMMA SetRiskStateType ==
    ASSUME TypeOK, NEW r \in RiskStateSet, SetRiskState(r)
    PROVE  riskState' \in RiskStateSet /\ opensSinceHalt' \in Nat
BY DEF TypeOK, SetRiskState

LEMMA TypeRequests ==
    ASSUME TypeOK, Resume \/ ManualHalt \/ UpdateLimits
    PROVE  TypeOK'
<1> USE DEF RiskStateSet
<1>1. riskState' \in RiskStateSet /\ opensSinceHalt' \in Nat
  <2>1. CASE Resume
    <3>1. [riskState EXCEPT !.resume_override = TRUE, !.engine_halt_status = FALSE,
                            !.manual_halt_status = FALSE] \in RiskStateSet
      BY DEF TypeOK
    <3>2. QED
      BY <2>1, <3>1, SetRiskStateType DEF Resume
  <2>2. CASE ManualHalt
    <3>1. [riskState EXCEPT !.manual_halt_status = TRUE] \in RiskStateSet
      BY DEF TypeOK
    <3>2. QED
      BY <2>2, <3>1, SetRiskStateType DEF ManualHalt
  <2>3. CASE UpdateLimits
    <3>1. PICK l \in LimitSettings : SetRiskState([riskState EXCEPT !.limits = l])
      BY <2>3 DEF UpdateLimits
    <3>2. [riskState EXCEPT !.limits = l] \in RiskStateSet
      BY LimitsAssumption DEF TypeOK
    <3>3. QED
      BY <3>1, <3>2, SetRiskStateType
  <2>4. QED
    BY <2>1, <2>2, <2>3
<1>2. OperatorRequest
  BY DEF Resume, ManualHalt, UpdateLimits
<1>3. QED
  BY <1>1, <1>2, BoundsAssumption DEF TypeOK, OperatorRequest

LEMMA TypeSync ==
    ASSUME TypeOK, SyncPass \/ SyncFetchFails \/ SyncAbort
    PROVE  TypeOK'
<1> DEFINE SyncType == [pc : SyncPcs, today : 0..MaxDay, acc : AccountSet]
           StateType == [start_day_balance : Nat, last_reset_day : 0..MaxDay,
                         start_month_balance : Nat, last_reset_month : Nat]
<1> USE BoundsAssumption, TypesOfTheStart DEF SyncUnchanged, countVars, TypeOK, SyncPcs
<1>1. CASE SyncBegin
  <2>1. day \in 0..MaxDay
    OBVIOUS
  <2>2. sync' \in SyncType
    BY <1>1, <2>1 DEF SyncBegin
  <2>3. QED
    BY <1>1, <2>2 DEF SyncBegin
<1>2. CASE SyncFetch
  BY <1>2, AccountsAssumption DEF SyncFetch
<1>3. CASE SyncFetchFails
  BY <1>3 DEF SyncFetchFails
<1>4. CASE SyncSaveLatest
  BY <1>4 DEF SyncSaveLatest
<1>5. CASE SyncCheckDay
  BY <1>5 DEF SyncCheckDay
<1>6. CASE SyncEnsureMonth
  <2>1. accountState' \in StateType
    BY <1>6 DEF SyncEnsureMonth, AccountSet
  <2>2. QED
    BY <1>6, <2>1 DEF SyncEnsureMonth
<1>7. CASE SyncResetRisk
  <2>1. [riskState EXCEPT !.engine_halt_status = FALSE, !.engine_halt_reason = "none",
                          !.resume_override = FALSE] \in RiskStateSet
    BY DEF RiskStateSet
  <2>2. riskState' \in RiskStateSet /\ opensSinceHalt' \in Nat
    BY <1>7, <2>1, SetRiskStateType DEF SyncResetRisk
  <2>3. QED
    BY <1>7, <2>2 DEF SyncResetRisk
<1>8. CASE SyncResetDay
  <2>1. accountState' \in StateType
    BY <1>8 DEF SyncResetDay, AccountSet
  <2>2. sync' \in SyncType
    BY <1>8 DEF SyncResetDay
  <2>3. QED
    BY <1>8, <2>1, <2>2 DEF SyncResetDay
<1>9. CASE SyncResetMonth
  <2>1. MonthOf(sync.today) \in Nat
    BY MonthOfType
  <2>2. accountState' \in StateType
    BY <1>9, <2>1 DEF SyncResetMonth, AccountSet
  <2>3. QED
    BY <1>9, <2>2 DEF SyncResetMonth
<1>10. CASE SyncAbort
  BY <1>10 DEF SyncAbort, redisVars, orderVars
<1>11. QED
  BY <1>1, <1>2, <1>3, <1>4, <1>5, <1>6, <1>7, <1>8, <1>9, <1>10 DEF SyncPass

LEMMA TypeEnforce ==
    ASSUME TypeOK, EnforcePass \/ EnforceAbort
    PROVE  TypeOK'
<1> USE BoundsAssumption, TypesOfTheStart DEF EnforceUnchanged, countVars, TypeOK, EnforcePcs
<1>1. CASE EnforceReadRisk
  BY <1>1 DEF EnforceReadRisk
<1>2. CASE EnforceReadState
  BY <1>2 DEF EnforceReadState
<1>3. CASE EnforceReadLatest
  <2> DEFINE verdict == Verdict(enforce.risk, enforce.start,
                                accountLatest.balance + accountLatest.pnl)
             status == [isHalted |-> IsHalted(enforce.risk) \/ verdict # "none",
                        reason |-> IF verdict = "none" THEN enforce.risk.engine_halt_reason
                                   ELSE verdict,
                        canResume |-> IsHalted(enforce.risk) /\ ~enforce.risk.resume_override]
  <2>1. verdict \in {"none", "daily", "monthly"}
    BY VerdictType
  <2>2. status \in StatusSet
    BY <2>1 DEF StatusSet, RiskStateSet, IsHalted
  <2>3. enforce' = [enforce EXCEPT !.pc = IF verdict = "none" THEN "publish" ELSE "halt",
                                   !.risk = NoRiskState,
                                   !.start = [day |-> 0, month |-> 0],
                                   !.status = status]
    BY <1>3 DEF EnforceReadLatest
  <2> HIDE DEF verdict, status
  <2>4. enforce' \in [pc : EnforcePcs, risk : RiskStateSet, start : [day : Nat, month : Nat],
                      base : 0..MaxDay, status : StatusSet]
    BY <2>2, <2>3
  <2>5. QED
    BY <1>3, <2>4 DEF EnforceReadLatest
<1>4. CASE EnforceHalt
  <2>1. [riskState EXCEPT !.engine_halt_status = TRUE,
                          !.engine_halt_reason = enforce.status.reason] \in RiskStateSet
    BY DEF RiskStateSet, StatusSet
  <2>2. riskState' \in RiskStateSet /\ opensSinceHalt' \in Nat
    BY <1>4, <2>1, SetRiskStateType DEF EnforceHalt
  <2>3. QED
    BY <1>4, <2>2 DEF EnforceHalt
<1>5. CASE EnforcePublish
  BY <1>5 DEF EnforcePublish
<1>6. CASE EnforceAbort
  BY <1>6 DEF EnforceAbort, redisVars, orderVars
<1>7. QED
  BY <1>1, <1>2, <1>3, <1>4, <1>5, <1>6 DEF EnforcePass

LEMMA TypeOthers ==
    ASSUME TypeOK, \/ NewDay \/ MarketMoves \/ EngineSignal \/ PlaceOrder
                   \/ HandleOpenCheck \/ HandleOpenAbandon \/ HandleOpenExecute
                   \/ UNCHANGED vars
    PROVE  TypeOK'
<1> USE BoundsAssumption DEF TypeOK, OrderUnchanged, redisVars, countVars, orderVars
<1>1. CASE NewDay
  BY <1>1 DEF NewDay
<1>2. CASE MarketMoves
  BY <1>2 DEF MarketMoves
<1>3. CASE EngineSignal \/ PlaceOrder
  BY <1>3 DEF EngineSignal, PlaceOrder
<1>4. CASE HandleOpenCheck \/ HandleOpenAbandon \/ HandleOpenExecute
  BY <1>4 DEF HandleOpenCheck, HandleOpenAbandon, HandleOpenExecute
<1>5. CASE UNCHANGED vars
  BY <1>5 DEF vars
<1>6. QED
  BY <1>1, <1>2, <1>3, <1>4, <1>5

\* The four programs keep the types of the three hashes, the cached status and their locals,
\* in every interleaving and whatever passes are cut short.
THEOREM Typing == Spec => []TypeOK
<1>1. TypeOK /\ [Next]_vars => TypeOK'
  BY TypeRequests, TypeSync, TypeEnforce, TypeOthers DEF Next
<1>2. QED
  BY <1>1, TypeInit, PTL DEF Spec

-----------------------------------------------------------------------------
(* IInv is inductive. *)

\* Every write of RISK_STATE keeps the count of what got through the halt.
LEMMA SetRiskStateInv ==
    ASSUME TypeOK, AtMostOneOpenPerHalt, ClearedInv, NEW r, SetRiskState(r),
           UNCHANGED tradeManager
    PROVE  AtMostOneOpenPerHalt' /\ ClearedInv'
BY DEF SetRiskState, AtMostOneOpenPerHalt, ClearedInv, TypeOK

LEMMA InvInit == Init => IInv
<1> SUFFICES ASSUME Init PROVE IInv
  OBVIOUS
<1>1. TypeOK
  BY TypeInit
<1>2. AtMostOneOpenPerHalt /\ ClearedInv
  BY DEF Init, AtMostOneOpenPerHalt, ClearedInv
<1>3. SyncDates
  BY DEF Init, SyncDates, NoAccountState, SyncIdle
<1>4. MonthFollowsDay /\ MonthNeverAhead
  BY MonthOfZero DEF Init, MonthFollowsDay, MonthNeverAhead, NoAccountState
<1>5. QED
  BY <1>1, <1>2, <1>3, <1>4 DEF IInv

\* What leaves the dates alone.
LEMMA DatesStand ==
    ASSUME IInv, UNCHANGED <<day, sync, accountState, aborts>>
    PROVE  SyncDates' /\ MonthFollowsDay' /\ MonthNeverAhead'
BY DEF IInv, SyncDates, MonthFollowsDay, MonthNeverAhead

\* What leaves the orders and the halt alone.
LEMMA OrdersStand ==
    ASSUME IInv, UNCHANGED <<riskState, tradeManager, opensSinceHalt>>
    PROVE  AtMostOneOpenPerHalt' /\ ClearedInv'
BY DEF IInv, AtMostOneOpenPerHalt, ClearedInv

LEMMA InvSync ==
    ASSUME IInv, SyncPass \/ SyncFetchFails \/ SyncAbort
    PROVE  AtMostOneOpenPerHalt' /\ ClearedInv' /\ SyncDates'
           /\ MonthFollowsDay' /\ MonthNeverAhead'
<1> USE DEF SyncUnchanged, countVars
<1>1. AtMostOneOpenPerHalt' /\ ClearedInv'
  <2>1. CASE SyncResetRisk
    BY <2>1, SetRiskStateInv DEF IInv, SyncResetRisk
  <2>2. CASE ~SyncResetRisk
    <3>1. UNCHANGED <<riskState, tradeManager, opensSinceHalt>>
      BY <2>2 DEF SyncPass, SyncBegin, SyncFetch, SyncSaveLatest, SyncCheckDay, SyncEnsureMonth,
                  SyncResetDay, SyncResetMonth, SyncFetchFails, SyncAbort, redisVars, orderVars
    <3>2. QED
      BY <3>1, OrdersStand
  <2>3. QED
    BY <2>1, <2>2
<1>2. UNCHANGED day
  BY DEF SyncPass, SyncBegin, SyncFetch, SyncSaveLatest, SyncCheckDay, SyncEnsureMonth,
         SyncResetRisk, SyncResetDay, SyncResetMonth, SyncFetchFails, SyncAbort
<1>3. SyncDates' /\ MonthFollowsDay' /\ MonthNeverAhead'
  <2> USE DEF IInv, TypeOK
  <2>1. CASE SyncBegin
    <3>1. sync'.pc = "fetch" /\ sync'.today = day /\ sync.pc = "idle"
          /\ UNCHANGED <<accountState, aborts>>
      BY <2>1 DEF SyncBegin
    <3>2. QED
      BY <1>2, <3>1 DEF SyncDates, MonthFollowsDay, MonthNeverAhead
  <2>2. CASE SyncFetch \/ SyncSaveLatest \/ SyncResetRisk
    <3>1. /\ UNCHANGED <<accountState, aborts>> /\ sync'.today = sync.today
          /\ \/ sync.pc # "idle" /\ sync'.pc \in {"save", "check"}
             \/ sync.pc = "resetRisk" /\ sync'.pc = "resetDay"
          /\ sync.pc # "resetMonth"
      BY <2>2 DEF SyncFetch, SyncSaveLatest, SyncResetRisk
    <3>2. QED
      BY <1>2, <3>1 DEF SyncDates, MonthFollowsDay, MonthNeverAhead
  <2>3. CASE SyncCheckDay
    <3>1. /\ UNCHANGED <<accountState, aborts>> /\ sync.pc = "check"
          /\ \/ sync'.pc = "resetRisk" /\ sync'.today = sync.today
                /\ accountState.last_reset_day # sync.today
             \/ sync'.pc = "ensureMonth" /\ sync'.today = sync.today
             \/ sync'.pc = "idle" /\ sync'.today = 0
      BY <2>3 DEF SyncCheckDay, IsNewDay, SyncIdle
    <3>2. QED
      BY <1>2, <3>1 DEF SyncDates, MonthFollowsDay, MonthNeverAhead
  <2>4. CASE SyncFetchFails \/ SyncEnsureMonth
    <3>1. /\ sync'.pc = "idle" /\ sync'.today = 0 /\ UNCHANGED aborts
          /\ sync.pc # "resetMonth"
          /\ accountState'.last_reset_day = accountState.last_reset_day
          /\ accountState'.last_reset_month = accountState.last_reset_month
      BY <2>4 DEF SyncFetchFails, SyncEnsureMonth, SyncIdle
    <3>2. QED
      BY <1>2, <3>1 DEF SyncDates, MonthFollowsDay, MonthNeverAhead
  <2>5. CASE SyncResetDay
    <3>1. /\ accountState'.last_reset_day = sync.today
          /\ accountState'.last_reset_month = accountState.last_reset_month
          /\ accountState.last_reset_day < sync.today /\ sync.today <= day
      BY <2>5 DEF SyncResetDay, SyncDates
    <3>2. \/ sync'.pc = "resetMonth" /\ sync'.today = sync.today
          \/ /\ sync'.pc = "idle" /\ sync'.today = 0
             /\ accountState.last_reset_month = MonthOf(sync.today)
      BY <2>5 DEF SyncResetDay, SyncIdle
    <3>3. MonthOf(accountState.last_reset_day) \in Nat /\ MonthOf(sync.today) \in Nat
          /\ MonthOf(accountState.last_reset_day) <= MonthOf(sync.today)
      BY <3>1, MonthOfMonotone, MonthOfType
    <3>4. accountState'.last_reset_month <= MonthOf(accountState'.last_reset_day)
      BY <3>1, <3>3 DEF MonthNeverAhead
    <3>5. QED
      BY <1>2, <3>1, <3>2, <3>4 DEF SyncDates, MonthFollowsDay, MonthNeverAhead
  <2>6. CASE SyncResetMonth
    <3>1. /\ sync'.pc = "idle" /\ sync'.today = 0
          /\ accountState'.last_reset_day = accountState.last_reset_day
          /\ accountState'.last_reset_month = MonthOf(sync.today)
          /\ accountState.last_reset_day = sync.today
      BY <2>6 DEF SyncResetMonth, SyncIdle, SyncDates
    <3>2. MonthOf(sync.today) \in Nat
      BY MonthOfType
    <3>3. QED
      BY <1>2, <3>1, <3>2 DEF SyncDates, MonthFollowsDay, MonthNeverAhead
  <2>7. CASE SyncAbort
    <3>1. /\ sync'.pc = "idle" /\ sync'.today = 0 /\ aborts' = aborts + 1
          /\ UNCHANGED accountState
      BY <2>7 DEF SyncAbort, SyncIdle, redisVars
    <3>2. QED
      BY <1>2, <3>1, BoundsAssumption DEF SyncDates, MonthFollowsDay, MonthNeverAhead
  <2>8. QED
    BY <2>1, <2>2, <2>3, <2>4, <2>5, <2>6, <2>7 DEF SyncPass
<1>4. QED
  BY <1>1, <1>3

LEMMA InvRequests ==
    ASSUME IInv, Resume \/ ManualHalt \/ UpdateLimits
    PROVE  AtMostOneOpenPerHalt' /\ ClearedInv' /\ SyncDates'
           /\ MonthFollowsDay' /\ MonthNeverAhead'
<1>1. OperatorRequest
  BY DEF Resume, ManualHalt, UpdateLimits
<1>2. SyncDates' /\ MonthFollowsDay' /\ MonthNeverAhead'
  BY <1>1, DatesStand DEF OperatorRequest
<1>3. \E r : SetRiskState(r)
  BY DEF Resume, ManualHalt, UpdateLimits
<1>4. AtMostOneOpenPerHalt' /\ ClearedInv'
  BY <1>1, <1>3, SetRiskStateInv DEF IInv, OperatorRequest
<1>5. QED
  BY <1>2, <1>4

LEMMA InvEnforce ==
    ASSUME IInv, EnforcePass \/ EnforceAbort
    PROVE  AtMostOneOpenPerHalt' /\ ClearedInv' /\ SyncDates'
           /\ MonthFollowsDay' /\ MonthNeverAhead'
<1> USE DEF EnforceUnchanged, countVars
<1>1. CASE EnforceHalt
  <2>1. SyncDates' /\ MonthFollowsDay' /\ MonthNeverAhead'
    BY <1>1, DatesStand DEF EnforceHalt
  <2>2. AtMostOneOpenPerHalt' /\ ClearedInv'
    BY <1>1, SetRiskStateInv DEF IInv, EnforceHalt
  <2>3. QED
    BY <2>1, <2>2
<1>2. CASE EnforceReadRisk \/ EnforceReadState \/ EnforceReadLatest \/ EnforcePublish
  <2>1. UNCHANGED <<riskState, tradeManager, opensSinceHalt, day, sync, accountState, aborts>>
    BY <1>2 DEF EnforceReadRisk, EnforceReadState, EnforceReadLatest, EnforcePublish
  <2>2. QED
    BY <2>1, DatesStand, OrdersStand
<1>3. CASE EnforceAbort
  <2>1. UNCHANGED <<riskState, tradeManager, opensSinceHalt, day, sync, accountState>>
        /\ aborts' = aborts + 1
    BY <1>3 DEF EnforceAbort, redisVars, orderVars
  <2>2. SyncDates' /\ MonthFollowsDay' /\ MonthNeverAhead'
    BY <2>1, BoundsAssumption DEF IInv, TypeOK, SyncDates, MonthFollowsDay, MonthNeverAhead
  <2>3. QED
    BY <2>1, <2>2, OrdersStand
<1>4. QED
  BY <1>1, <1>2, <1>3 DEF EnforcePass

LEMMA InvOthers ==
    ASSUME IInv, \/ NewDay \/ MarketMoves \/ EngineSignal \/ PlaceOrder
                 \/ HandleOpenCheck \/ HandleOpenAbandon \/ HandleOpenExecute
                 \/ UNCHANGED vars
    PROVE  AtMostOneOpenPerHalt' /\ ClearedInv' /\ SyncDates'
           /\ MonthFollowsDay' /\ MonthNeverAhead'
<1> USE DEF OrderUnchanged, redisVars, countVars, orderVars
<1>1. CASE NewDay
  <2>1. /\ UNCHANGED <<riskState, tradeManager, opensSinceHalt, sync, accountState, aborts>>
        /\ day' = day + 1
    BY <1>1 DEF NewDay
  <2>2. SyncDates' /\ MonthFollowsDay' /\ MonthNeverAhead'
    BY <2>1, BoundsAssumption DEF IInv, TypeOK, SyncDates, MonthFollowsDay, MonthNeverAhead
  <2>3. QED
    BY <2>1, <2>2, OrdersStand
<1>2. CASE MarketMoves \/ EngineSignal \/ PlaceOrder \/ UNCHANGED vars
  BY <1>2, DatesStand, OrdersStand DEF MarketMoves, EngineSignal, PlaceOrder, vars
<1>3. CASE HandleOpenCheck \/ HandleOpenAbandon \/ HandleOpenExecute
  <2>1. SyncDates' /\ MonthFollowsDay' /\ MonthNeverAhead'
    BY <1>3, DatesStand DEF HandleOpenCheck, HandleOpenAbandon, HandleOpenExecute
  <2>2. AtMostOneOpenPerHalt' /\ ClearedInv'
    BY <1>3 DEF IInv, TypeOK, HandleOpenCheck, HandleOpenAbandon, HandleOpenExecute,
                AtMostOneOpenPerHalt, ClearedInv
  <2>3. QED
    BY <2>1, <2>2
<1>4. QED
  BY <1>1, <1>2, <1>3

\* IInv is inductive: it holds on a fresh deployment and every step of the two tasks, the
\* operator, the trade manager, the date or the account keeps it.
THEOREM Invariance == Spec => []IInv
<1>1. IInv /\ TypeOK' /\ [Next]_vars => IInv'
  BY InvSync, InvRequests, InvEnforce, InvOthers DEF IInv, Next
<1>2. QED
  BY <1>1, InvInit, Typing, PTL DEF Spec

-----------------------------------------------------------------------------
(* What follows from it. *)

\* Whatever signals are waiting and however the halts, resumes and resets interleave, at
\* most the order that _handle_open had already cleared is executed during a halt.
THEOREM OneOpenPerHalt == Spec => []AtMostOneOpenPerHalt
<1>1. IInv => AtMostOneOpenPerHalt
  BY DEF IInv
<1>2. QED
  BY <1>1, Invariance, PTL

\* The monthly baseline of AccountSyncTask belongs to the month of the daily one, unless a
\* pass was cut short between the two writes.
THEOREM MonthFollows == Spec => []MonthFollowsDay
<1>1. IInv => MonthFollowsDay
  BY DEF IInv
<1>2. QED
  BY <1>1, Invariance, PTL

\* Even with passes cut short anywhere, the monthly baseline never names a later month than
\* the daily one.
THEOREM MonthStaysBehind == Spec => []MonthNeverAhead
<1>1. IInv => MonthNeverAhead
  BY DEF IInv
<1>2. QED
  BY <1>1, Invariance, PTL

\* What a step that leaves RISK_STATE alone, or writes it, does to the halts.
LEMMA HaltSteps ==
    ASSUME [Next]_vars
    PROVE  \/ UNCHANGED riskState
           \/ Resume \/ ManualHalt \/ UpdateLimits \/ SyncResetRisk \/ EnforceHalt
BY DEF Next, NewDay, MarketMoves, SyncPass, SyncBegin, SyncFetch, SyncSaveLatest, SyncCheckDay,
       SyncEnsureMonth, SyncResetDay, SyncResetMonth, SyncFetchFails, SyncAbort, EnforcePass,
       EnforceReadRisk, EnforceReadState, EnforceReadLatest, EnforcePublish, EnforceAbort,
       EngineSignal, PlaceOrder, HandleOpenCheck, HandleOpenAbandon, HandleOpenExecute,
       OrderUnchanged, redisVars, vars

\* An automatic halt is lifted by the operator or by the first sync of a new day only: no
\* stale read of either task re-arms trading within the day.
THEOREM HaltPersists == Spec => HaltPersistsWithinDay
<1>1. ASSUME IInv, [Next]_vars, riskState.engine_halt_status, ~riskState'.engine_halt_status
      PROVE  riskState'.resume_override \/ accountState.last_reset_day < day
  <2> USE DEF IInv, TypeOK, RiskStateSet, SetRiskState
  <2>1. CASE Resume
    BY <2>1 DEF Resume
  <2>2. CASE ManualHalt \/ UpdateLimits
    BY <1>1, <2>2 DEF ManualHalt, UpdateLimits
  <2>3. CASE SyncResetRisk
    BY <1>1, <2>3 DEF SyncResetRisk, SyncDates
  <2>4. CASE EnforceHalt
    BY <1>1, <2>4 DEF EnforceHalt
  <2>5. QED
    BY <1>1, <2>1, <2>2, <2>3, <2>4, HaltSteps
<1>2. QED
  BY <1>1, Invariance, PTL DEF Spec, HaltPersistsWithinDay

\* A manual halt ends only by a resume: neither the day reset nor the breaker clears it.
THEOREM ManualHaltStays == Spec => ManualHaltPersists
<1>1. ASSUME TypeOK, [Next]_vars, riskState.manual_halt_status, ~riskState'.manual_halt_status
      PROVE  riskState'.resume_override
  <2> USE DEF TypeOK, RiskStateSet, SetRiskState
  <2>1. CASE Resume
    BY <2>1 DEF Resume
  <2>2. CASE ManualHalt \/ UpdateLimits \/ SyncResetRisk \/ EnforceHalt
    BY <1>1, <2>2 DEF ManualHalt, UpdateLimits, SyncResetRisk, EnforceHalt
  <2>3. QED
    BY <1>1, <2>1, <2>2, HaltSteps
<1>2. QED
  BY <1>1, Typing, PTL DEF Spec, ManualHaltPersists

\* The daily baseline moves only together with its date: the losses of a day are never
\* measured from a balance already reduced by them.
THEOREM BaselineFixed == Spec => BaselineFixedWithinDay
<1>1. ASSUME IInv, [Next]_vars,
             accountState'.start_day_balance # accountState.start_day_balance
      PROVE  accountState'.last_reset_day > accountState.last_reset_day
  <2>1. SyncResetDay \/ SyncEnsureMonth \/ SyncResetMonth \/ UNCHANGED accountState
    BY <1>1 DEF Next, Resume, ManualHalt, UpdateLimits, OperatorRequest, NewDay, MarketMoves,
       SyncPass, SyncBegin, SyncFetch, SyncSaveLatest, SyncCheckDay, SyncResetRisk,
       SyncFetchFails, SyncAbort, EnforcePass, EnforceReadRisk, EnforceReadState,
       EnforceReadLatest, EnforceHalt, EnforcePublish, EnforceAbort, EnforceUnchanged,
       EngineSignal, PlaceOrder, HandleOpenCheck, HandleOpenAbandon, HandleOpenExecute,
       OrderUnchanged, redisVars, vars
  <2> USE DEF IInv, TypeOK
  <2>2. CASE SyncResetDay
    <3>1. accountState'.last_reset_day = sync.today
      BY <1>1, <2>2 DEF SyncResetDay
    <3>2. accountState.last_reset_day < sync.today
      BY <1>1, <2>2 DEF SyncResetDay, SyncDates
    <3>3. QED
      BY <1>1, <3>1, <3>2
  <2>3. CASE SyncEnsureMonth \/ SyncResetMonth
    BY <1>1, <2>3 DEF SyncEnsureMonth, SyncResetMonth
  <2>4. QED
    BY <1>1, <2>1, <2>2, <2>3
<1>2. QED
  BY <1>1, Invariance, PTL DEF Spec, BaselineFixedWithinDay
=============================================================================

---------------------------- MODULE RiskControl ----------------------------
(***************************************************************************)
(* The circuit breaker of the trading system.  Four programs meet in three *)
(* Redis hashes and one Redis string:                                      *)
(*                                                                         *)
(*   - AccountSyncTask (api_server, about every 2 s) copies the broker's   *)
(*     account figures to ACCOUNT_LATEST and, once per day, clears         *)
(*     RISK_STATE and re-bases ACCOUNT_STATE;                              *)
(*   - RiskEnforcementTask (api_server, about every 0.5 s) reads the       *)
(*     hashes, trips the breaker on a drawdown and publishes               *)
(*     CACHED_RISK_STATUS;                                                 *)
(*   - RiskService (api_server, on HTTP requests) resumes, halts and sets  *)
(*     limits;                                                             *)
(*   - TradeService (trade_manager, one signal at a time) asks RISK_STATE  *)
(*     whether the system is halted before it opens a position.            *)
(*                                                                         *)
(* One Redis command is one step; everything that happens between two      *)
(* awaits of one program may be interleaved with the others.               *)
(***************************************************************************)
EXTENDS Integers

CONSTANTS
    Accounts,       \* [balance, pnl] figures the broker may report
    LimitSettings,  \* limit settings the operator may choose
    DefaultLimits,  \* the settings in force while RISK_STATE has none
    MaxDay,         \* bound: trading days of a behaviour
    DaysPerMonth,   \* length of a month, in days
    MaxSignals,     \* bound: open signals waiting in TRADE_SIGNALS
    MaxOps,         \* bound: operator requests of a behaviour
    MaxAborts       \* bound: passes of the sync task cut short by an exception

AccountSet == [balance : Nat, pnl : Int]
LimitSet == [daily : Int, dailyOn : BOOLEAN, monthly : Int, monthlyOn : BOOLEAN]

ASSUME AccountsAssumption == Accounts \subseteq AccountSet
ASSUME LimitsAssumption == /\ LimitSettings \subseteq LimitSet
                           /\ DefaultLimits \in LimitSet
ASSUME BoundsAssumption == /\ MaxDay \in Nat \ {0} /\ DaysPerMonth \in Nat \ {0}
                           /\ MaxSignals \in Nat /\ MaxOps \in Nat /\ MaxAborts \in Nat

VARIABLES
    day,            \* the local date (UTC+8)
    broker,         \* the account as Capital.com would report it now
    riskState,      \* Redis hash RISK_STATE
    accountState,   \* Redis hash ACCOUNT_STATE (0: the field does not exist)
    accountLatest,  \* Redis hash ACCOUNT_LATEST
    cachedStatus,   \* Redis string CACHED_RISK_STATUS
    sync,           \* control point and locals of AccountSyncTask
    enforce,        \* control point and locals of RiskEnforcementTask
    signals,        \* open signals published on TRADE_SIGNALS, not yet handled
    tradeManager,   \* control point of TradeService._handle_open
    ops, aborts,    \* counters for the bounds MaxOps and MaxAborts
    \* History variables, read by properties only.
    opensSinceHalt, \* positions opened since the system became halted
    haltBase        \* the day of the baseline the last automatic halt was computed from

redisVars == <<riskState, accountState, accountLatest, cachedStatus>>
orderVars == <<signals, tradeManager, opensSinceHalt>>
countVars == <<ops, aborts>>
vars == <<day, broker, redisVars, sync, enforce, orderVars, countVars, haltBase>>

-----------------------------------------------------------------------------
(* Dates and percentages *)

MonthOf(d) == (d + DaysPerMonth - 1) \div DaysPerMonth

\* Math.Round(100 * n / d, 2), in hundredths of a percent: ties go to the even neighbour.
Percent(n, d) ==
    LET q == (n * 10000) \div d
        r == (n * 10000) % d
    IN  IF 2 * r > d \/ (2 * r = d /\ q % 2 = 1) THEN q + 1 ELSE q

PnLPct(equity, start) == IF start > 0 THEN Percent(equity - start, start) ELSE 0

AbsOf(n) == IF n < 0 THEN -n ELSE n

\* The drawdown test, the daily limit first.
HaltReason(limits, start, equity) ==
    IF limits.dailyOn /\ PnLPct(equity, start.day) <= -100 * AbsOf(limits.daily) THEN "daily"
    ELSE IF limits.monthlyOn /\ PnLPct(equity, start.month) <= -100 * AbsOf(limits.monthly)
         THEN "monthly" ELSE "none"

\* RiskStatus.IsHalted: what the panel shows and what PlaceOrder asks.
IsHalted(risk) == risk.engine_halt_status \/ risk.manual_halt_status

\* TradeService.is_system_halted: what the trade manager asks.
SystemHalted(risk) == IsHalted(risk) /\ ~risk.resume_override

-----------------------------------------------------------------------------
(* The hashes of a fresh deployment, and the two tasks between two passes. *)

NoRiskState == [engine_halt_status |-> FALSE, engine_halt_reason |-> "none",
                manual_halt_status |-> FALSE, resume_override |-> FALSE,
                limits |-> DefaultLimits]
NoAccountState == [start_day_balance |-> 0, last_reset_day |-> 0,
                   start_month_balance |-> 0, last_reset_month |-> 0]
NoAccount == [balance |-> 0, pnl |-> 0]
NoStatus == [isHalted |-> FALSE, reason |-> "none", canResume |-> FALSE]
SyncIdle == [pc |-> "idle", today |-> 0, acc |-> NoAccount]
EnforceIdle == [pc |-> "idle", risk |-> NoRiskState, start |-> [day |-> 0, month |-> 0],
                base |-> 0, status |-> NoStatus]

Init ==
    /\ day = 1
    /\ broker \in Accounts
    /\ riskState = NoRiskState
    /\ accountState = NoAccountState
    /\ accountLatest = NoAccount
    /\ cachedStatus = NoStatus
    /\ sync = SyncIdle
    /\ enforce = EnforceIdle
    /\ signals = 0
    /\ tradeManager = "idle"
    /\ ops = 0 /\ aborts = 0
    /\ opensSinceHalt = 0 /\ haltBase = 0

-----------------------------------------------------------------------------
(* Every write of RISK_STATE is one HSET of the fields in r.                 *)

SetRiskState(r) ==
    /\ riskState' = r
    /\ opensSinceHalt' = IF SystemHalted(r) THEN opensSinceHalt ELSE 0

-----------------------------------------------------------------------------
(* The world outside: the date and the account move at any time. *)

NewDay ==
    /\ day < MaxDay
    /\ day' = day + 1
    /\ UNCHANGED <<broker, redisVars, sync, enforce, orderVars, countVars, haltBase>>

MarketMoves ==
    /\ broker' \in Accounts
    /\ UNCHANGED <<day, redisVars, sync, enforce, orderVars, countVars, haltBase>>

-----------------------------------------------------------------------------
(* RiskService: the operator's three requests. *)

OperatorRequest ==
    /\ ops < MaxOps
    /\ ops' = ops + 1
    /\ UNCHANGED <<day, broker, accountState, accountLatest, cachedStatus, sync, enforce,
                   signals, tradeManager, aborts, haltBase>>

Resume ==
    /\ SetRiskState([riskState EXCEPT !.resume_override = TRUE,
                                      !.engine_halt_status = FALSE,
                                      !.manual_halt_status = FALSE])
    /\ OperatorRequest

ManualHalt ==
    /\ SetRiskState([riskState EXCEPT !.manual_halt_status = TRUE])
    /\ OperatorRequest

UpdateLimits ==
    /\ \E l \in LimitSettings : SetRiskState([riskState EXCEPT !.limits = l])
    /\ OperatorRequest

-----------------------------------------------------------------------------
(* AccountSyncTask, the account part of one pass: the date is taken first,   *)
(* then the account is fetched, saved, and the baselines brought up to date. *)

SyncUnchanged == UNCHANGED <<day, broker, enforce, signals, tradeManager, countVars, haltBase,
                             cachedStatus>>

SyncBegin ==
    /\ sync.pc = "idle"
    /\ sync' = [sync EXCEPT !.pc = "fetch", !.today = day]
    /\ SyncUnchanged
    /\ UNCHANGED <<riskState, accountState, accountLatest, opensSinceHalt>>

SyncFetch ==
    /\ sync.pc = "fetch"
    /\ sync' = [sync EXCEPT !.pc = "save", !.acc = broker]
    /\ SyncUnchanged
    /\ UNCHANGED <<riskState, accountState, accountLatest, opensSinceHalt>>

\* No account in the answer: the account part of the pass is skipped.
SyncFetchFails ==
    /\ sync.pc = "fetch"
    /\ sync' = SyncIdle
    /\ SyncUnchanged
    /\ UNCHANGED <<riskState, accountState, accountLatest, opensSinceHalt>>

\* Mutant: the figures are saved only on the first pass of a day.
SyncSaveLatestOncePerDay ==
    /\ sync.pc = "save"
    /\ accountLatest' = IF accountState.last_reset_day # sync.today THEN sync.acc
                        ELSE accountLatest
    /\ sync' = [sync EXCEPT !.pc = "check"]
    /\ SyncUnchanged
    /\ UNCHANGED <<riskState, accountState, opensSinceHalt>>

SyncSaveLatest ==
    /\ sync.pc = "save"
    /\ accountLatest' = sync.acc
    /\ sync' = [sync EXCEPT !.pc = "check"]
    /\ SyncUnchanged
    /\ UNCHANGED <<riskState, accountState, opensSinceHalt>>

\* Mutants: the date test is missing; the date test only notices a missing baseline.
IsNewDayAlways == TRUE
IsNewDayOnce == accountState.last_reset_day = 0

\* ACCOUNT_STATE is read here; no other program writes it.
IsNewDay == accountState.last_reset_day # sync.today

SyncCheckDay ==
    /\ sync.pc = "check"
    /\ sync' = IF IsNewDay THEN [sync EXCEPT !.pc = "resetRisk"]
               ELSE IF accountState.start_month_balance = 0
                    THEN [sync EXCEPT !.pc = "ensureMonth"] ELSE SyncIdle
    /\ SyncUnchanged
    /\ UNCHANGED <<riskState, accountState, accountLatest, opensSinceHalt>>

\* Mutant: the missing monthly baseline is written to the daily field.
SyncEnsureMonthWrongField ==
    /\ sync.pc = "ensureMonth"
    /\ accountState' = [accountState EXCEPT !.start_day_balance = sync.acc.balance]
    /\ sync' = SyncIdle
    /\ SyncUnchanged
    /\ UNCHANGED <<riskState, accountLatest, opensSinceHalt>>

SyncEnsureMonth ==
    /\ sync.pc = "ensureMonth"
    /\ accountState' = [accountState EXCEPT !.start_month_balance = sync.acc.balance]
    /\ sync' = SyncIdle
    /\ SyncUnchanged
    /\ UNCHANGED <<riskState, accountLatest, opensSinceHalt>>

\* Mutant: the day reset also clears the operator's halt.
SyncResetRiskClearsManual ==
    /\ sync.pc = "resetRisk"
    /\ SetRiskState([riskState EXCEPT !.engine_halt_status = FALSE,
                                      !.engine_halt_reason = "none",
                                      !.manual_halt_status = FALSE,
                                      !.resume_override = FALSE])
    /\ sync' = [sync EXCEPT !.pc = "resetDay"]
    /\ SyncUnchanged
    /\ UNCHANGED <<accountState, accountLatest>>

SyncResetRisk ==
    /\ sync.pc = "resetRisk"
    /\ SetRiskState([riskState EXCEPT !.engine_halt_status = FALSE,
                                      !.engine_halt_reason = "none",
                                      !.resume_override = FALSE])
    /\ sync' = [sync EXCEPT !.pc = "resetDay"]
    /\ SyncUnchanged
    /\ UNCHANGED <<accountState, accountLatest>>

\* Mutants: the month is never re-based; the date of the daily baseline is not written.
SyncResetDayOnly ==
    /\ sync.pc = "resetDay"
    /\ accountState' = [accountState EXCEPT !.start_day_balance = sync.acc.balance,
                                            !.last_reset_day = sync.today]
    /\ sync' = SyncIdle
    /\ SyncUnchanged
    /\ UNCHANGED <<riskState, accountLatest, opensSinceHalt>>

SyncResetDayUndated ==
    /\ sync.pc = "resetDay"
    /\ accountState' = [accountState EXCEPT !.start_day_balance = sync.acc.balance]
    /\ sync' = IF accountState.last_reset_month # MonthOf(sync.today)
               THEN [sync EXCEPT !.pc = "resetMonth"] ELSE SyncIdle
    /\ SyncUnchanged
    /\ UNCHANGED <<riskState, accountLatest, opensSinceHalt>>

SyncResetDay ==
    /\ sync.pc = "resetDay"
    /\ accountState' = [accountState EXCEPT !.start_day_balance = sync.acc.balance,
                                            !.last_reset_day = sync.today]
    /\ sync' = IF accountState.last_reset_month # MonthOf(sync.today)
               THEN [sync EXCEPT !.pc = "resetMonth"] ELSE SyncIdle
    /\ SyncUnchanged
    /\ UNCHANGED <<riskState, accountLatest, opensSinceHalt>>

SyncResetMonth ==
    /\ sync.pc = "resetMonth"
    /\ accountState' = [accountState EXCEPT !.start_month_balance = sync.acc.balance,
                                            !.last_reset_month = MonthOf(sync.today)]
    /\ sync' = SyncIdle
    /\ SyncUnchanged
    /\ UNCHANGED <<riskState, accountLatest, opensSinceHalt>>

\* An exception (or a restart of the server) ends the pass; the next one starts over.
SyncAbort ==
    /\ sync.pc # "idle"
    /\ aborts < MaxAborts
    /\ aborts' = aborts + 1
    /\ sync' = SyncIdle
    /\ UNCHANGED <<day, broker, redisVars, enforce, orderVars, ops, haltBase>>

SyncPass ==
    \/ SyncBegin \/ SyncFetch \/ SyncSaveLatest \/ SyncCheckDay \/ SyncEnsureMonth
    \/ SyncResetRisk \/ SyncResetDay \/ SyncResetMonth

-----------------------------------------------------------------------------
(* RiskEnforcementTask, one pass: three reads, the drawdown test, the write  *)
(* of a halt, the write of the status.                                       *)

EnforceUnchanged == UNCHANGED <<day, broker, accountState, accountLatest, sync, signals,
                                tradeManager, countVars>>

EnforceReadRisk ==
    /\ enforce.pc = "idle"
    /\ enforce' = [enforce EXCEPT !.pc = "readState", !.risk = riskState]
    /\ EnforceUnchanged /\ UNCHANGED <<riskState, cachedStatus, opensSinceHalt, haltBase>>

EnforceReadState ==
    /\ enforce.pc = "readState"
    /\ enforce' = [enforce EXCEPT !.pc = "readLatest",
                                  !.start = [day |-> accountState.start_day_balance,
                                             month |-> accountState.start_month_balance],
                                  !.base = accountState.last_reset_day]
    /\ EnforceUnchanged /\ UNCHANGED <<riskState, cachedStatus, opensSinceHalt, haltBase>>

\* The reason to halt, "none" if the pass must not trip the breaker.
Verdict(risk, start, equity) ==
    IF ~IsHalted(risk) /\ ~risk.resume_override /\ start.day > 0
    THEN HaltReason(risk.limits, start, equity) ELSE "none"

\* ACCOUNT_LATEST is read, the status object built and the drawdown test made.
EnforceReadLatest ==
    /\ enforce.pc = "readLatest"
    /\ LET risk == enforce.risk
           verdict == Verdict(risk, enforce.start, accountLatest.balance + accountLatest.pnl)
       IN  enforce' = [enforce EXCEPT
               !.pc = IF verdict = "none" THEN "publish" ELSE "halt",
               !.risk = NoRiskState,    \* out of use from here on
               !.start = [day |-> 0, month |-> 0],
               !.status = [isHalted |-> IsHalted(risk) \/ verdict # "none",
                           reason |-> IF verdict = "none" THEN risk.engine_halt_reason
                                      ELSE verdict,
                           canResume |-> IsHalted(risk) /\ ~risk.resume_override]]
    /\ EnforceUnchanged /\ UNCHANGED <<riskState, cachedStatus, opensSinceHalt, haltBase>>

EnforceHalt ==
    /\ enforce.pc = "halt"
    /\ SetRiskState([riskState EXCEPT !.engine_halt_status = TRUE,
                                      !.engine_halt_reason = enforce.status.reason])
    /\ haltBase' = enforce.base
    /\ enforce' = [enforce EXCEPT !.pc = "publish"]
    /\ EnforceUnchanged /\ UNCHANGED cachedStatus

\* Mutant: a status is published only while the system is halted.
EnforcePublishHaltsOnly ==
    /\ enforce.pc = "publish"
    /\ cachedStatus' = IF enforce.status.isHalted THEN enforce.status ELSE cachedStatus
    /\ enforce' = EnforceIdle
    /\ EnforceUnchanged /\ UNCHANGED <<riskState, opensSinceHalt, haltBase>>

EnforcePublish ==
    /\ enforce.pc = "publish"
    /\ cachedStatus' = enforce.status
    /\ enforce' = EnforceIdle
    /\ EnforceUnchanged /\ UNCHANGED <<riskState, opensSinceHalt, haltBase>>

\* An exception ends the pass.
EnforceAbort ==
    /\ enforce.pc # "idle"
    /\ aborts < MaxAborts
    /\ aborts' = aborts + 1
    /\ enforce' = EnforceIdle
    /\ UNCHANGED <<day, broker, redisVars, sync, orderVars, ops, haltBase>>

EnforcePass ==
    EnforceReadRisk \/ EnforceReadState \/ EnforceReadLatest \/ EnforceHalt \/ EnforcePublish

-----------------------------------------------------------------------------
(* Orders.  A signal comes from the engine, which does not look at           *)
(* RISK_STATE, or from an operator's order, which the api_server refuses     *)
(* while the cached status is halted.  The trade manager handles one signal  *)
(* at a time: it asks RISK_STATE, filters and sizes the order, and calls the *)
(* broker.                                                                   *)

OrderUnchanged == UNCHANGED <<day, broker, redisVars, sync, enforce, countVars, haltBase>>

EngineSignal ==
    /\ signals < MaxSignals
    /\ signals' = signals + 1
    /\ OrderUnchanged /\ UNCHANGED <<tradeManager, opensSinceHalt>>

PlaceOrder ==
    /\ ~cachedStatus.isHalted
    /\ signals < MaxSignals
    /\ signals' = signals + 1
    /\ OrderUnchanged /\ UNCHANGED <<tradeManager, opensSinceHalt>>

\* Mutants: the order is cleared without asking RISK_STATE; an order without a signal.
HandleOpenUnchecked ==
    /\ tradeManager = "idle" /\ signals > 0
    /\ signals' = signals - 1
    /\ tradeManager' = "cleared"
    /\ OrderUnchanged /\ UNCHANGED opensSinceHalt

HandleOpenUnsolicited ==
    /\ tradeManager = "idle"
    /\ signals' = signals - 1
    /\ tradeManager' = IF SystemHalted(riskState) THEN "idle" ELSE "cleared"
    /\ OrderUnchanged /\ UNCHANGED opensSinceHalt

HandleOpenCheck ==
    /\ tradeManager = "idle" /\ signals > 0
    /\ signals' = signals - 1
    /\ tradeManager' = IF SystemHalted(riskState) THEN "idle" ELSE "cleared"
    /\ OrderUnchanged /\ UNCHANGED opensSinceHalt

\* Rejected by the ML filter, by the size, by the broker, or by a crash of the process.
HandleOpenAbandon ==
    /\ tradeManager = "cleared"
    /\ tradeManager' = "idle"
    /\ OrderUnchanged /\ UNCHANGED <<signals, opensSinceHalt>>

HandleOpenExecute ==
    /\ tradeManager = "cleared"
    /\ tradeManager' = "idle"
    /\ opensSinceHalt' = IF SystemHalted(riskState) THEN opensSinceHalt + 1 ELSE 0
    /\ OrderUnchanged /\ UNCHANGED signals

-----------------------------------------------------------------------------
Next ==
    \/ NewDay \/ MarketMoves
    \/ Resume \/ ManualHalt \/ UpdateLimits
    \/ SyncPass \/ SyncFetchFails \/ SyncAbort
    \/ EnforcePass \/ EnforceAbort
    \/ EngineSignal \/ PlaceOrder
    \/ HandleOpenCheck \/ HandleOpenAbandon \/ HandleOpenExecute

Spec == Init /\ [][Next]_vars

\* Both tasks are endless loops on timers, restarted by BaseBackgroundService: each
\* keeps taking its next step.  The broker answers again and again.
Fairness == WF_vars(SyncPass) /\ SF_vars(SyncFetch) /\ WF_vars(EnforcePass)

FairSpec == Spec /\ Fairness

-----------------------------------------------------------------------------
(* Properties *)

RiskStateSet == [engine_halt_status : BOOLEAN, engine_halt_reason : {"none", "daily", "monthly"},
                 manual_halt_status : BOOLEAN, resume_override : BOOLEAN, limits : LimitSet]
StatusSet == [isHalted : BOOLEAN, reason : {"none", "daily", "monthly"}, canResume : BOOLEAN]
SyncPcs == {"idle", "fetch", "save", "check", "ensureMonth", "resetRisk", "resetDay", "resetMonth"}
EnforcePcs == {"idle", "readState", "readLatest", "halt", "publish"}

\* The types of the variables.
TypeOK ==
    /\ day \in 1..MaxDay
    /\ broker \in Accounts
    /\ riskState \in RiskStateSet
    /\ accountState \in [start_day_balance : Nat, last_reset_day : 0..MaxDay,
                         start_month_balance : Nat, last_reset_month : Nat]
    /\ accountLatest \in AccountSet
    /\ cachedStatus \in StatusSet
    /\ sync \in [pc : SyncPcs, today : 0..MaxDay, acc : AccountSet]
    /\ enforce \in [pc : EnforcePcs, risk : RiskStateSet, start : [day : Nat, month : Nat],
                    base : 0..MaxDay, status : StatusSet]
    /\ signals \in 0..MaxSignals
    /\ tradeManager \in {"idle", "cleared"}
    /\ ops \in 0..MaxOps /\ aborts \in 0..MaxAborts
    /\ opensSinceHalt \in Nat /\ haltBase \in 0..MaxDay

\* However many signals are waiting when the system becomes halted, at most one position
\* is opened until the halt ends: the order trade_manager had already cleared.  The check
\* of _handle_open precedes the ML filter, the sizing and the broker call.
AtMostOneOpenPerHalt == opensSinceHalt <= 1

\* The monthly baseline is never of another month than the daily one, unless a pass of
\* AccountSyncTask was cut short between its two writes of ACCOUNT_STATE.
MonthFollowsDay ==
    aborts = 0 /\ sync.pc # "resetMonth" =>
        accountState.last_reset_month = MonthOf(accountState.last_reset_day)

\* A month's baseline is taken together with a day's: it never runs ahead of the date,
\* whatever passes are cut short, and never names a day the task has not yet re-based.
MonthNeverAhead == accountState.last_reset_month <= MonthOf(accountState.last_reset_day)

\* An automatic halt is lifted only by the operator or by the first sync of a new day:
\* no pass of either task, however stale its reads, re-arms trading within the day.
HaltPersistsWithinDay ==
    [][ riskState.engine_halt_status /\ ~riskState'.engine_halt_status =>
            \/ riskState'.resume_override
            \/ accountState.last_reset_day < day ]_vars

\* The baseline of the daily limit moves only when the date of the baseline does: losses
\* of a day are never measured from a balance already reduced by them.
BaselineFixedWithinDay ==
    [][ accountState'.start_day_balance # accountState.start_day_balance =>
            accountState'.last_reset_day > accountState.last_reset_day ]_vars

\* A manual halt ends only by a resume: neither the day reset nor a limit change nor a
\* trip of the breaker clears the operator's halt.
ManualHaltPersists ==
    [][ riskState.manual_halt_status /\ ~riskState'.manual_halt_status =>
            riskState'.resume_override ]_vars

Equity(acc) == acc.balance + acc.pnl
Baselines == [day |-> accountState.start_day_balance, month |-> accountState.start_month_balance]

\* The broker's own figures exceed a limit measured from today's baselines.
Breached ==
    /\ accountState.last_reset_day = day /\ accountState.start_day_balance > 0
    /\ HaltReason(riskState.limits, Baselines, Equity(broker)) # "none"

\* A drawdown that lasts is acted on: it travels through ACCOUNT_LATEST and the next
\* enforcement pass, and the system is halted unless the operator has overridden it.
BreachHalts ==
    Breached ~> (~Breached \/ IsHalted(riskState) \/ riskState.resume_override)

\* What the panel shows and PlaceOrder obeys follows what RISK_STATE says.
StatusFollowsHalt ==
    \A h \in BOOLEAN :
        (IsHalted(riskState) = h) ~> (IsHalted(riskState) # h \/ cachedStatus.isHalted = h)

\* Every day gets its baseline.
DayIsReset == \A d \in 1..MaxDay : (day = d) ~> (day # d \/ accountState.last_reset_day = d)

-----------------------------------------------------------------------------
(* The inductive invariant behind the safety properties. *)

\* An order is cleared only before the halt: whatever is still cleared is the one that may
\* get through.
ClearedInv ==
    /\ ~SystemHalted(riskState) => opensSinceHalt = 0
    /\ tradeManager = "cleared" => opensSinceHalt = 0

\* Baselines and passes are never of a later day than the date, and a pass that resets a
\* day is of a later day than the baseline until it has written it.
SyncDates ==
    /\ accountState.last_reset_day <= day /\ sync.today <= day
    /\ sync.pc # "idle" => accountState.last_reset_day <= sync.today
    /\ sync.pc \in {"resetRisk", "resetDay"} => accountState.last_reset_day < sync.today
    /\ sync.pc = "resetMonth" => accountState.last_reset_day = sync.today

IInv == /\ TypeOK /\ AtMostOneOpenPerHalt /\ ClearedInv
        /\ SyncDates /\ MonthFollowsDay /\ MonthNeverAhead

-----------------------------------------------------------------------------
(* What the documentation says and the code does not keep: TLC refutes these *)
(* (README, further divergences); no run states them.                        *)

\* README.md:71, and RiskController.Halt answers "halted": a halt suspends the automatic
\* strategies and manual orders.
ManualHaltSuspends == riskState.manual_halt_status => SystemHalted(riskState)

\* README.md:73: losses are computed anew every day, so an automatic halt in force once
\* the day is re-based is a halt for losses from that day's baseline.
HaltIsOfItsDay ==
    riskState.engine_halt_status /\ sync.pc = "idle" => haltBase = accountState.last_reset_day
============================================================================

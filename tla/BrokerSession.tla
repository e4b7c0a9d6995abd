--------------------------- MODULE BrokerSession ---------------------------
(***************************************************************************)
(* The session with Capital.com.  The keeper (auth_manager) logs in every  *)
(* nine minutes and leaves the two tokens of the session in Redis, each    *)
(* with a SET of its own that expires after ten.  The trade manager reads  *)
(* them back, with a GET each, before every request, and the size of an    *)
(* order may depend on the answer to one.                                  *)
(*                                                                         *)
(* Time is counted in ticks.  Redis commands take no time but are steps of *)
(* their own, so a reader may run between two writes and a write between   *)
(* two reads.                                                              *)
(***************************************************************************)
EXTENDS Integers

CONSTANTS
    TokenExpiry,     \* REDIS_TOKEN_EXPIRY
    RefreshInterval, \* SESSION_REFRESH_INTERVAL
    RetryDelay,      \* LOGIN_RETRY_DELAY
    LoginTime,       \* the longest an answered login takes
    Tolerated,       \* failed logins in a row the expiry leaves room for
    Sessions,        \* identifiers for the sessions somebody still has a token of
    NoSession,       \* no token
    Signals,         \* open signals: how they are sized, whether they name a size and a stop
    MaxFaults        \* bound: lost answers, hung logins, deaths of the keeper

ASSUME TimesAssumption ==
    /\ TokenExpiry \in Nat /\ RefreshInterval \in Nat /\ RetryDelay \in Nat
    /\ LoginTime \in Nat /\ Tolerated \in Nat
    /\ RefreshInterval + Tolerated * (LoginTime + RetryDelay) + LoginTime < TokenExpiry
ASSUME SessionsAssumption == NoSession \notin Sessions
ASSUME SignalsAssumption ==
    Signals \subseteq [sizing : {"FIXED", "RISK"}, sized : BOOLEAN, stop : BOOLEAN]
ASSUME FaultsAssumption == MaxFaults \in Nat

VARIABLES
    cst, token,  \* Redis CAPITAL_CST, CAPITAL_TOKEN: whose they are, how long they last
    keeper,      \* control point, timer and session in hand of CapitalSessionManager
    failed,      \* logins that failed since the last success, up to Tolerated + 1
    tm,          \* control point and locals of the trade manager's listener
    saved,       \* a pair has been saved (history)
    faults       \* counter for the bound MaxFaults

vars == <<cst, token, keeper, failed, tm, saved, faults>>

NoKey == [session |-> NoSession, ttl |-> 0]
NoSignal == [sizing |-> "FIXED", sized |-> FALSE, stop |-> FALSE]
Idle == [call |-> "none", step |-> "idle", cst |-> NoSession, token |-> NoSession,
         signal |-> NoSignal, size |-> "none"]

Init ==
    /\ cst = NoKey /\ token = NoKey
    /\ keeper = [pc |-> "login", timer |-> LoginTime, session |-> NoSession]
    /\ failed = 0
    /\ tm = Idle
    /\ saved = FALSE /\ faults = 0

Fault == faults < MaxFaults /\ faults' = faults + 1

-----------------------------------------------------------------------------
(* The keeper *)

InUse == {cst.session, token.session, keeper.session, tm.cst, tm.token}

Sleeping(n) == [pc |-> "sleep", timer |-> n, session |-> NoSession]
LoggingIn == [pc |-> "login", timer |-> LoginTime, session |-> NoSession]

\* Mutants: the keeper sleeps until the keys expire; it takes a Redis error between the two
\* SETs for a failed login; it gives up after a failed login.
SaveTokenSleepsLong ==
    /\ keeper.pc = "saveToken"
    /\ token' = [session |-> keeper.session, ttl |-> TokenExpiry]
    /\ keeper' = Sleeping(TokenExpiry)
    /\ failed' = 0 /\ saved' = TRUE
    /\ UNCHANGED <<cst, tm, faults>>
SaveTokenCatches ==
    /\ keeper.pc = "saveToken"
    /\ \/ /\ token' = [session |-> keeper.session, ttl |-> TokenExpiry]
          /\ keeper' = Sleeping(RefreshInterval)
          /\ failed' = 0 /\ saved' = TRUE
       \/ /\ keeper' = Sleeping(RetryDelay)
          /\ UNCHANGED <<token, failed, saved>>
    /\ UNCHANGED <<cst, tm, faults>>
KeeperWakesUnlessFailed ==
    /\ keeper.pc = "sleep" /\ keeper.timer = 0 /\ failed = 0
    /\ keeper' = LoggingIn
    /\ UNCHANGED <<cst, token, failed, tm, saved, faults>>

\* Capital.com answers with both tokens of a new session.
LoginSucceeds ==
    /\ keeper.pc = "login"
    /\ Sessions \ InUse # {}
    /\ keeper' = [keeper EXCEPT !.pc = "saveCst",
                      !.session = CHOOSE s \in Sessions : s \notin InUse]
    /\ UNCHANGED <<cst, token, failed, tm, saved, faults>>

\* An error status, a missing header or a RequestException: login returns False.
LoginFails ==
    /\ keeper.pc = "login"
    /\ keeper' = Sleeping(RetryDelay)
    /\ failed' = IF failed <= Tolerated THEN failed + 1 ELSE failed
    /\ UNCHANGED <<cst, token, tm, saved, faults>>

\* requests.post is called without a timeout: it may never return.
LoginHangs ==
    /\ keeper.pc = "login" /\ Fault
    /\ keeper' = [keeper EXCEPT !.pc = "hung"]
    /\ UNCHANGED <<cst, token, failed, tm, saved>>

\* save_to_redis, first SET
SaveCst ==
    /\ keeper.pc = "saveCst"
    /\ cst' = [session |-> keeper.session, ttl |-> TokenExpiry]
    /\ keeper' = [keeper EXCEPT !.pc = "saveToken"]
    /\ UNCHANGED <<token, failed, tm, saved, faults>>

\* save_to_redis, second SET; login returns True and the keeper sleeps.
SaveToken ==
    /\ keeper.pc = "saveToken"
    /\ token' = [session |-> keeper.session, ttl |-> TokenExpiry]
    /\ keeper' = Sleeping(RefreshInterval)
    /\ failed' = 0 /\ saved' = TRUE
    /\ UNCHANGED <<cst, tm, faults>>

\* A Redis error is no RequestException and ends run_keeper; the process may also be killed.
KeeperDies ==
    /\ keeper.pc # "down" /\ Fault
    /\ keeper' = [pc |-> "down", timer |-> 0, session |-> NoSession]
    /\ UNCHANGED <<cst, token, failed, tm, saved>>

\* Docker starts the container again.
KeeperStarts ==
    /\ keeper.pc = "down"
    /\ keeper' = LoggingIn
    /\ UNCHANGED <<cst, token, failed, tm, saved, faults>>

\* run_keeper: the sleep is over.
KeeperWakes ==
    /\ keeper.pc = "sleep" /\ keeper.timer = 0
    /\ keeper' = LoggingIn
    /\ UNCHANGED <<cst, token, failed, tm, saved, faults>>

\* Mutant: a key stays when its time is up.
OlderStays(key) == IF key.ttl > 0 THEN [key EXCEPT !.ttl = key.ttl - 1] ELSE NoKey

\* A key disappears when its time is up.
Older(key) == IF key.ttl > 1 THEN [key EXCEPT !.ttl = key.ttl - 1] ELSE NoKey

\* A tick of the clock: keys expire, the sleep or the answer to a login comes closer.
Tick ==
    /\ \/ keeper.pc \in {"sleep", "login"} /\ keeper.timer > 0
       \/ keeper.pc \in {"hung", "down"}
    /\ cst' = Older(cst) /\ token' = Older(token)
    /\ keeper' = IF keeper.pc \in {"sleep", "login"}
                 THEN [keeper EXCEPT !.timer = keeper.timer - 1] ELSE keeper
    /\ UNCHANGED <<failed, tm, saved, faults>>

-----------------------------------------------------------------------------
(* CapitalClient: a request takes the two tokens from Redis one after the    *)
(* other and is sent with both.                                              *)

Requested(c) == [tm EXCEPT !.call = c, !.step = "cst", !.cst = NoSession, !.token = NoSession]

\* _get_headers
ReadCst ==
    /\ tm.step = "cst"
    /\ tm' = [tm EXCEPT !.step = "token", !.cst = cst.session]
    /\ UNCHANGED <<cst, token, keeper, failed, saved, faults>>

\* The lower-case names tried when a key is missing are written by nobody.
ReadToken ==
    /\ tm.step = "token"
    /\ tm' = [tm EXCEPT !.step = "send", !.token = token.session]
    /\ UNCHANGED <<cst, token, keeper, failed, saved, faults>>

\* A missing token raises RuntimeError in the request's own try block; Capital.com refuses
\* a pair that is not of one session.
PairAccepted == tm.cst # NoSession /\ tm.token = tm.cst

\* TradeService._get_final_size: lots as the signal says, a share of the equity per distance
\* to the stop, or the default of the settings.  Unfunded is an equity <= 0.
FinalSize(sig, funded) ==
    IF sig.sized /\ sig.sizing = "FIXED" THEN "lots"
    ELSE IF ~funded THEN (IF sig.sized THEN "lots" ELSE "default")
    ELSE IF sig.sizing = "RISK" /\ sig.sized /\ sig.stop THEN "risk"
    ELSE "default"

\* open_position, or nothing: the default size in the settings may be zero.
Sized(size) ==
    \/ tm' = [Requested("open") EXCEPT !.size = size]
    \/ size = "default" /\ tm' = Idle

\* get_accounts, _get_current_equity: without an answer the equity is 0.0.  (An account that
\* is really empty is left out; it takes the same branch.)
GetAccounts(ok) ==
    /\ tm.call = "accounts"
    /\ Sized(FinalSize(tm.signal, ok))

OpenPosition(ok) ==
    /\ tm.call = "open"
    /\ tm' = IF ok THEN Requested("confirm") ELSE Idle

ClosePosition(ok) ==
    /\ tm.call = "close"
    /\ tm' = IF ok THEN Requested("confirm") ELSE Idle

UpdatePosition(ok) ==
    /\ tm.call = "update" /\ ok \in BOOLEAN
    /\ tm' = Idle

GetPositionConfirm(ok) ==
    /\ tm.call = "confirm" /\ ok \in BOOLEAN
    /\ tm' = Idle

Answer(ok) == \/ GetAccounts(ok) \/ OpenPosition(ok) \/ ClosePosition(ok)
              \/ UpdatePosition(ok) \/ GetPositionConfirm(ok)

Send ==
    /\ tm.step = "send"
    /\ Answer(PairAccepted)
    /\ UNCHANGED <<cst, token, keeper, failed, saved, faults>>

\* The request times out or is refused for another reason.
SendFails ==
    /\ tm.step = "send" /\ Fault
    /\ Answer(FALSE)
    /\ UNCHANGED <<cst, token, keeper, failed, saved>>

-----------------------------------------------------------------------------
(* The trade manager's listener: one signal at a time.  What the breaker     *)
(* refuses (RiskControl) or the model rejects changes nothing here.          *)

\* _handle_open up to its first request: a size in lots needs no equity.
HandleOpen ==
    \E sig \in Signals :
        LET asked == [Idle EXCEPT !.signal = sig]
        IN  tm' = IF sig.sized /\ sig.sizing = "FIXED"
                  THEN [asked EXCEPT !.call = "open", !.step = "cst", !.size = "lots"]
                  ELSE [asked EXCEPT !.call = "accounts", !.step = "cst"]

HandleClose == tm' = Requested("close")
HandleUpdateSl == tm' = Requested("update")

\* process_signal
ProcessSignal ==
    /\ tm.call = "none"
    /\ HandleOpen \/ HandleClose \/ HandleUpdateSl
    /\ UNCHANGED <<cst, token, keeper, failed, saved, faults>>

-----------------------------------------------------------------------------
Keeper == \/ LoginSucceeds \/ LoginFails \/ LoginHangs \/ SaveCst \/ SaveToken
          \/ KeeperDies \/ KeeperStarts \/ KeeperWakes
Client == ReadCst \/ ReadToken \/ Send \/ SendFails \/ ProcessSignal
Next == Keeper \/ Client \/ Tick

Spec == Init /\ [][Next]_vars

\* The clock runs, Docker restarts the container, the keeper's own steps are taken, and a
\* login asked for again and again is answered some time.
FairSpec ==
    /\ Spec
    /\ WF_vars(Tick) /\ WF_vars(KeeperStarts) /\ WF_vars(KeeperWakes)
    /\ WF_vars(SaveCst) /\ WF_vars(SaveToken)
    /\ SF_vars(LoginSucceeds)

-----------------------------------------------------------------------------
(* Properties *)

Keys == [session : Sessions, ttl : 1 .. TokenExpiry] \cup {NoKey}

\* Every variable keeps the shape the code gives it; a key is absent or has time left.
TypeOK ==
    /\ cst \in Keys /\ token \in Keys
    /\ keeper \in [pc : {"login", "saveCst", "saveToken", "sleep", "hung", "down"},
                   timer : Nat, session : Sessions \cup {NoSession}]
    /\ keeper.pc \in {"saveCst", "saveToken"} => keeper.session \in Sessions
    /\ failed \in 0 .. Tolerated + 1
    /\ tm \in [call : {"none", "accounts", "open", "close", "update", "confirm"},
               step : {"idle", "cst", "token", "send"},
               cst : Sessions \cup {NoSession}, token : Sessions \cup {NoSession},
               signal : Signals \cup {NoSignal}, size : {"none", "lots", "risk", "default"}]
    /\ saved \in BOOLEAN /\ faults \in 0 .. MaxFaults

KeysPresent == cst # NoKey /\ token # NoKey

\* Once a pair was saved, the tokens do not lapse while the keeper lives and no more than
\* Tolerated logins in a row fail (run_keeper: refresh every 9 minutes, expiry after 10).
KeysOutliveRetries ==
    saved /\ faults = 0 /\ failed <= Tolerated => KeysPresent

\* The tokens in Redis are of two sessions only between the two SETs of save_to_redis, or
\* after the keeper died there.
TornOnlyWhileSaving ==
    KeysPresent /\ cst.session # token.session /\ faults = 0
        => keeper.pc = "saveToken"

\* Missing tokens come back, unless a login hangs (requests.post has no timeout).
KeysComeBack == ~KeysPresent ~> (KeysPresent \/ keeper.pc = "hung")

\* "Determines position size based on signal, settings, and equity risk" (_get_final_size):
\* the broker never accepts the percentage of a RISK signal as a number of lots.
RiskIsNotLots == tm.call = "confirm" /\ tm.signal.sizing = "RISK" => tm.size # "lots"
=============================================================================

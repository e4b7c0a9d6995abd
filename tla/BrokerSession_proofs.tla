------------------------ MODULE BrokerSession_proofs ------------------------
(***************************************************************************)
(* Proofs about BrokerSession for every expiry, interval, delay and login  *)
(* time that leave room for the tolerated failures, and any signals: the   *)
(* types, how long the tokens of the session last and when they are torn.  *)
(***************************************************************************)
EXTENDS BrokerSession, TLAPS

-----------------------------------------------------------------------------
(* What one failed login costs, and arithmetic about it. *)

Cost == LoginTime + RetryDelay

LEMMA CostType == Cost \in Nat
BY TimesAssumption DEF Cost

LEMMA OneMore ==
    ASSUME NEW n \in Nat PROVE (n + 1) * Cost = n * Cost + Cost
BY CostType

LEMMA CostsGrow ==
    ASSUME NEW m \in Nat, NEW n \in Nat, m <= n PROVE m * Cost <= n * Cost
BY CostType

LEMMA CostsType ==
    ASSUME NEW n \in Nat PROVE n * Cost \in Nat
BY CostType

LEMMA NoCost == 0 * Cost = 0
BY CostType

-----------------------------------------------------------------------------
(* Types. *)

LEMMA OlderType ==
    ASSUME NEW key \in Keys
    PROVE  /\ Older(key) \in Keys
           /\ Older(key).ttl \in Nat /\ key.ttl \in Nat
           /\ Older(key).ttl >= key.ttl - 1
           /\ Older(key) # NoKey => Older(key).session = key.session /\ key # NoKey
<1>1. CASE key = NoKey
  BY <1>1, TimesAssumption DEF Older, NoKey, Keys
<1>2. CASE key \in [session : Sessions, ttl : 1 .. TokenExpiry]
  <2>1. key.ttl \in 1 .. TokenExpiry
    BY <1>2
  <2>2. CASE key.ttl > 1
    BY <1>2, <2>1, <2>2, TimesAssumption DEF Older, NoKey, Keys
  <2>3. CASE ~(key.ttl > 1)
    BY <1>2, <2>1, <2>3, TimesAssumption DEF Older, NoKey, Keys
  <2>4. QED
    BY <2>2, <2>3
<1>3. QED
  BY <1>1, <1>2 DEF Keys

KeeperType == [pc : {"login", "saveCst", "saveToken", "sleep", "hung", "down"},
               timer : Nat, session : Sessions \cup {NoSession}]
TmType == [call : {"none", "accounts", "open", "close", "update", "confirm"},
           step : {"idle", "cst", "token", "send"},
           cst : Sessions \cup {NoSession}, token : Sessions \cup {NoSession},
           signal : Signals \cup {NoSignal}, size : {"none", "lots", "risk", "default"}]

LEMMA TypeInit == Init => TypeOK
<1> SUFFICES ASSUME Init PROVE TypeOK
  OBVIOUS
<1>1. keeper \in KeeperType /\ keeper.pc = "login"
  BY TimesAssumption DEF Init, KeeperType
<1>2. tm \in TmType
  BY DEF Init, TmType, Idle
<1>3. cst \in Keys /\ token \in Keys
  BY DEF Init, Keys
<1>4. failed \in 0 .. Tolerated + 1 /\ saved \in BOOLEAN /\ faults \in 0 .. MaxFaults
  <2>1. 0 \in 0 .. Tolerated + 1 /\ 0 \in 0 .. MaxFaults
    BY TimesAssumption, FaultsAssumption
  <2>2. QED
    BY <2>1 DEF Init
<1>5. QED
  BY <1>1, <1>2, <1>3, <1>4 DEF TypeOK, KeeperType, TmType

LEMMA NewSession ==
    ASSUME Sessions \ InUse # {}
    PROVE  (CHOOSE s \in Sessions : s \notin InUse) \in Sessions
OBVIOUS

LEMMA TypeKeeper == TypeOK /\ Keeper => TypeOK'
<1> SUFFICES ASSUME TypeOK, Keeper PROVE TypeOK'
  OBVIOUS
<1> USE TimesAssumption, FaultsAssumption DEF TypeOK
<1>1. CASE LoginSucceeds
  <2>1. keeper' \in KeeperType
    BY <1>1, NewSession DEF LoginSucceeds, KeeperType
  <2>2. QED
    BY <1>1, <2>1 DEF LoginSucceeds, KeeperType
<1>2. CASE LoginFails
  BY <1>2 DEF LoginFails, Sleeping
<1>3. CASE LoginHangs
  BY <1>3 DEF LoginHangs, Fault
<1>4. CASE SaveCst
  BY <1>4 DEF SaveCst, Keys
<1>5. CASE SaveToken
  BY <1>5 DEF SaveToken, Sleeping, Keys
<1>6. CASE KeeperDies
  BY <1>6 DEF KeeperDies, Fault
<1>7. CASE KeeperStarts
  BY <1>7 DEF KeeperStarts, LoggingIn
<1>8. CASE KeeperWakes
  BY <1>8 DEF KeeperWakes, LoggingIn
<1>9. QED
  BY <1>1, <1>2, <1>3, <1>4, <1>5, <1>6, <1>7, <1>8 DEF Keeper

LEMMA FinalSizeType ==
    ASSUME NEW sig, NEW funded PROVE FinalSize(sig, funded) \in {"lots", "risk", "default"}
BY DEF FinalSize

LEMMA AnswerType ==
    ASSUME TypeOK, NEW ok, Answer(ok) PROVE tm' \in TmType
<1> USE DEF TypeOK, TmType
<1>1. \A c \in {"open", "confirm"} : Requested(c) \in TmType /\ Requested(c).size = tm.size
  BY DEF Requested
<1>2. Idle \in TmType
  BY DEF Idle
<1>3. CASE GetAccounts(ok)
  <2> DEFINE size == FinalSize(tm.signal, ok)
  <2>1. size \in {"none", "lots", "risk", "default"}
    BY FinalSizeType
  <2>2. [Requested("open") EXCEPT !.size = size] \in TmType
    BY <1>1, <2>1
  <2>3. QED
    BY <1>2, <1>3, <2>2 DEF GetAccounts, Sized
<1>4. CASE OpenPosition(ok)
  BY <1>1, <1>2, <1>4 DEF OpenPosition
<1>5. CASE ClosePosition(ok)
  BY <1>1, <1>2, <1>5 DEF ClosePosition
<1>6. CASE UpdatePosition(ok)
  BY <1>2, <1>6 DEF UpdatePosition
<1>7. CASE GetPositionConfirm(ok)
  BY <1>2, <1>7 DEF GetPositionConfirm
<1>8. QED
  BY <1>3, <1>4, <1>5, <1>6, <1>7 DEF Answer

LEMMA SignalType ==
    ASSUME TypeOK, ProcessSignal PROVE tm' \in TmType
<1> USE DEF TmType
<1>1. tm \in TmType
  BY DEF TypeOK
<1>2. CASE HandleOpen
  <2>1. PICK sig \in Signals :
          LET asked == [Idle EXCEPT !.signal = sig]
          IN  tm' = IF sig.sized /\ sig.sizing = "FIXED"
                    THEN [asked EXCEPT !.call = "open", !.step = "cst", !.size = "lots"]
                    ELSE [asked EXCEPT !.call = "accounts", !.step = "cst"]
    BY <1>2 DEF HandleOpen
  <2>2. [Idle EXCEPT !.signal = sig] \in TmType
    BY DEF Idle
  <2>3. QED
    BY <2>1, <2>2
<1>3. CASE HandleClose \/ HandleUpdateSl
  BY <1>1, <1>3 DEF HandleClose, HandleUpdateSl, Requested
<1>4. QED
  BY <1>2, <1>3 DEF ProcessSignal

LEMMA ClientLeaves ==
    ASSUME Client PROVE UNCHANGED <<cst, token, keeper, failed, saved>>
BY DEF Client, ReadCst, ReadToken, Send, SendFails, ProcessSignal

LEMMA TypeClient == TypeOK /\ Client => TypeOK'
<1> SUFFICES ASSUME TypeOK, Client PROVE TypeOK'
  OBVIOUS
<1>0. cst.session \in Sessions \cup {NoSession} /\ token.session \in Sessions \cup {NoSession}
  BY DEF TypeOK, Keys, NoKey
<1>1. tm' \in TmType
  <2>1. CASE ReadCst
    BY <1>0, <2>1 DEF ReadCst, TypeOK, TmType
  <2>2. CASE ReadToken
    BY <1>0, <2>2 DEF ReadToken, TypeOK, TmType
  <2>3. CASE Send
    BY <2>3, AnswerType DEF Send
  <2>4. CASE SendFails
    BY <2>4, AnswerType DEF SendFails
  <2>5. CASE ProcessSignal
    BY <2>5, SignalType
  <2>6. QED
    BY <2>1, <2>2, <2>3, <2>4, <2>5 DEF Client
<1>2. faults' \in 0 .. MaxFaults
  <2>1. faults' = faults \/ Fault
    BY DEF Client, ReadCst, ReadToken, Send, SendFails, ProcessSignal
  <2>2. faults \in 0 .. MaxFaults
    BY DEF TypeOK
  <2>3. QED
    BY <2>1, <2>2, FaultsAssumption DEF Fault
<1>3. QED
  BY <1>1, <1>2, ClientLeaves DEF TypeOK, TmType, Keys

LEMMA TypeTick == TypeOK /\ Tick => TypeOK'
<1> SUFFICES ASSUME TypeOK, Tick PROVE TypeOK'
  OBVIOUS
<1>1. cst' \in Keys /\ token' \in Keys
  BY OlderType DEF Tick, TypeOK
<1>2. keeper' \in KeeperType /\ keeper'.pc = keeper.pc /\ keeper'.session = keeper.session
  BY DEF Tick, TypeOK, KeeperType
<1>3. QED
  BY <1>1, <1>2 DEF Tick, TypeOK, KeeperType

\* The variables keep their types, whatever the times and however many faults.
THEOREM TypeCorrect == Spec => []TypeOK
<1>1. TypeOK /\ [Next]_vars => TypeOK'
  <2> SUFFICES ASSUME TypeOK, [Next]_vars PROVE TypeOK'
    OBVIOUS
  <2>1. CASE UNCHANGED vars
    BY <2>1 DEF vars, TypeOK, Keys
  <2>2. QED
    BY <2>1, TypeKeeper, TypeClient, TypeTick DEF Next
<1>2. QED
  BY <1>1, TypeInit, PTL DEF Spec

-----------------------------------------------------------------------------
(* The keys.  While the keeper lives and no more than Tolerated logins in a  *)
(* row have failed, each key lasts at least as long as the refresh interval, *)
(* the failures and the login under way have left of the expiry.             *)

Left == (TokenExpiry - RefreshInterval) - failed * Cost
          + (IF keeper.pc = "sleep" THEN keeper.timer
             ELSE IF keeper.pc = "login" THEN keeper.timer - LoginTime
             ELSE -LoginTime)

Last == saved /\ failed <= Tolerated => cst.ttl >= Left /\ token.ttl >= Left

Timers == /\ keeper.pc \in {"login", "saveCst", "saveToken", "sleep"}
          /\ keeper.pc = "sleep" => keeper.timer <= (IF failed = 0 THEN RefreshInterval ELSE RetryDelay)
          /\ keeper.pc = "login" => keeper.timer <= LoginTime

Pairs == /\ keeper.pc = "saveToken" => cst = [session |-> keeper.session, ttl |-> TokenExpiry]
         /\ keeper.pc # "saveToken" /\ KeysPresent => cst.session = token.session

KInv == TypeOK /\ (faults = 0 => Timers /\ Last /\ Pairs)

LEMMA KeysInit == Init => KInv
<1> SUFFICES ASSUME Init PROVE Timers /\ Last /\ Pairs
  BY TypeInit DEF KInv
<1>1. Timers
  BY TimesAssumption DEF Init, Timers
<1>2. Last /\ Pairs
  BY DEF Init, Last, Pairs, KeysPresent
<1>3. QED
  BY <1>1, <1>2

LEMMA FaultsStay ==
    ASSUME TypeOK, [Next]_vars, faults' = 0
    PROVE  faults = 0 /\ ~LoginHangs /\ ~KeeperDies
<1>1. faults \in Nat
  BY FaultsAssumption DEF TypeOK
<1>2. faults' = faults \/ faults' = faults + 1
  BY DEF Next, Keeper, Client, Tick, LoginSucceeds, LoginFails, LoginHangs, SaveCst, SaveToken,
         KeeperDies, KeeperStarts, KeeperWakes, ReadCst, ReadToken, Send, SendFails,
         ProcessSignal, Fault, vars
<1>3. QED
  BY <1>1, <1>2 DEF LoginHangs, KeeperDies, Fault

LEMMA LeftType ==
    ASSUME TypeOK
    PROVE  /\ failed \in Nat /\ failed * Cost \in Nat /\ (failed + 1) * Cost = failed * Cost + Cost
           /\ keeper.timer \in Nat /\ cst.ttl \in Nat /\ token.ttl \in Nat
<1>1. failed \in Nat /\ keeper.timer \in Nat
  BY TimesAssumption DEF TypeOK
<1>2. QED
  BY <1>1, CostsType, OneMore, OlderType DEF TypeOK

LEMMA KeysKept ==
    ASSUME KInv, [Next]_vars, faults' = 0
    PROVE  Timers' /\ Last' /\ Pairs'
<1>1. faults = 0 /\ ~LoginHangs /\ ~KeeperDies /\ TypeOK /\ Timers /\ Last /\ Pairs
  BY FaultsStay DEF KInv
<1>2. /\ failed \in Nat /\ failed * Cost \in Nat /\ (failed + 1) * Cost = failed * Cost + Cost
      /\ keeper.timer \in Nat /\ cst.ttl \in Nat /\ token.ttl \in Nat
  BY <1>1, LeftType
<1> USE TimesAssumption
<1>3. CASE LoginSucceeds
  <2>1. keeper' = [keeper EXCEPT !.pc = "saveCst", !.session = keeper'.session]
        /\ UNCHANGED <<cst, token, failed, saved>> /\ keeper.pc = "login"
        /\ keeper'.pc = "saveCst"
    BY <1>1, <1>3 DEF LoginSucceeds, TypeOK
  <2>2. Left' <= Left /\ Left \in Int /\ Left' \in Int
    BY <1>2, <2>1 DEF Left
  <2>3. Last'
    BY <1>1, <1>2, <2>1, <2>2 DEF Last
  <2>4. Timers' /\ Pairs'
    BY <1>1, <2>1 DEF Timers, Pairs, KeysPresent
  <2>5. QED
    BY <2>3, <2>4
<1>4. CASE LoginFails
  <2>1. /\ keeper.pc = "login" /\ keeper'.pc = "sleep" /\ keeper'.timer = RetryDelay
        /\ failed' = IF failed <= Tolerated THEN failed + 1 ELSE failed
        /\ UNCHANGED <<cst, token, saved>>
    BY <1>4 DEF LoginFails, Sleeping
  <2>2. failed' # 0
    BY <1>2, <2>1
  <2>3. Timers' /\ Pairs'
    BY <1>1, <2>1, <2>2 DEF Timers, Pairs, KeysPresent
  <2>4. ASSUME failed' <= Tolerated
        PROVE  failed <= Tolerated /\ Left' <= Left /\ Left \in Int /\ Left' \in Int
    <3>1. failed <= Tolerated /\ failed' = failed + 1
      BY <1>2, <2>1, <2>4
    <3>2. failed' * Cost = failed * Cost + Cost
      BY <1>2, <3>1
    <3>3. Left' = (TokenExpiry - RefreshInterval) - (failed * Cost + Cost) + RetryDelay
      BY <2>1, <3>2 DEF Left
    <3>4. Left = (TokenExpiry - RefreshInterval) - failed * Cost + (keeper.timer - LoginTime)
      BY <2>1 DEF Left
    <3>5. Cost = LoginTime + RetryDelay
      BY DEF Cost
    <3>6. QED
      BY <1>2, <3>1, <3>3, <3>4, <3>5
  <2>5. Last'
    BY <1>1, <1>2, <2>1, <2>4 DEF Last
  <2>6. QED
    BY <2>3, <2>5
<1>5. CASE SaveCst
  <2>1. /\ keeper.pc = "saveCst" /\ keeper'.pc = "saveToken" /\ keeper'.session = keeper.session
        /\ cst' = [session |-> keeper'.session, ttl |-> TokenExpiry]
        /\ UNCHANGED <<token, failed, saved>>
    BY <1>1, <1>5 DEF SaveCst, TypeOK
  <2>2. Left' = Left /\ Left \in Int /\ Left <= TokenExpiry
    BY <1>2, <2>1 DEF Left
  <2>3. QED
    BY <1>1, <1>2, <2>1, <2>2 DEF Last, Timers, Pairs
<1>6. CASE SaveToken
  <2>1. /\ keeper.pc = "saveToken" /\ keeper'.pc = "sleep" /\ keeper'.timer = RefreshInterval
        /\ failed' = 0 /\ UNCHANGED cst
        /\ token' = [session |-> keeper.session, ttl |-> TokenExpiry]
    BY <1>6 DEF SaveToken, Sleeping
  <2>2. cst = [session |-> keeper.session, ttl |-> TokenExpiry]
    BY <1>1, <2>1 DEF Pairs
  <2>3. Left' = TokenExpiry
    BY <2>1, NoCost DEF Left
  <2>4. QED
    BY <2>1, <2>2, <2>3 DEF Last, Timers, Pairs
<1>7. CASE KeeperWakes
  <2>1. /\ keeper.pc = "sleep" /\ keeper.timer = 0
        /\ keeper'.pc = "login" /\ keeper'.timer = LoginTime
        /\ UNCHANGED <<cst, token, failed, saved>>
    BY <1>7 DEF KeeperWakes, LoggingIn
  <2>2. Left' = Left
    BY <1>2, <2>1 DEF Left
  <2>3. QED
    BY <1>1, <2>1, <2>2 DEF Last, Timers, Pairs, KeysPresent
<1>8. CASE Tick
  <2>1. /\ keeper.pc \in {"sleep", "login"} /\ keeper.timer > 0
        /\ keeper' = [keeper EXCEPT !.timer = keeper.timer - 1]
        /\ cst' = Older(cst) /\ token' = Older(token) /\ UNCHANGED <<failed, saved>>
    BY <1>1, <1>8 DEF Tick, Timers
  <2>2. keeper'.pc = keeper.pc /\ keeper'.timer = keeper.timer - 1
    BY <1>1, <2>1 DEF TypeOK
  <2>3. /\ cst'.ttl \in Nat /\ cst'.ttl >= cst.ttl - 1
        /\ token'.ttl \in Nat /\ token'.ttl >= token.ttl - 1
        /\ KeysPresent' => /\ KeysPresent /\ cst'.session = cst.session
                          /\ token'.session = token.session
    BY <1>1, <2>1, OlderType DEF TypeOK, KeysPresent
  <2>4. Left' = Left - 1 /\ Left \in Int
    BY <1>2, <2>1, <2>2 DEF Left
  <2>5. Last'
    BY <1>1, <1>2, <2>1, <2>3, <2>4 DEF Last
  <2>6. Timers'
    BY <1>1, <1>2, <2>1, <2>2 DEF Timers
  <2>7. Pairs'
    BY <1>1, <2>1, <2>2, <2>3 DEF Pairs
  <2>8. QED
    BY <2>5, <2>6, <2>7
<1>9. CASE Client \/ UNCHANGED vars
  BY <1>1, <1>9, ClientLeaves DEF vars, Last, Left, Timers, Pairs, KeysPresent
<1>10. ~KeeperStarts
  BY <1>1 DEF KeeperStarts, Timers
<1>11. QED
  BY <1>1, <1>3, <1>4, <1>5, <1>6, <1>7, <1>8, <1>9, <1>10 DEF Next, Keeper

\* What is left is more than nothing.
LEMMA LeftPositive ==
    ASSUME TypeOK, Timers, failed <= Tolerated PROVE Left \in Int /\ Left > 0
<1>1. /\ failed \in Nat /\ failed * Cost \in Nat /\ keeper.timer \in Nat
  BY LeftType
<1>2. failed * Cost <= Tolerated * Cost /\ Tolerated * Cost \in Nat
  BY <1>1, CostsGrow, CostsType, TimesAssumption
<1>3. RefreshInterval + Tolerated * Cost + LoginTime < TokenExpiry
  BY TimesAssumption DEF Cost
<1>4. QED
  BY <1>1, <1>2, <1>3, TimesAssumption DEF Left

LEMMA KeysInductive == Spec => []KInv
<1>1. KInv /\ [Next]_vars => KInv'
  <2> SUFFICES ASSUME KInv, [Next]_vars PROVE KInv'
    OBVIOUS
  <2>1. TypeOK'
    <3>1. CASE UNCHANGED vars
      BY <3>1 DEF KInv, vars, TypeOK, Keys
    <3>2. QED
      BY <3>1, TypeKeeper, TypeClient, TypeTick DEF Next, KInv
  <2>2. QED
    BY <2>1, KeysKept DEF KInv
<1>2. QED
  BY <1>1, KeysInit, PTL DEF Spec

\* The tokens outlive the tolerated failures of the keeper, for every choice of the times
\* with RefreshInterval + Tolerated * (LoginTime + RetryDelay) + LoginTime < TokenExpiry.
THEOREM KeysLast == Spec => []KeysOutliveRetries
<1>1. KInv => KeysOutliveRetries
  <2> SUFFICES ASSUME KInv, saved, faults = 0, failed <= Tolerated PROVE KeysPresent
    BY DEF KeysOutliveRetries
  <2>1. Left \in Int /\ Left > 0 /\ cst.ttl >= Left /\ token.ttl >= Left
    BY LeftPositive DEF KInv, Last
  <2>2. cst.ttl \in Nat /\ token.ttl \in Nat
    BY LeftType DEF KInv
  <2>3. cst.ttl # 0 /\ token.ttl # 0
    BY <2>1, <2>2
  <2>4. QED
    BY <2>3 DEF KeysPresent, NoKey
<1>2. QED
  BY <1>1, KeysInductive, PTL

\* The two tokens are of one session except between the two SETs.
THEOREM Torn == Spec => []TornOnlyWhileSaving
<1>1. KInv => TornOnlyWhileSaving
  BY DEF KInv, Pairs, TornOnlyWhileSaving
<1>2. QED
  BY <1>1, KeysInductive, PTL
=============================================================================

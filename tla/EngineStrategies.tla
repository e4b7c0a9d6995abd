-------------------------- MODULE EngineStrategies --------------------------
(***************************************************************************)
(* The trading engine's strategies.  An operator's change of the list of   *)
(* strategies is a SET followed by a PUBLISH; the engine's Redis thread    *)
(* turns the message into a flag, and the engine's main loop rebuilds its  *)
(* strategies when it sees the flag: it reads the list, creates a new      *)
(* instance of every strategy, asks the trade manager for the bars it has  *)
(* no history of (and waits up to 10 s for them), and installs the list.   *)
(* In between, bars pile up in the ZeroMQ queue; the loop hands the first  *)
(* message of each bar to the strategies.                                  *)
(*                                                                         *)
(* A strategy is a slot: its rules are abstracted to the number of bars it *)
(* must have seen (Warm) before it may signal an entry.                    *)
(***************************************************************************)
EXTENDS Naturals, Sequences

CONSTANTS
    Slots,       \* entries of the list of strategies
    Keys,        \* epic and resolution
    KeyOf,       \* what each strategy trades
    Warm,        \* bars an instance has seen when it may signal first
    MaxBar,      \* bound: bars of a behaviour
    MaxQueue,    \* the high-water mark: further messages are dropped
    MaxUpdates,  \* bound: changes of the list
    MaxFaults    \* bound: crashes and exceptions

ASSUME SlotsAssumption == KeyOf \in [Slots -> Keys]
ASSUME WarmAssumption == Warm \in Nat /\ Warm >= 2
ASSUME BoundsAssumption == /\ MaxBar \in Nat \ {0} /\ MaxQueue \in Nat
                           /\ MaxUpdates \in Nat /\ MaxFaults \in Nat

VARIABLES
    published,  \* Redis ACTIVE_STRATEGIES: number of the change and the active strategies
    writer,     \* UpdateActiveStrategiesAsync: "idle", or "set" before its PUBLISH
    notice,     \* a message on the engine's subscription, not yet consumed
    dirty,      \* EngineCore.config_dirty_
    engine,     \* control point and locals of the main loop's load of the list
    installed,  \* EngineCore.active_strategies_: number of the change and the instances
    seen,       \* per slot, what its instance was given: number of bars and the last one
    history,    \* market_history_: time of the last bar of each key, 0 if there is none
    stream,     \* per key, the OHLC messages in the engine's ZeroMQ queue
    clock,      \* per key, the bar the broker is in
    faults,     \* counter for the bound MaxFaults
    \* History variables, read by properties only.
    entries,    \* entries signalled: slot and bar
    repeated,   \* an entry was signalled twice
    disorder    \* an instance was given a bar it had seen, or an older one

listVars == <<published, writer>>
flagVars == <<notice, dirty>>
engineVars == <<engine, installed, seen, history>>
feedVars == <<stream, clock>>
pastVars == <<entries, repeated, disorder>>
vars == <<listVars, flagVars, engineVars, feedVars, faults, pastVars>>

\* The loop between two loads; warmed: the strategies whose history the last load has got.
Polling == [pc |-> "poll", number |-> 0, todo |-> {}, fresh |-> {}, key |-> {}, warmed |-> {}]
Unseen == [s \in Slots |-> [count |-> 0, last |-> 0]]
NoStrategies == [number |-> 0, slots |-> {}]

Init ==
    /\ published \in [number : {0}, slots : SUBSET Slots]
    /\ writer = "idle"
    /\ notice = FALSE
    /\ dirty = TRUE
    /\ engine = Polling
    /\ installed = NoStrategies
    /\ seen = Unseen
    /\ history = [k \in Keys |-> 0]
    /\ stream = [k \in Keys |-> <<>>]
    /\ clock = [k \in Keys |-> 1]
    /\ faults = 0
    /\ entries = {} /\ repeated = FALSE /\ disorder = FALSE

Fault == faults < MaxFaults /\ faults' = faults + 1
NoFault == UNCHANGED faults

-----------------------------------------------------------------------------
(* The list: SystemService.UpdateActiveStrategiesAsync, and the two requests *)
(* that announce other settings on a channel the engine also listens to.     *)

SetList ==
    /\ writer = "idle" /\ published.number < MaxUpdates
    /\ \E on \in SUBSET Slots : published' = [number |-> published.number + 1, slots |-> on]
    /\ writer' = "set"
    /\ NoFault /\ UNCHANGED <<flagVars, engineVars, feedVars, pastVars>>

PublishList ==
    /\ writer = "set"
    /\ writer' = "idle"
    /\ notice' = TRUE
    /\ NoFault /\ UNCHANGED <<published, dirty, engineVars, feedVars, pastVars>>

\* CHANNEL_CONFIG_UPDATED: the watch list changed; the strategies are reloaded all the same.
PublishOther ==
    /\ notice' = TRUE
    /\ NoFault /\ UNCHANGED <<listVars, dirty, engineVars, feedVars, pastVars>>

\* The Redis thread.
Deliver ==
    /\ notice
    /\ notice' = FALSE
    /\ dirty' = TRUE
    /\ NoFault /\ UNCHANGED <<listVars, engineVars, feedVars, pastVars>>

-----------------------------------------------------------------------------
(* The market: bars follow one another, each with any number of messages.    *)

BarEnds ==
    /\ \E k \in Keys : /\ clock[k] < MaxBar
                       /\ clock' = [clock EXCEPT ![k] = @ + 1]
    /\ NoFault /\ UNCHANGED <<listVars, flagVars, engineVars, stream, pastVars>>

BarMessage ==
    /\ \E k \in Keys : /\ Len(stream[k]) < MaxQueue
                       /\ stream' = [stream EXCEPT ![k] = Append(@, clock[k])]
    /\ NoFault /\ UNCHANGED <<listVars, flagVars, engineVars, clock, pastVars>>

-----------------------------------------------------------------------------
(* run_config_loop and ConfigManager::load_strategies                        *)

LoadUnchanged == UNCHANGED <<listVars, notice, feedVars, entries, repeated>>

ReadList ==
    /\ engine.pc = "poll" /\ dirty
    /\ engine' = [Polling EXCEPT !.pc = "create", !.number = published.number,
                                 !.todo = published.slots]
    /\ NoFault /\ LoadUnchanged /\ UNCHANGED <<dirty, installed, seen, history, disorder>>

\* A new instance; HistoryPreloader::preload asks for bars only if there are none.
CreateInstance ==
    /\ engine.pc = "create"
    /\ \E s \in engine.todo :
          engine' = [engine EXCEPT !.todo = @ \ {s}, !.fresh = @ \cup {s},
                                   !.pc = IF history[KeyOf[s]] = 0 THEN "wait" ELSE "create",
                                   !.key = IF history[KeyOf[s]] = 0 THEN {KeyOf[s]} ELSE {}]
    /\ NoFault /\ LoadUnchanged /\ UNCHANGED <<dirty, installed, seen, history, disorder>>

InstancesOf(k) == {s \in installed.slots : KeyOf[s] = k}

\* The trade manager's answer: the last bars it knows of, n being the latest (none if its
\* data is empty).  on_history_loaded gives them to the instances of active_strategies_.
HistoryArrives ==
    /\ engine.pc = "wait"
    /\ \E k \in engine.key : \E n \in 0..clock[k] :
          LET fed == IF n = 0 THEN {} ELSE InstancesOf(k)
          IN  /\ history' = [history EXCEPT ![k] = n]
              /\ disorder' = (disorder \/ \E s \in fed : seen[s].last > 0)
              /\ seen' = [s \in Slots |-> IF s \in fed THEN [count |-> n, last |-> n]
                                          ELSE seen[s]]
              /\ engine' = [engine EXCEPT !.pc = "create", !.key = {},
                                          !.warmed = IF n = 0 THEN @ ELSE
                                              @ \cup {s \in engine.fresh : KeyOf[s] = k}]
    /\ NoFault /\ LoadUnchanged /\ UNCHANGED <<dirty, installed>>

\* No answer within 100 polls.
HistoryTimesOut ==
    /\ engine.pc = "wait"
    /\ engine' = [engine EXCEPT !.pc = "create", !.key = {}]
    /\ NoFault /\ LoadUnchanged /\ UNCHANGED <<dirty, installed, seen, history, disorder>>

\* An exception (Redis, or the text of the list) ends the load; what was created so far,
\* possibly nothing, is installed.
LoadFails ==
    /\ engine.pc = "create"
    /\ engine' = [engine EXCEPT !.todo = {}]
    /\ Fault /\ LoadUnchanged /\ UNCHANGED <<dirty, installed, seen, history, disorder>>

\* Mutants: an empty list is not installed; the new instances are given the history.
InstallUnlessEmpty ==
    /\ engine.pc = "create" /\ engine.todo = {}
    /\ installed' = IF engine.fresh = {} THEN installed
                    ELSE [number |-> engine.number, slots |-> engine.fresh]
    /\ seen' = Unseen
    /\ dirty' = FALSE
    /\ engine' = [Polling EXCEPT !.warmed = engine.warmed]
    /\ NoFault /\ LoadUnchanged /\ UNCHANGED <<history, disorder>>

InstallWarm ==
    /\ engine.pc = "create" /\ engine.todo = {}
    /\ installed' = [number |-> engine.number, slots |-> engine.fresh]
    /\ seen' = [s \in Slots |-> [count |-> history[KeyOf[s]], last |-> history[KeyOf[s]]]]
    /\ dirty' = FALSE
    /\ engine' = [Polling EXCEPT !.warmed = engine.warmed]
    /\ NoFault /\ LoadUnchanged /\ UNCHANGED <<history, disorder>>

\* The new instances replace the old ones, and with them what these had seen.
Install ==
    /\ engine.pc = "create" /\ engine.todo = {}
    /\ installed' = [number |-> engine.number, slots |-> engine.fresh]
    /\ seen' = Unseen
    /\ dirty' = FALSE
    /\ engine' = [Polling EXCEPT !.warmed = engine.warmed]
    /\ NoFault /\ LoadUnchanged /\ UNCHANGED <<history, disorder>>

-----------------------------------------------------------------------------
(* process_bar: the first message of a bar is given to the strategies, which *)
(* may then signal an entry.                                                 *)

\* Mutant: a bar is dated by its end.
GiveBarDatedByEnd(fed, bar) ==
    /\ disorder' = (disorder \/ \E s \in fed : seen[s].last > bar)
    /\ seen' = [s \in Slots |-> IF s \in fed THEN [count |-> seen[s].count + 1, last |-> bar + 1]
                                ELSE seen[s]]
    /\ UNCHANGED <<entries, repeated>>

\* What a bar does to the instances it is given to, and the entries it may cause.
GiveBar(fed, bar) ==
    /\ disorder' = (disorder \/ \E s \in fed : seen[s].last >= bar)
    /\ seen' = [s \in Slots |-> IF s \in fed THEN [count |-> seen[s].count + 1, last |-> bar]
                                ELSE seen[s]]
    /\ \E entering \in SUBSET {s \in fed : seen[s].count + 1 >= Warm} :
          /\ entries' = entries \cup (entering \X {bar})
          /\ repeated' = (repeated \/ entries \cap (entering \X {bar}) # {})

\* Mutant: every message of a bar is given to the strategies.
ProcessBarEveryMessage ==
    /\ engine.pc = "poll"
    /\ \E k \in Keys :
          /\ stream[k] # <<>>
          /\ stream' = [stream EXCEPT ![k] = Tail(@)]
          /\ history' = [history EXCEPT ![k] = Head(stream[k])]
          /\ GiveBar(InstancesOf(k), Head(stream[k]))
    /\ NoFault /\ UNCHANGED <<listVars, flagVars, engine, installed, clock>>

ProcessBar ==
    /\ engine.pc = "poll"
    /\ \E k \in Keys :
          /\ stream[k] # <<>>
          /\ stream' = [stream EXCEPT ![k] = Tail(@)]
          /\ history' = [history EXCEPT ![k] = Head(stream[k])]
          /\ GiveBar(IF history[k] = Head(stream[k]) THEN {} ELSE InstancesOf(k),
                     Head(stream[k]))
    /\ NoFault /\ UNCHANGED <<listVars, flagVars, engine, installed, clock>>

\* The process dies and Docker restarts it: the flags are set, the queue is a new one.
Restart ==
    /\ engine' = Polling
    /\ installed' = NoStrategies
    /\ seen' = Unseen
    /\ history' = [k \in Keys |-> 0]
    /\ stream' = [k \in Keys |-> <<>>]
    /\ dirty' = TRUE /\ notice' = FALSE
    /\ Fault /\ UNCHANGED <<listVars, clock, pastVars>>

-----------------------------------------------------------------------------
LoadStep == ReadList \/ CreateInstance \/ HistoryArrives \/ HistoryTimesOut \/ Install

Next ==
    \/ SetList \/ PublishList \/ PublishOther \/ Deliver
    \/ BarEnds \/ BarMessage
    \/ LoadStep \/ LoadFails
    \/ ProcessBar
    \/ Restart

Spec == Init /\ [][Next]_vars

\* Both threads run on, and a request that has set the list publishes it.
Fairness == WF_vars(LoadStep) /\ WF_vars(Deliver) /\ WF_vars(PublishList)

FairSpec == Spec /\ Fairness

-----------------------------------------------------------------------------
(* Properties *)

\* The types of the variables.
TypeOK ==
    /\ published \in [number : 0..MaxUpdates, slots : SUBSET Slots]
    /\ writer \in {"idle", "set"}
    /\ notice \in BOOLEAN /\ dirty \in BOOLEAN
    /\ engine \in [pc : {"poll", "create", "wait"}, number : 0..MaxUpdates, todo : SUBSET Slots,
                   fresh : SUBSET Slots, key : SUBSET Keys, warmed : SUBSET Slots]
    /\ installed \in [number : 0..MaxUpdates, slots : SUBSET Slots]
    /\ seen \in [Slots -> [count : Nat, last : 0..MaxBar]]
    /\ history \in [Keys -> 0..MaxBar]
    /\ stream \in [Keys -> Seq(1..MaxBar)]
    /\ clock \in [Keys -> 1..MaxBar]
    /\ faults \in 0..MaxFaults
    /\ entries \subseteq Slots \X (1..MaxBar)
    /\ repeated \in BOOLEAN /\ disorder \in BOOLEAN

\* EngineCore.cpp:276: an instance is given the bars in order, each at most once, although
\* history is loaded while messages of the same bars are queued.
BarsInOrder == ~disorder

\* EngineCore.cpp:276: no strategy signals two entries for one bar, not even when its
\* instance is replaced by a reload or the engine is restarted within the bar.
EntryOncePerBar == ~repeated

\* A change the Redis thread has reported to a polling engine is installed.
NoticeTakesEffect ==
    \A n \in 0..MaxUpdates :
        (dirty /\ engine.pc = "poll" /\ published.number = n) ~> (installed.number >= n)

-----------------------------------------------------------------------------
(* What the documentation says and the code does not keep. *)

\* HistoryPreloader.cpp:51-54: the loaded bars warm the strategy up.
WarmedUp == engine.pc = "poll" => \A s \in engine.warmed \cap installed.slots : seen[s].count > 0
=============================================================================

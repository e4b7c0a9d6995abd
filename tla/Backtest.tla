------------------------------ MODULE Backtest ------------------------------
(***************************************************************************)
(* backtest_engine/run.py: a run in one of its four modes.  The strategies *)
(* get their parameters from the groups of --params, then the mode's       *)
(* action has the engine.                                                  *)
(***************************************************************************)
EXTENDS Audit, WalkForward

CONSTANTS
    Strategies,  \* the names of --strategy, in order
    Groups,      \* what --params may be: sequences of [name, params]
    NoName,      \* of a group without a strategy's name
    NoParams     \* the empty dict

ASSUME GroupsAssumption ==
    /\ Strategies \in Seq(STRING) /\ NoName \notin Range(Strategies)
    /\ \A groups \in Groups : groups \in Seq(Range(groups))
    /\ \A groups \in Groups : \A k \in 1 .. Len(groups) : groups[k].params # NoParams

VARIABLES
    mode,    \* the mode, "parse" before it is known
    params,  \* [strategy's index -> its parameters]
    given    \* the groups of --params

vars == <<mode, params, given, bt, costs, audit, args, gain, wfo>>

Init ==
    /\ mode = "parse"
    /\ given \in Groups
    /\ params = [i \in 1 .. Len(Strategies) |-> NoParams]
    /\ BtInit /\ AuditInit /\ WfoInit

-----------------------------------------------------------------------------
(* Parameters *)

\* Where the groups with a name are; a later group of a name replaces an earlier one.
Named(name) == {k \in 1 .. Len(given) : given[k].name = name}
LastNamed(name) == {k \in Named(name) : \A l \in Named(name) : l <= k}

\* Where the i-th of the groups without a name is, if there are as many.
Positional(i) == {k \in Named(NoName) : Cardinality({l \in Named(NoName) : l <= k}) = i}

ParamsAt(places) == given[CHOOSE k \in places : TRUE].params

\* Mutant: position goes before name.
ParamsByPosition(i) ==
    IF Positional(i) # {} THEN ParamsAt(Positional(i))
    ELSE IF Named(Strategies[i]) # {} THEN ParamsAt(LastNamed(Strategies[i]))
    ELSE NoParams

\* By name, by position among all strategies, the first positional group, or none.
ParamsOf(i) ==
    IF Named(Strategies[i]) # {} THEN ParamsAt(LastNamed(Strategies[i]))
    ELSE IF Positional(i) # {} THEN ParamsAt(Positional(i))
    ELSE IF Positional(1) # {} THEN ParamsAt(Positional(1))
    ELSE NoParams

\* An unknown strategy ends the program.
UnknownStrategy ==
    /\ mode = "parse"
    /\ mode' = "exit"
    /\ UNCHANGED <<params, given, bt, costs, audit, args, gain, wfo>>

SetupEngine ==
    /\ mode = "parse"
    /\ params' = [i \in 1 .. Len(Strategies) |-> ParamsOf(i)]
    /\ mode' \in {"backtest", "optimize", "wfo", "audit"}
    /\ UNCHANGED <<given, bt, costs, audit, args, gain, wfo>>

-----------------------------------------------------------------------------
(* Modes *)

BacktestMode ==
    /\ mode = "backtest"
    /\ RunBacktest \/ Analyze
    /\ UNCHANGED <<mode, params, given, costs, audit, args, gain, wfo>>

\* OptimizeAction: the best combination of all loaded bars; nothing without --opt or data.
OptimizeMode ==
    /\ mode = "optimize"
    /\ \/ \E p \in Best(0 .. args.bars - 1) : args.bars > 0 /\ wfo' = [wfo EXCEPT !.best = p]
       \/ UNCHANGED wfo
    /\ mode' = "exit"
    /\ UNCHANGED <<params, given, bt, costs, audit, args, gain>>

\* WfoAction: without --opt an error, otherwise run_wfo.
NoGrid ==
    /\ mode = "wfo" /\ wfo.pc = "load"
    /\ mode' = "exit"
    /\ UNCHANGED <<params, given, bt, costs, audit, args, gain, wfo>>

WfoMode ==
    /\ mode = "wfo"
    /\ WfoNext
    /\ UNCHANGED <<mode, params, given, bt, costs, audit>>

AuditMode ==
    /\ mode = "audit"
    /\ AuditNext
    /\ UNCHANGED <<mode, params, given, args, gain, wfo>>

Next == UnknownStrategy \/ SetupEngine \/ BacktestMode \/ OptimizeMode \/ NoGrid \/ WfoMode \/ AuditMode
Spec == Init /\ [][Next]_vars

-----------------------------------------------------------------------------
(* Properties *)

TypeOK ==
    /\ mode \in {"parse", "exit", "backtest", "optimize", "wfo", "audit"}
    /\ DOMAIN params = 1 .. Len(Strategies)
    /\ given \in Groups
    /\ BtTypeOK /\ AuditTypeOK /\ WfoTypeOK

\* A strategy's own group of --params always reaches it, and never another strategy.
OwnParams ==
    mode \in {"backtest", "audit"} =>
        \A k \in 1 .. Len(given) : given[k].name # NoName =>
            \A i \in 1 .. Len(Strategies) :
                /\ Strategies[i] = given[k].name =>
                      \E l \in k .. Len(given) :
                          given[l].name = given[k].name /\ params[i] = given[l].params
                /\ params[i] = given[k].params =>
                      \E l \in 1 .. Len(given) :
                          given[l].params = given[k].params /\ given[l].name \in {Strategies[i], NoName}
=============================================================================

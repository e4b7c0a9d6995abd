----------------------------- MODULE MCResearch -----------------------------
(***************************************************************************)
(* The programs a researcher starts by hand: a backtest, and the programs  *)
(* about model files.  They share no state, so one is explored while the   *)
(* other stands at its start.                                              *)
(***************************************************************************)
EXTENDS MCBacktest, MCModelLifecycle

MCStart ==
    /\ mode = "parse" /\ given = <<>> /\ args.bars = 7
    /\ gain = [p \in MCParams |-> [b \in -1 .. 9 |-> MCGain(p, b, 0, 0)]]
    /\ bt.request.labels = <<MCOne>>

MCResearchInit == Init /\ MlInit

MCResearchSpec ==
    /\ MCResearchInit
    /\ [][\/ Next /\ UNCHANGED mlVars
          \/ MlNext /\ UNCHANGED vars]_<<vars, mlVars>>

\* A third training is explored without deaths, and while nothing is collected or served.
MCResearchBounds ==
    /\ MCBounds /\ (MCStart \/ MlInit)
    /\ trained = 3 => deaths = 0 /\ dataset = "whole" /\ collector.pc = "idle" /\ ~tm.up
=============================================================================

-------------------------- MODULE MCModelLifecycle --------------------------
(* Two trainings may overlap each other, a promotion and a collection. *)
EXTENDS ModelLifecycle, TLC

CONSTANTS t1, t2

MCTrainers == {t1, t2}
MCSymmetry == Permutations(MCTrainers)
=============================================================================

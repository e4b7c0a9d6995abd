------------------------- MODULE MCEngineStrategies -------------------------
(* Two strategies on one epic and resolution, or one strategy. *)
EXTENDS EngineStrategies, TLC

CONSTANTS s1, s2, k1

MCSlots == {s1, s2}
MCOneSlot == {s1}
MCKeys == {k1}
MCSameKey == [s \in MCSlots |-> k1]
MCOneKey == [s \in MCOneSlot |-> k1]
MCSymmetry == Permutations(MCSlots)
=============================================================================

-------------------------- MODULE MCBrokerSession --------------------------
(* Instances of BrokerSession for TLC. *)
EXTENDS BrokerSession

MCSessions == 1 .. 6
MCSignals == {[sizing |-> "FIXED", sized |-> TRUE, stop |-> TRUE],
              [sizing |-> "RISK", sized |-> TRUE, stop |-> TRUE],
              [sizing |-> "RISK", sized |-> TRUE, stop |-> FALSE]}
=============================================================================

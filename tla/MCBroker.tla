------------------------------ MODULE MCBroker ------------------------------
(* Instances of Broker for TLC. *)
EXTENDS Broker, TLC

CONSTANTS x1, x2, c1, c2

OneConn   == {x1}
TwoConns  == {x1, x2}
OneCall   == {c1}
TwoCalls  == {c1, c2}

Symmetry == Permutations(TwoConns) \cup Permutations(TwoCalls)
=============================================================================

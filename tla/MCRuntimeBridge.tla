--------------------------- MODULE MCRuntimeBridge ---------------------------
(* Instances of RuntimeBridge for TLC. *)
EXTENDS RuntimeBridge, TLC

CONSTANTS g1, g2, g3, s1, s2

TwoGames    == {g1, g2}
ThreeGames  == {g1, g2, g3}
TwoSessions == {s1, s2}

Symmetry == Permutations(ThreeGames) \cup Permutations(TwoSessions)
=============================================================================

-------------------------- MODULE MCProjectSettings --------------------------
(* One setting of each kind, with the values that the tools tell apart. *)
EXTENDS ProjectSettings

CONSTANTS name, globals, jump, v1, p1, e1

OnePlain    == {name}
OneAutoload == {globals}
OneAction   == {jump}
OneValue    == {v1}
OnePath     == {p1}
TwoOrders   == {1, 2}
TwoZones    == {1, 2}
OneEvent    == {e1}
=============================================================================

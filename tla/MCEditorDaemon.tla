--------------------------- MODULE MCEditorDaemon ---------------------------
(* Two plugins, and daemons enough for a split of the ports. *)
EXTENDS EditorDaemon, TLC

CONSTANTS e1, e2, d1, d2

TwoClients   == {e1, e2}
TwoProcesses == {d1, d2}
Symmetry     == Permutations(TwoClients) \cup Permutations(TwoProcesses)
=============================================================================

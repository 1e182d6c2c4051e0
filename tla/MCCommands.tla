----------------------------- MODULE MCCommands -----------------------------
(* Flags that are blank, given, or numbers about each bound, and an addon   *)
(* of two files.                                                            *)
EXTENDS Commands

CONSTANTS a1, a2, b1

TwoFiles   == {a1, a2}
OneStale   == {b1}
SomeTexts  == {"", " ", "x"}
BlankTexts == {"", " "}
SomeNumbers == {-2, -1, 0, 1}
=============================================================================

------------------------------ MODULE MCRunLog ------------------------------
(* An instance of RunLog for TLC: one reader of all levels, one of errors. *)
EXTENDS RunLog, TLC

CONSTANTS r1, r2, info, error

TwoReaders == {r1, r2}
TwoLevels  == {info, error}
Filters    == (r1 :> TwoLevels) @@ (r2 :> {error})
PageSizes  == {0, 1, 2}
=============================================================================

-------------------------- MODULE MCSudokuPipeline --------------------------
(* Two files, one of which holds two lines, and a name that cannot be opened. *)
EXTENDS SudokuPipeline, TLC

CONSTANTS f1, f2

TwoFiles == {f1, f2}
OneAndTwoLines == (f1 :> 1) @@ (f2 :> 2)
=============================================================================

---------------------------- MODULE SudokuSearch ----------------------------
(***************************************************************************)
(* What the solvers of lab1 have in common: a recursive function that      *)
(* tries the candidates of one place, calls itself for the rest of the     *)
(* board and takes the candidate back when that fails.  Its activations    *)
(* are a stack of frames, and a step is what one activation does between   *)
(* two calls or returns.                                                   *)
(***************************************************************************)
EXTENDS SudokuBoard, Sequences, SequencesExt

CONSTANT Puzzles   \* the puzzles that the input may hold

ASSUME PuzzlesAssumption == Puzzles \subseteq Boards

(* In these modules too, definitions marked "mutant" are plausible mistakes in the
   definition that follows them; no specification uses them. *)

VARIABLES
    solver,   \* which solver the program was started with
    puzzle,   \* the puzzle as it was read
    board,    \* the board, or the ans of a DLX
    frames,   \* the activations of the recursive function, the last one innermost
    mode      \* what happens next

Backtrackers == {"basic", "min_arity", "min_arity_cache"}
LinkSolvers == {"dancing_links", "DLX"}

Searching == {"headers", "build", "call", "next", "undo"}
Answered == {"solved", "failed"}

Depth == Len(frames)
Innermost == frames[Depth]
SetInnermost(frame) == frames' = [frames EXCEPT ![Depth] = frame]

(* The innermost activation returns false, to the one that called it or to main. *)
ReturnFalse ==
    /\ frames' = Front(frames)
    /\ mode' = IF Depth = 1 THEN "failed" ELSE "undo"
=============================================================================

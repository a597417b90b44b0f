---------------------------- MODULE SudokuAnswers ----------------------------
(***************************************************************************)
(* What every solver of lab1 promises the program that calls it: it leaves *)
(* the clues alone, ends with a solution of the puzzle on the board, or    *)
(* says that there is none and leaves the puzzle as it was.  A solver that *)
(* trusts the clues promises no solution when they clash.  No search goes  *)
(* on for ever.                                                            *)
(***************************************************************************)
EXTENDS SudokuBoard

VARIABLES
    trusting,   \* whether the solver trusts the clues
    puzzle,     \* the puzzle
    board,      \* the board that the solver works on
    verdict     \* "none", "searching", "solved" or "unsolvable"

vars == <<trusting, puzzle, board, verdict>>

Init ==
    /\ trusting \in BOOLEAN
    /\ puzzle \in Boards /\ board = puzzle
    /\ verdict = "none"

Ask ==
    /\ verdict # "searching" /\ verdict' = "searching"
    /\ puzzle' \in Boards /\ board' = puzzle'
    /\ UNCHANGED trusting

Guess ==
    /\ verdict = "searching"
    /\ Agrees(board', puzzle)
    /\ UNCHANGED <<trusting, puzzle, verdict>>

Solve ==
    /\ verdict = "searching" /\ verdict' = "solved"
    /\ Solves(board', puzzle) \/ (trusting /\ CluesClash(puzzle))
    /\ UNCHANGED <<trusting, puzzle>>

GiveUp ==
    /\ verdict = "searching" /\ verdict' = "unsolvable"
    /\ board' = puzzle
    /\ ~Solvable(puzzle)
    /\ UNCHANGED <<trusting, puzzle>>

Next == Ask \/ Guess \/ Solve \/ GiveUp

Spec == Init /\ [][Next]_vars

(* Every search ends. *)
FairSpec == Spec /\ (verdict = "searching" ~> verdict # "searching")
=============================================================================

----------------------------- MODULE SudokuBoard -----------------------------
(***************************************************************************)
(* The board of the sudoku solvers of lab1: its cells and their neighbours *)
(* (TearcherCode/neighbor.cc), and what a solution is.  A value is         *)
(* 1..NUM and 0 is a blank.  The code has boxes of three by three cells.   *)
(***************************************************************************)
EXTENDS Naturals, FiniteSets

CONSTANT Box   \* the cells along the edge of a box

ASSUME BoxAssumption == Box \in Nat \ {0}

NUM == Box * Box
N == NUM * NUM
Cells == 0..(N - 1)
Values == 1..NUM
Boards == [Cells -> 0..NUM]

Row(cell) == cell \div NUM
Col(cell) == cell % NUM
BoxOf(cell) == (Row(cell) \div Box) * Box + Col(cell) \div Box

Adjacent(a, b) == Row(a) = Row(b) \/ Col(a) = Col(b) \/ BoxOf(a) = BoxOf(b)

neighbors == [cell \in Cells |-> {n \in Cells : n # cell /\ Adjacent(n, cell)}]

Blanks(b) == {cell \in Cells : b[cell] = 0}

available(b, guess, cell) == \A n \in neighbors[cell] : b[n] # guess

(* solved counts the values of every row, column and box. *)
Units == {{cell \in Cells : Row(cell) = i} : i \in 0..(NUM - 1)}
    \cup {{cell \in Cells : Col(cell) = i} : i \in 0..(NUM - 1)}
    \cup {{cell \in Cells : BoxOf(cell) = i} : i \in 0..(NUM - 1)}

solved(b) == \A u \in Units : {b[cell] : cell \in u} = Values

-----------------------------------------------------------------------------
(* What the answers are compared with; none of it is in the code. *)

Agrees(b, puzzle) == \A cell \in Cells \ Blanks(puzzle) : b[cell] = puzzle[cell]

Solves(b, puzzle) == Agrees(b, puzzle) /\ solved(b)

CluesClash(puzzle) ==
    \E cell \in Cells \ Blanks(puzzle) : ~available(puzzle, puzzle[cell], cell)

Solvable(puzzle) ==
    \E fill \in [Blanks(puzzle) -> Values] :
        solved([cell \in Cells |-> IF puzzle[cell] = 0 THEN fill[cell] ELSE puzzle[cell]])
=============================================================================

--------------------------- MODULE MCSudokuSolvers ---------------------------
(* Puzzles on a board of four by four: a grid with few, most or all of seven cells
   blank, the same with one clue changed, which has no solution or another one, boards
   with few clues or none, and four where a links solver (the first two: Dance, the
   others: DLX) chooses a column with two rows and fails with the first. *)
EXTENDS SudokuSolvers

CONSTANTS AtMost, AtLeast   \* the numbers of blank cells

Grid == <<1, 2, 3, 4,  3, 4, 1, 2,  2, 1, 4, 3,  4, 3, 2, 1>>
Blankable == {0, 1, 4, 5, 7, 10, 14}
Spoilt == {2, 6}

Puzzle(blanks, spoilt, v) ==
    [cell \in Cells |-> IF cell \in blanks THEN 0
                        ELSE IF cell = spoilt THEN v ELSE Grid[cell + 1]]

SomeBlanks == {b \in SUBSET Blankable : Cardinality(b) <= AtMost \/ Cardinality(b) >= AtLeast}
FewClues == {Cells, Cells \ {15}, Cells \ {2, 8, 15}, Cells \ {3, 6, 9, 12}, Cells \ Blankable}

Misleading ==
    {<<0, 1, 4, 0,  4, 0, 0, 0,  1, 0, 2, 0,  0, 0, 0, 0>>,
     <<3, 0, 0, 0,  0, 2, 3, 0,  0, 0, 0, 0,  2, 0, 4, 0>>,
     <<0, 4, 0, 1,  0, 0, 4, 0,  0, 0, 0, 0,  0, 2, 1, 0>>,
     <<2, 0, 0, 0,  0, 0, 0, 2,  0, 0, 0, 0,  1, 0, 0, 4>>}

SmallPuzzles ==
    {Puzzle(blanks, N, 0) : blanks \in SomeBlanks \cup FewClues}
    \cup {[cell \in Cells |-> clues[cell + 1]] : clues \in Misleading}
    \cup {Puzzle(blanks, spoilt, v) : blanks \in SomeBlanks, spoilt \in Spoilt, v \in Values}
=============================================================================

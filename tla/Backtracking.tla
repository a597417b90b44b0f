---------------------------- MODULE Backtracking ----------------------------
(***************************************************************************)
(* The three backtracking solvers of lab1/src/Sudoku/TearcherCode.         *)
(* sudoku_basic.cc fills the blank cells in the order of the board, the    *)
(* other two choose the blank cell with the fewest candidates, which       *)
(* sudoku_min_arity.cc counts on the board and sudoku_min_arity_cache.cc   *)
(* keeps in a cache that every guess updates.                              *)
(***************************************************************************)
EXTENDS SudokuSearch

VARIABLES
    spaces,     \* the blank cells; the first Depth of them are being filled
    occupied,   \* the cache: the values that each cell cannot take
    arity       \* the cache: the number of values it can take

cache == <<occupied, arity>>
nspaces == Len(spaces)

(* The board is empty before the first puzzle is read, as are the caches. *)
NoPuzzle == [cell \in Cells |-> 0]

(* The loop over the board: the blank cells among the first k. *)
find_spaces(b) ==
    LET found[k \in 0..N] == IF k = 0 THEN <<>>
                             ELSE IF b[k - 1] = 0 THEN Append(found[k - 1], k - 1)
                             ELSE found[k - 1]
    IN found[N]

Clues(p, cell) == {p[n] : n \in neighbors[cell]} \ {0}

InitialOccupied(p) ==
    [cell \in Cells |-> [v \in 0..NUM |-> v = 0 \/ v \in Clues(p, cell) \/ v = p[cell]]]
(* Only a value not yet marked is counted, so the clue of the cell itself counts only
   when a neighbour before it on the board holds it too. *)
InitialArity(p) ==
    [cell \in Cells |->
        NUM - Cardinality({v \in Clues(p, cell) :
            v = p[cell] => \E n \in neighbors[cell] : n < cell /\ p[n] = v})]

(* input followed by init_cache: nothing is left of the last puzzle. *)
ReadIntoCache(p) ==
    /\ spaces' = find_spaces(p)
    /\ occupied' = InitialOccupied(p)
    /\ arity' = InitialArity(p)

-----------------------------------------------------------------------------
Arity(cell) ==
    IF solver = "min_arity_cache" THEN arity[cell]
    ELSE NUM - Cardinality(Clues(board, cell))

(* find_min_arity looks at the cells not yet filled, stops at the first with at most
   one candidate, and swaps its choice to the front of them. *)
Cost(sp) == IF Arity(spaces[sp]) > 1 THEN Arity(spaces[sp]) ELSE 1

FromTheStart(space) == 1..nspaces                                         \* mutant
Unfilled(space) == space..nspaces

FindMinArity(space) ==
    IF solver = "basic" THEN spaces
    ELSE LET cheapest == {sp \in Unfilled(space) :
                            \A other \in Unfilled(space) : Cost(sp) <= Cost(other)}
             chosen == Min(cheapest)
         IN [spaces EXCEPT ![space] = spaces[chosen], ![chosen] = spaces[space]]

FitsTheClues(guess, cell) == available(puzzle, guess, cell)              \* mutant
Fits(guess, cell) ==
    IF solver = "min_arity_cache" THEN ~occupied[cell][guess]
    ELSE available(board, guess, cell)

(* The neighbours that a guess takes a candidate from: the array modified. *)
AllNeighbors(cell, guess) == neighbors[cell]                              \* mutant
Modified(cell, guess) == {n \in neighbors[cell] : ~occupied[n][guess]}

Mark(cell, modified, guess, on) ==
    occupied' = [c \in Cells |-> IF c \in modified \cup {cell}
                                 THEN [occupied[c] EXCEPT ![guess] = on] ELSE occupied[c]]

-----------------------------------------------------------------------------
FoundLastSpace ==
    /\ solver \in Backtrackers /\ mode = "call"
    /\ Depth = nspaces
    /\ mode' = "solved"
    /\ UNCHANGED <<solver, puzzle, board, frames, spaces, cache>>

ChooseSpace ==
    /\ solver \in Backtrackers /\ mode = "call"
    /\ Depth < nspaces
    /\ spaces' = FindMinArity(Depth + 1)
    /\ frames' = Append(frames, [cell |-> spaces'[Depth + 1], guess |-> 0, modified |-> {}])
    /\ mode' = "next"
    /\ UNCHANGED <<solver, puzzle, board, cache>>

Guesses(f) == {g \in Values : g > f.guess /\ Fits(g, f.cell)}

Hold ==
    /\ solver \in Backtrackers /\ mode = "next"
    /\ Guesses(Innermost) # {}
    /\ LET cell == Innermost.cell
           guess == Min(Guesses(Innermost))
           modified == IF solver = "min_arity_cache" THEN Modified(cell, guess) ELSE {}
       IN /\ board' = [board EXCEPT ![cell] = guess]
          /\ SetInnermost([cell |-> cell, guess |-> guess, modified |-> modified])
          /\ IF solver = "min_arity_cache"
             THEN /\ Mark(cell, modified, guess, TRUE)
                  /\ arity' = [c \in Cells |-> IF c \in modified THEN arity[c] - 1 ELSE arity[c]]
             ELSE UNCHANGED cache
    /\ mode' = "call"
    /\ UNCHANGED <<solver, puzzle, spaces>>

OutOfGuesses ==
    /\ solver \in Backtrackers /\ mode = "next"
    /\ Guesses(Innermost) = {}
    /\ ReturnFalse
    /\ UNCHANGED <<solver, puzzle, board, spaces, cache>>

(* The array modified says which marks a guess left. *)
MarkedByAll(f) == neighbors[f.cell]                                       \* mutant
MarkedBy(f) == f.modified

Unhold ==
    /\ solver \in Backtrackers /\ mode = "undo"
    /\ board' = [board EXCEPT ![Innermost.cell] = 0]
    /\ IF solver = "min_arity_cache"
       THEN /\ Mark(Innermost.cell, MarkedBy(Innermost), Innermost.guess, FALSE)
            /\ arity' = [c \in Cells |->
                           IF c \in Innermost.modified THEN arity[c] + 1 ELSE arity[c]]
       ELSE UNCHANGED cache
    /\ mode' = "next"
    /\ UNCHANGED <<solver, puzzle, frames, spaces>>

BacktrackingStep == FoundLastSpace \/ ChooseSpace \/ Hold \/ OutOfGuesses \/ Unhold
=============================================================================

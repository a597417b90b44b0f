---------------------------- MODULE SudokuSolvers ----------------------------
(***************************************************************************)
(* The sudoku programs of lab1: one puzzle after the other is read and     *)
(* given to the solver that the program was started with.  TearcherCode    *)
(* takes the solver from its arguments, Sudoku/3.cpp always uses DLX.      *)
(* Puzzles follow each other on the same global board, spaces and caches.  *)
(***************************************************************************)
EXTENDS Backtracking, DancingLinks

vars == <<solver, puzzle, board, frames, mode, spaces, occupied, arity, links, built>>

Init ==
    /\ solver \in Backtrackers \cup LinkSolvers
    /\ puzzle = NoPuzzle /\ board = NoPuzzle
    /\ spaces = <<>>
    /\ occupied = [cell \in Cells |-> [v \in 0..NUM |-> FALSE]]
    /\ arity = [cell \in Cells |-> 0]
    /\ links = NoLinks /\ built = NoLinks
    /\ frames = <<>>
    /\ mode = "idle"

(* A program of TearcherCode stops at its assertion when a solver claims a solution
   that solved rejects. *)
NotStopped == mode = "solved" /\ solver # "DLX" => solved(board)

ReadPuzzle(p) ==
    /\ mode \in Answered \cup {"idle"}
    /\ NotStopped
    /\ puzzle' = p /\ board' = p
    /\ IF solver = "DLX" THEN UNCHANGED <<spaces, cache>> ELSE ReadIntoCache(p)
    /\ links' = NoLinks /\ built' = NoLinks
    /\ frames' = <<>>
    /\ mode' = IF solver \in LinkSolvers THEN "headers" ELSE "call"
    /\ UNCHANGED solver

Search ==
    \/ BacktrackingStep /\ UNCHANGED <<links, built>>
    \/ LinksStep /\ UNCHANGED <<spaces, cache>>

(* After its assertion the program does nothing any more. *)
Stopped == ~NotStopped /\ UNCHANGED vars

Next == Search \/ (\E p \in Puzzles : ReadPuzzle(p)) \/ Stopped

Spec == Init /\ [][Next]_vars

(* The solver is one thread that nothing blocks.  This is WF_vars(Search), written
   without ENABLED: in every mode of Searching there is a step, as the run's deadlock
   check confirms, and it is a step of Search. *)
Fairness == []<>(mode \notin Searching) \/ []<><<TRUE>>_vars
FairSpec == Spec /\ Fairness

-----------------------------------------------------------------------------
BacktrackFrames ==
    Seq([cell : Cells, guess : 0..NUM, modified : SUBSET Cells])
LinkFrames == Seq([col : 1..(4 * N), node : 1..links.tot])

(* The variables keep to their types; in particular no arity goes below zero. *)
TypeOK ==
    /\ solver \in Backtrackers \cup LinkSolvers
    /\ puzzle \in Boards /\ board \in Boards
    /\ spaces \in Seq(Cells)
    /\ occupied \in [Cells -> [0..NUM -> BOOLEAN]]
    /\ arity \in [Cells -> 0..NUM]
    /\ frames \in (IF solver \in Backtrackers THEN BacktrackFrames ELSE LinkFrames)
    /\ \A c \in DOMAIN links.siz : links.siz[c] \in 0..NUM
    /\ mode \in Searching \cup Answered \cup {"idle"}

(* The cache of sudoku_min_arity_cache.cc is what the other solvers count on the board:
   for every cell still blank, a value is marked exactly when a neighbour holds it, and
   arity is the number of values not marked, whatever was guessed and taken back. *)
CacheMatchesBoard ==
    solver = "min_arity_cache" /\ mode \in {"call", "next"} =>
        \A cell \in Blanks(board) :
            /\ {v \in Values : occupied[cell][v]} = Clues(board, cell)
            /\ arity[cell] = NUM - Cardinality(Clues(board, cell))

(* The swaps of find_min_arity happen below activations that hold cells of their own:
   spaces stays an enumeration of the blank cells of the puzzle, its first part are the
   cells that the activations hold, in their order, and exactly the cells behind them
   are blank (the assertions of the solvers on board[cell]). *)
SpacesFollowTheFrames ==
    solver \in Backtrackers /\ mode \in Searching =>
        /\ ToSet(spaces) = Blanks(puzzle) /\ Len(spaces) = Cardinality(Blanks(puzzle))
        /\ \A i \in DOMAIN frames : spaces[i] = frames[i].cell
        /\ \A i \in DOMAIN spaces :
              board[spaces[i]] = (IF i > Depth \/ (i = Depth /\ mode = "next") THEN 0
                                  ELSE frames[i].guess)

(* When dance or solve is entered, the links hold exactly what the rows on the stack
   leave: the columns that none of them has, each with the rows that share no column
   with them, linked the same way up as down and counted right.  Every removal under
   the way, and every recovery in the reverse order, has to be exact for that. *)
LinksHoldWhatIsLeft ==
    solver \in LinkSolvers /\ mode = "call" =>
        LET rowIds == {id \in 1..(N * NUM) : IsCandidate(puzzle, CellOf(id), ValueOf(id))}
            columns(id) == ToSet(ColumnsOf(CellOf(id), ValueOf(id)))
            met == UNION {columns(links.row[frames[i].node]) : i \in DOMAIN frames}
            left == {id \in rowIds : columns(id) \cap met = {}}
        IN /\ ToSet(Ring(links.R, root)) = ToSet(ColumnOrder(puzzle)) \ met
           /\ Ring(links.L, root) = Reverse(Ring(links.R, root))
           /\ \A c \in ToSet(Ring(links.R, root)) :
                 LET down == Ring(links.D, c)
                 IN /\ {links.row[n] : n \in ToSet(down)} = {id \in left : c \in columns(id)}
                    /\ Ring(links.U, c) = Reverse(down)
                    /\ links.siz[c] = Len(down)

(* A search that fails leaves no trace: the board, the cache and every link are what
   they were when it began. *)
FailureLeavesNoTrace ==
    mode = "failed" =>
        /\ board = puzzle
        /\ solver \in LinkSolvers => links = built
        /\ solver \in Backtrackers => occupied = InitialOccupied(puzzle) /\ arity = InitialArity(puzzle)

Verdict ==
    CASE mode = "idle" -> "none"
      [] mode \in Searching -> "searching"
      [] mode = "solved" -> "solved"
      [] mode = "failed" -> "unsolvable"

Promise == INSTANCE SudokuAnswers
    WITH trusting <- solver \in Backtrackers, verdict <- Verdict

(* Every solver implements SudokuAnswers: it solves what can be solved and rejects what
   cannot; those that backtrack may claim a wrong solution only when clues clash, and
   the links solvers reject such a puzzle as well.  Every puzzle that is read gets its
   answer. *)
AnswersAreRight == Promise!FairSpec
=============================================================================

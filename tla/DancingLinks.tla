---------------------------- MODULE DancingLinks ----------------------------
(***************************************************************************)
(* The two dancing links solvers of lab1: DLX of Sudoku/DLX.h, which       *)
(* Sudoku/3.cpp uses, and Dance of TearcherCode/sudoku_dancing_links.cc.   *)
(* A candidate <<cell, value>> is a row with a node in the four columns of *)
(* the constraints it meets.  Nodes are linked in both directions, to the  *)
(* left and right along the row and up and down along the column, and the  *)
(* headers of the columns form a row with the root.                        *)
(*                                                                         *)
(* DLX adds a new node at the top of its column and next to the first node *)
(* of its row, has every column and makes rows for the clues as well;      *)
(* Dance adds it at the bottom and at the end, and has the columns and     *)
(* rows that the clues leave open.                                         *)
(***************************************************************************)
EXTENDS SudokuSearch

VARIABLES
    links,   \* the nodes of the solver of this puzzle, or NoLinks
    built    \* history: the links when the search began

root == 0

(* The columns of a candidate: its value in the row, in the column and in the box of
   the board, and its cell.  f1, f2, f3 and f4 of Insert. *)
RowColumn(row, v) == row * NUM + v
ColColumn(col, v) == N + col * NUM + v
BoxColumn(box, v) == 2 * N + box * NUM + v
CellColumn(cell) == 3 * N + cell + 1

ColumnsOf(cell, v) ==
    <<RowColumn(Row(cell), v), ColColumn(Col(cell), v),
      BoxColumn(BoxOf(cell), v), CellColumn(cell)>>

GetId(cell, v) == cell * NUM + v
CellOf(id) == (id - 1) \div NUM
ValueOf(id) == ((id - 1) % NUM) + 1

-----------------------------------------------------------------------------
(* L, R, U, D and siz, col, row, tot of DLX; left, right, up, down, size and col of
   the nodes of Dance, whose names give what row gives here. *)

(* A loop over seq that changes the links k at each element. *)
DoAll(Op(_, _), k, seq) ==
    LET after[i \in 0..Len(seq)] == IF i = 0 THEN k ELSE Op(after[i - 1], seq[i])
    IN after[Len(seq)]

NoLinks == [tot |-> 4 * N, L |-> [c \in {root} |-> root], R |-> [c \in {root} |-> root],
            U |-> <<>>, D |-> <<>>, siz |-> <<>>, col |-> <<>>, row |-> <<>>]

(* The headers in a row with the root: build of DLX, append_column of Dance. *)
Headers(order) ==
    LET ring == <<root>> \o order
        Place(c) == CHOOSE i \in DOMAIN ring : ring[i] = c
        itself == [c \in ToSet(order) |-> c]
    IN [NoLinks EXCEPT !.R = [c \in ToSet(ring) |-> ring[(Place(c) % Len(ring)) + 1]],
                       !.L = [c \in ToSet(ring) |->
                                IF c = root THEN Last(ring) ELSE ring[Place(c) - 1]],
                       !.U = itself, !.D = itself, !.siz = [c \in ToSet(order) |-> 0]]

(* A new node below "above" in column c, and to the right of "left", if any. *)
Put(f, x, y) == [z \in DOMAIN f \cup {x} |-> IF z = x THEN y ELSE f[z]]
AddNode(k, id, c, above, left) ==
    LET n == k.tot + 1
        below == k.D[above]
        right == IF left = n THEN n ELSE k.R[left]
    IN [k EXCEPT !.tot = n, !.siz[c] = @ + 1,
                 !.col = Put(@, n, c), !.row = Put(@, n, id),
                 !.D = Put(Put(@, above, n), n, below), !.U = Put(Put(@, below, n), n, above),
                 !.R = Put(Put(@, left, n), n, right), !.L = Put(Put(@, right, n), n, left)]

DLXInsert(k, cell, v) ==
    LET first == k.tot + 1
    IN DoAll(LAMBDA l, c : AddNode(l, GetId(cell, v), c, c, first), k, ColumnsOf(cell, v))

DanceRow(k, cell, v) ==
    LET n0 == k.tot + 1
        f == ColumnsOf(cell, v)
        Last0(l) == IF l.tot = k.tot THEN n0 ELSE l.L[n0]
    IN DoAll(LAMBDA l, c : AddNode(l, GetId(cell, v), c, l.U[c], Last0(l)),
                k, <<f[4], f[1], f[2], f[3]>>)

-----------------------------------------------------------------------------
(* The rows and columns that each solver builds, in its order. *)

IsCandidate(p, cell, v) ==
    IF solver = "DLX" THEN p[cell] \in {0, v} ELSE p[cell] = 0 /\ available(p, v, cell)

(* rows, cols and boxes of Dance: the clues meet these columns. *)
MetByClues(p) == UNION {ToSet(ColumnsOf(cell, p[cell])) : cell \in Cells \ Blanks(p)}

(* Dance appends the columns of the cells, then for every unit and value those of the
   row, the column and the box; DLX goes by number. *)
DanceColumn(i) == IF i <= N THEN 3 * N + i ELSE N * ((i - N - 1) % 3) + (i - N - 1) \div 3 + 1
ColumnOrder(p) ==
    IF solver = "DLX" THEN [i \in 1..(4 * N) |-> i]
    ELSE LET open[i \in 0..(4 * N)] ==
                 IF i = 0 THEN <<>>
                 ELSE IF DanceColumn(i) \in MetByClues(p) THEN open[i - 1]
                 ELSE Append(open[i - 1], DanceColumn(i))
         IN open[4 * N]

(* The candidate whose row is built next, by number. *)
RowsToBuild ==
    {id \in 1..(N * NUM) :
        /\ IsCandidate(board, CellOf(id), ValueOf(id))
        /\ links.tot > 4 * N => id > links.row[links.tot]}

-----------------------------------------------------------------------------
(* The nodes met from n, in the direction of dir, before n is met again; there are no
   more of them than there are nodes. *)
Ring(dir, n) ==
    LET from[most \in 0..Cardinality(DOMAIN dir)] ==
            [m \in DOMAIN dir |->
                IF most = 0 \/ m = n THEN <<>> ELSE <<m>> \o from[most - 1][dir[m]]]
    IN from[Cardinality(DOMAIN dir)][dir[n]]

Unlink(k, j) ==
    [k EXCEPT !.U[k.D[j]] = k.U[j], !.D[k.U[j]] = k.D[j], !.siz[k.col[j]] = @ - 1]
Relink(k, j) ==
    [k EXCEPT !.U[k.D[j]] = j, !.D[k.U[j]] = j, !.siz[k.col[j]] = @ + 1]

(* The other nodes of the row of i leave their columns and return to them. *)
UnlinkRow(k, i) == DoAll(Unlink, k, Ring(k.R, i))
RelinkRow(k, i) == DoAll(Relink, k, Ring(k.L, i))

(* remove of DLX, cover of Dance.  The rows are met along links that no row changes. *)
Cover(k, c) ==
    DoAll(UnlinkRow, [k EXCEPT !.L[k.R[c]] = k.L[c], !.R[k.L[c]] = k.R[c]], Ring(k.D, c))

(* recover of DLX, uncover of Dance. *)
Uncover(k, c) ==
    LET rows == DoAll(RelinkRow, k, Ring(k.U, c))
    IN [rows EXCEPT !.L[k.R[c]] = c, !.R[k.L[c]] = c]

ColumnsAlong(k, dir, node) ==
    LET nodes == Ring(dir, node) IN [i \in DOMAIN nodes |-> k.col[nodes[i]]]

CoverRow(k, node) == DoAll(Cover, k, ColumnsAlong(k, k.R, node))
UncoverRowForwards(k, node) == DoAll(Uncover, k, ColumnsAlong(k, k.R, node))   \* mutant
UncoverRow(k, node) == DoAll(Uncover, k, ColumnsAlong(k, k.L, node))

-----------------------------------------------------------------------------
(* The smallest column, the first of them; Dance stops at a column with at most one
   row. *)
Size(c) == IF solver = "DLX" \/ links.siz[c] > 1 THEN links.siz[c] ELSE 1
MinColumn ==
    LET ring == Ring(links.R, root)
        smallest == {i \in DOMAIN ring : \A j \in DOMAIN ring : Size(ring[i]) <= Size(ring[j])}
    IN ring[Min(smallest)]

(* The board with the rows on the stack written into it. *)
WithRows(b) ==
    LET chosen == {links.row[frames[i].node] : i \in DOMAIN frames}
    IN [cell \in Cells |-> IF \E id \in chosen : CellOf(id) = cell
                           THEN ValueOf(CHOOSE id \in chosen : CellOf(id) = cell)
                           ELSE b[cell]]

BuildHeaders ==
    /\ solver \in LinkSolvers /\ mode = "headers"
    /\ links' = Headers(ColumnOrder(board))
    /\ mode' = "build"
    /\ UNCHANGED <<solver, puzzle, board, frames, built>>

BuildRow ==
    /\ mode = "build" /\ RowsToBuild # {}
    /\ LET id == Min(RowsToBuild)
       IN links' = IF solver = "DLX" THEN DLXInsert(links, CellOf(id), ValueOf(id))
                   ELSE DanceRow(links, CellOf(id), ValueOf(id))
    /\ UNCHANGED <<solver, puzzle, board, frames, mode, built>>

StartDancing ==
    /\ mode = "build" /\ RowsToBuild = {}
    /\ built' = links
    /\ mode' = "call"
    /\ UNCHANGED <<solver, puzzle, board, frames, links>>

NoColumnLeft ==
    /\ solver \in LinkSolvers /\ mode = "call"
    /\ links.R[root] = root
    /\ board' = WithRows(board)
    /\ mode' = "solved"
    /\ UNCHANGED <<solver, puzzle, frames, links, built>>

ChooseColumn ==
    /\ solver \in LinkSolvers /\ mode = "call"
    /\ links.R[root] # root
    /\ links' = Cover(links, MinColumn)
    /\ frames' = Append(frames, [col |-> MinColumn, node |-> MinColumn])
    /\ mode' = "next"
    /\ UNCHANGED <<solver, puzzle, board, built>>

NextRow == links.D[Innermost.node]

TryRow ==
    /\ solver \in LinkSolvers /\ mode = "next"
    /\ NextRow # Innermost.col
    /\ SetInnermost([Innermost EXCEPT !.node = NextRow])
    /\ links' = CoverRow(links, NextRow)
    /\ mode' = "call"
    /\ UNCHANGED <<solver, puzzle, board, built>>

LeaveCovered(k, c) == k                                                   \* mutant
Reinstate(k, c) == Uncover(k, c)

OutOfRows ==
    /\ solver \in LinkSolvers /\ mode = "next"
    /\ NextRow = Innermost.col
    /\ links' = Reinstate(links, Innermost.col)
    /\ ReturnFalse
    /\ UNCHANGED <<solver, puzzle, board, built>>

TakeRowBack ==
    /\ solver \in LinkSolvers /\ mode = "undo"
    /\ links' = UncoverRow(links, Innermost.node)
    /\ mode' = "next"
    /\ UNCHANGED <<solver, puzzle, board, frames, built>>

LinksStep ==
    \/ BuildHeaders \/ BuildRow \/ StartDancing
    \/ NoColumnLeft \/ ChooseColumn \/ TryRow \/ OutOfRows \/ TakeRowBack
=============================================================================

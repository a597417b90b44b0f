------------------------ MODULE SudokuSolvers_proofs ------------------------
(***************************************************************************)
(* The backtracking solvers of lab1 are right, for boards of every size    *)
(* and all puzzles: they enumerate the blank cells, the cache agrees with  *)
(* the board, they give up only what has no solution, and what they fill   *)
(* in is a solution unless the clues clash.                                *)
(***************************************************************************)
EXTENDS SudokuSolvers, FiniteSetTheorems, WellFoundedInduction, TLAPS

-----------------------------------------------------------------------------
(* Numbers. *)

(* The sizes of the board are positive and its cells and values finite. *)
LEMMA BoardSizes ==
    /\ Box \in Nat \ {0} /\ NUM \in Nat \ {0} /\ N \in Nat \ {0}
    /\ Cells \subseteq Nat /\ IsFiniteSet(Cells) /\ 0 \in Cells
    /\ Values \subseteq Nat \ {0} /\ Values \subseteq 0..NUM
    /\ IsFiniteSet(Values) /\ Cardinality(Values) = NUM
<1>1. Box \in Nat \ {0}
  BY BoxAssumption
<1>2. NUM \in Nat \ {0}
  BY <1>1 DEF NUM
<1>3. N \in Nat \ {0}
  BY <1>2 DEF N
<1>4. IsFiniteSet(Cells) /\ IsFiniteSet(Values) /\ Cardinality(Values) = NUM
  BY <1>2, <1>3, FS_Interval DEF Cells, Values
<1> QED
  BY <1>1, <1>2, <1>3, <1>4 DEF Cells, Values

(* Induction on the natural numbers, as a fact about sets. *)
LEMMA NatSetInduction ==
    ASSUME NEW S, 0 \in S, \A n \in Nat : n \in S => n + 1 \in S
    PROVE  Nat \subseteq S
<1> SUFFICES ASSUME NEW k \in Nat \ S PROVE FALSE
  OBVIOUS
<1>1. PICK m \in Nat \ S : \A n \in Nat \ S : ~(<<n, m>> \in OpToRel(<, Nat))
  BY NatLessThanWellFounded, WFMin
<1>2. m # 0 /\ m - 1 \in Nat /\ m - 1 < m
  OBVIOUS
<1>3. <<m - 1, m>> \in OpToRel(<, Nat) /\ m - 1 \notin S
  BY <1>2 DEF OpToRel
<1> QED
  BY <1>1, <1>2, <1>3

(* Every set of numbers has a least one. *)
LEMMA LeastNumber ==
    ASSUME NEW S, S \subseteq Nat, S # {}
    PROVE  Min(S) \in S /\ \A x \in S : Min(S) <= x
<1>1. PICK m \in S : \A x \in S : ~(<<x, m>> \in OpToRel(<, Nat))
  BY NatLessThanWellFounded, WFMin
<1>2. ASSUME NEW x \in S PROVE m <= x
  <2>1. m \in Nat /\ x \in Nat
    OBVIOUS
  <2>2. x < m => <<x, m>> \in OpToRel(<, Nat)
    BY <2>1 DEF OpToRel
  <2>3. ~(x < m)
    BY <1>1, <2>2, Zenon
  <2> QED
    BY <2>1, <2>3
<1> QED
  BY <1>2 DEF Min

-----------------------------------------------------------------------------
(* Sequences that hold each element of a set once. *)

Enumerates(s, T) ==
    /\ s \in Seq(T)
    /\ \A i, j \in 1..Len(s) : s[i] = s[j] => i = j
    /\ \A c \in T : \E i \in 1..Len(s) : s[i] = c

(* A new element at the end of an enumeration. *)
LEMMA EnumeratesMore ==
    ASSUME NEW T, NEW s, NEW c, Enumerates(s, T), c \notin T
    PROVE  Enumerates(Append(s, c), T \cup {c})
<1> DEFINE l == Len(s)
           t == Append(s, c)
           U == T \cup {c}
<1>1. s \in Seq(T)
  BY DEF Enumerates
<1>2. s \in Seq(U) /\ l \in Nat
  BY <1>1
<1>3. /\ t \in Seq(U) /\ Len(t) = l + 1 /\ t[l + 1] = c
      /\ \A i \in 1..l : t[i] = s[i] /\ t[i] \in T
  BY <1>1, <1>2
<1>4. /\ \A i, j \in 1..l : s[i] = s[j] => i = j
      /\ \A d \in T : \E i \in 1..l : s[i] = d
  BY DEF Enumerates
<1> HIDE DEF l, t
<1>5. \A i, j \in 1..(l + 1) : t[i] = t[j] => i = j
  <2> SUFFICES ASSUME NEW i \in 1..(l + 1), NEW j \in 1..(l + 1), t[i] = t[j] PROVE i = j
    OBVIOUS
  <2>1. /\ i = l + 1 \/ i \in 1..l
        /\ j = l + 1 \/ j \in 1..l
    BY <1>2
  <2> QED
    BY <1>3, <1>4, <2>1
<1>6. \A d \in U : \E i \in 1..(l + 1) : t[i] = d
  <2> SUFFICES ASSUME NEW d \in U PROVE \E i \in 1..(l + 1) : t[i] = d
    OBVIOUS
  <2>1. CASE d = c
    BY <1>2, <1>3, <2>1
  <2>2. CASE d \in T
    <3>1. PICK i \in 1..l : s[i] = d
      BY <1>4, <2>2
    <3> QED
      BY <1>2, <1>3, <3>1
  <2> QED
    BY <2>1, <2>2
<1> QED
  BY <1>3, <1>5, <1>6 DEF Enumerates, t, U

(* An enumeration is as long as its set. *)
LEMMA EnumeratesAll ==
    ASSUME NEW T, NEW s, Enumerates(s, T)
    PROVE  /\ ToSet(s) = T
           /\ IsFiniteSet(T) /\ Len(s) = Cardinality(T)
<1> DEFINE D == 1..Len(s)
<1>1. /\ s \in [D -> T] /\ DOMAIN s = D /\ Len(s) \in Nat
      /\ \A i, j \in D : s[i] = s[j] => i = j
      /\ \A c \in T : \E i \in D : s[i] = c
  BY DEF Enumerates
<1>2. ToSet(s) = T
  BY <1>1 DEF ToSet
<1>3. IsFiniteSet(D) /\ Cardinality(D) = Len(s)
  BY <1>1, FS_Interval
<1> HIDE DEF D
<1>4. s \in Surjection(D, T) /\ s \in Injection(D, T)
  BY <1>1 DEF Surjection, Injection, IsInjective
<1>5. IsFiniteSet(T) /\ Cardinality(T) = Cardinality(D)
  BY <1>3, <1>4, FS_Surjection
<1> QED
  BY <1>2, <1>3, <1>5

(* find_spaces finds the blank cells. *)
Finding(b, f, k) ==
    f = [j \in 0..k |-> IF j = 0 THEN <<>>
                        ELSE IF b[j - 1] = 0 THEN Append(f[j - 1], j - 1)
                        ELSE f[j - 1]]

(* The recursive function of find_spaces exists. *)
LEMMA FindingExists ==
    ASSUME NEW b, NEW k \in Nat
    PROVE  \E f : Finding(b, f, k)
<1> DEFINE S == {n \in Nat : \E f : Finding(b, f, n)}
<1>1. 0 \in S
  <2>1. Finding(b, [j \in 0..0 |-> <<>>], 0)
    BY DEF Finding
  <2> QED
    BY <2>1
<1>2. ASSUME NEW n \in Nat, n \in S PROVE n + 1 \in S
  <2>1. PICK f : Finding(b, f, n)
    BY <1>2
  <2> DEFINE last == IF b[n] = 0 THEN Append(f[n], n) ELSE f[n]
             g == [j \in 0..(n + 1) |-> IF j = n + 1 THEN last ELSE f[j]]
  <2>2. \A j \in 0..n : f[j] = IF j = 0 THEN <<>>
                               ELSE IF b[j - 1] = 0 THEN Append(f[j - 1], j - 1)
                               ELSE f[j - 1]
    BY <2>1 DEF Finding
  <2>3. DOMAIN g = 0..(n + 1) /\ g = [j \in 0..(n + 1) |-> g[j]]
    OBVIOUS
  <2>4. g[n + 1] = last /\ \A j \in 0..n : g[j] = f[j]
    OBVIOUS
  <2> HIDE DEF g
  <2>5. ASSUME NEW j \in 0..(n + 1)
        PROVE  g[j] = IF j = 0 THEN <<>>
                      ELSE IF b[j - 1] = 0 THEN Append(g[j - 1], j - 1)
                      ELSE g[j - 1]
    <3>1. CASE j = n + 1
      <4>1. j # 0 /\ j - 1 = n /\ g[j - 1] = f[n]
        BY <2>4, <3>1
      <4> QED
        BY <2>4, <3>1, <4>1
    <3>2. CASE j \in 1..n
      <4>1. g[j] = f[j] /\ g[j - 1] = f[j - 1] /\ j # 0
        BY <2>4, <3>2
      <4> QED
        BY <2>2, <3>2, <4>1
    <3>3. CASE j = 0
      BY <2>2, <2>4, <3>3
    <3> QED
      BY <3>1, <3>2, <3>3
  <2>6. Finding(b, g, n + 1)
    BY <2>3, <2>5 DEF Finding
  <2> QED
    BY <2>6
<1> HIDE DEF S
<1>3. k \in S
  BY <1>1, <1>2, NatSetInduction
<1> QED
  BY <1>3 DEF S

(* What find_spaces returns enumerates the blank cells. *)
LEMMA FindSpaces ==
    ASSUME NEW b \in Boards
    PROVE  Enumerates(find_spaces(b), Blanks(b))
<1> DEFINE f == CHOOSE g : Finding(b, g, N)
           Before(k) == {c \in Blanks(b) : c < k}
           S == {k \in Nat : k <= N => Enumerates(f[k], Before(k))}
<1>1. find_spaces(b) = f[N]
  BY DEF find_spaces, Finding
<1>2. Finding(b, f, N)
  BY FindingExists, BoardSizes
<1> HIDE DEF f
<1>3. \A k \in 0..N : f[k] = IF k = 0 THEN <<>>
                             ELSE IF b[k - 1] = 0 THEN Append(f[k - 1], k - 1)
                             ELSE f[k - 1]
  BY <1>2 DEF Finding
<1>4. 0 \in S
  <2>1. f[0] = <<>>
    BY <1>3, BoardSizes
  <2>2. Before(0) = {}
    <3>1. \A c \in Blanks(b) : ~(c < 0)
      BY BoardSizes DEF Blanks
    <3> QED
      BY <3>1
  <2>3. Enumerates(<<>>, {})
    BY DEF Enumerates
  <2> QED
    BY <2>1, <2>2, <2>3
<1>5. ASSUME NEW k \in Nat, k \in S, k + 1 <= N PROVE Enumerates(f[k + 1], Before(k + 1))
  <2>1. Enumerates(f[k], Before(k)) /\ k \in Cells /\ k + 1 \in 0..N
    BY <1>5, BoardSizes DEF Cells
  <2>2. f[k + 1] = IF b[k] = 0 THEN Append(f[k], k) ELSE f[k]
    BY <1>3, <2>1
  <2>3. \A c \in Blanks(b) : c < k + 1 <=> (c < k \/ c = k)
    BY BoardSizes DEF Blanks
  <2>4. CASE b[k] = 0
    <3>1. k \in Blanks(b)
      BY <2>1, <2>4 DEF Blanks
    <3>2. Before(k + 1) = Before(k) \cup {k}
      BY <2>3, <3>1
    <3>3. k \notin Before(k)
      BY <1>5
    <3> HIDE DEF Before
    <3>4. Enumerates(Append(f[k], k), Before(k) \cup {k})
      BY <2>1, <3>3, EnumeratesMore
    <3> QED
      BY <2>2, <2>4, <3>2, <3>4
  <2>5. CASE b[k] # 0
    <3>1. k \notin Blanks(b)
      BY <2>5 DEF Blanks
    <3>2. Before(k + 1) = Before(k)
      BY <2>3, <3>1
    <3> QED
      BY <2>1, <2>2, <2>5, <3>2
  <2> QED
    BY <2>4, <2>5
<1>6. \A k \in Nat : k \in S => k + 1 \in S
  <2> HIDE DEF Before
  <2> QED
    BY <1>5
<1>7. N \in S
  <2> HIDE DEF S
  <2> QED
    BY <1>4, <1>6, NatSetInduction, BoardSizes
<1>8. Before(N) = Blanks(b)
  BY BoardSizes DEF Blanks, Cells
<1> QED
  BY <1>1, <1>7, <1>8, BoardSizes

-----------------------------------------------------------------------------
(* The board.  Division with a remainder. *)

(* What SMT knows of quotient and rest. *)
LEMMA Division ==
    ASSUME NEW b \in Nat \ {0}, NEW x \in Nat
    PROVE  /\ x \div b \in Nat /\ x % b \in 0..(b - 1)
           /\ x = b * (x \div b) + (x % b)
OBVIOUS

(* There is only one quotient and one rest. *)
LEMMA DivisionIsUnique ==
    ASSUME NEW b \in Nat \ {0}, NEW q \in Nat, NEW r \in 0..(b - 1)
    PROVE  (b * q + r) \div b = q /\ (b * q + r) % b = r
OBVIOUS

(* Multiples are at least the divisor apart. *)
LEMMA Multiples ==
    ASSUME NEW b \in Nat \ {0}, NEW p \in Nat, NEW q \in Nat, p < q
    PROVE  b * p + b <= b * q
OBVIOUS

(* The quotient and the rest of a number below a product. *)
LEMMA DivisionBelow ==
    ASSUME NEW b \in Nat \ {0}, NEW m \in Nat \ {0}, NEW x \in 0..(b * m - 1)
    PROVE  /\ x \div b \in 0..(m - 1) /\ x % b \in 0..(b - 1)
           /\ x = b * (x \div b) + (x % b)
<1>1. x \in Nat /\ b * m \in Nat /\ x < b * m
  OBVIOUS
<1>2. /\ x \div b \in Nat /\ x % b \in 0..(b - 1) /\ x = b * (x \div b) + (x % b)
      /\ b * (x \div b) \in Nat
  <2>1. x \div b \in Nat /\ x % b \in 0..(b - 1) /\ x = b * (x \div b) + (x % b)
    BY <1>1, Division
  <2>2. \A q \in Nat : b * q \in Nat
    OBVIOUS
  <2> QED
    BY <2>1, <2>2
<1>3. x \div b < m
  <2> DEFINE q == x \div b
  <2> SUFFICES ASSUME ~(q < m) PROVE FALSE
    OBVIOUS
  <2>1. q = m \/ m < q
    BY <1>2
  <2>2. b * m <= b * q
    BY <1>1, <1>2, <2>1, Multiples
  <2> QED
    BY <1>1, <1>2, <2>2
<1> QED
  BY <1>2, <1>3

(* And back: a quotient and a rest make up a number below the product. *)
LEMMA ProductBelow ==
    ASSUME NEW b \in Nat \ {0}, NEW m \in Nat \ {0}, NEW q \in 0..(m - 1), NEW r \in 0..(b - 1)
    PROVE  b * q + r \in 0..(b * m - 1)
<1>1. b * q + b <= b * m
  BY Multiples
<1>2. b * q \in Nat /\ b * m \in Nat
  OBVIOUS
<1> QED
  BY <1>1, <1>2

Lines == 0..(NUM - 1)
CellAt(r, c) == NUM * r + c

(* A cell is where its row and its column meet ... *)
LEMMA Coordinates ==
    ASSUME NEW cell \in Cells
    PROVE  Row(cell) \in Lines /\ Col(cell) \in Lines /\ cell = CellAt(Row(cell), Col(cell))
BY BoardSizes, DivisionBelow DEF Cells, N, Row, Col, Lines, CellAt

(* ... and every row meets every column in a cell. *)
LEMMA CellOfCoordinates ==
    ASSUME NEW r \in Lines, NEW c \in Lines
    PROVE  CellAt(r, c) \in Cells /\ Row(CellAt(r, c)) = r /\ Col(CellAt(r, c)) = c
<1>1. CellAt(r, c) \in 0..(NUM * NUM - 1)
  BY BoardSizes, ProductBelow DEF Lines, CellAt
<1>2. r \in Nat /\ c \in 0..(NUM - 1)
  BY BoardSizes DEF Lines
<1> QED
  BY <1>1, <1>2, BoardSizes, DivisionIsUnique DEF Cells, N, Row, Col, CellAt

(* A line is a multiple of Box and a rest. *)
Steps == 0..(Box - 1)
LineAt(p, j) == Box * p + j

(* A line has a place among the lines of its band of boxes ... *)
LEMMA LineParts ==
    ASSUME NEW x \in Lines
    PROVE  x \div Box \in Steps /\ x % Box \in Steps /\ x = LineAt(x \div Box, x % Box)
BY BoardSizes, DivisionBelow DEF NUM, Lines, Steps, LineAt

(* ... and a band and a place give a line. *)
LEMMA LineOfParts ==
    ASSUME NEW p \in Steps, NEW j \in Steps
    PROVE  /\ LineAt(p, j) \in Lines
           /\ LineAt(p, j) \div Box = p /\ LineAt(p, j) % Box = j
<1>1. LineAt(p, j) \in 0..(Box * Box - 1)
  BY BoardSizes, ProductBelow DEF Steps, LineAt
<1>2. p \in Nat /\ j \in 0..(Box - 1)
  BY BoardSizes DEF Steps
<1> QED
  BY <1>1, <1>2, BoardSizes, DivisionIsUnique DEF NUM, Lines, LineAt

(* A box lies where a band of rows and a band of columns meet. *)
LEMMA BoxIs ==
    ASSUME NEW cell \in Cells
    PROVE  /\ Row(cell) \div Box \in Steps /\ Col(cell) \div Box \in Steps
           /\ BoxOf(cell) = LineAt(Row(cell) \div Box, Col(cell) \div Box)
<1>1. Row(cell) \in Lines /\ Col(cell) \in Lines
  BY Coordinates
<1>2. Row(cell) \div Box \in Steps /\ Col(cell) \div Box \in Steps
  BY <1>1, LineParts
<1>3. \A p \in Steps : p * Box = Box * p
  BY BoardSizes DEF Steps
<1> QED
  BY <1>2, <1>3 DEF BoxOf, LineAt

-----------------------------------------------------------------------------
(* Every row, column and box has NUM cells. *)

(* The cells of a row are counted by their columns, *)
LEMMA RowSize ==
    ASSUME NEW i \in Lines
    PROVE  \E f : f \in Bijection(Lines, {cell \in Cells : Row(cell) = i})
<1> DEFINE u == {cell \in Cells : Row(cell) = i}
           f == [j \in Lines |-> CellAt(i, j)]
<1>1. ASSUME NEW j \in Lines PROVE f[j] \in u /\ Col(f[j]) = j
  BY CellOfCoordinates
<1>2. ASSUME NEW cell \in u PROVE Col(cell) \in Lines /\ f[Col(cell)] = cell
  BY Coordinates
<1>3. f \in [Lines -> u]
  BY <1>1
<1> HIDE DEF f, u
<1>4. f \in Bijection(Lines, u)
  BY <1>1, <1>2, <1>3 DEF Bijection, Injection, Surjection, IsInjective
<1> QED
  BY <1>4 DEF u

(* those of a column by their rows, *)
LEMMA ColSize ==
    ASSUME NEW i \in Lines
    PROVE  \E f : f \in Bijection(Lines, {cell \in Cells : Col(cell) = i})
<1> DEFINE u == {cell \in Cells : Col(cell) = i}
           f == [j \in Lines |-> CellAt(j, i)]
<1>1. ASSUME NEW j \in Lines PROVE f[j] \in u /\ Row(f[j]) = j
  BY CellOfCoordinates
<1>2. ASSUME NEW cell \in u PROVE Row(cell) \in Lines /\ f[Row(cell)] = cell
  BY Coordinates
<1>3. f \in [Lines -> u]
  BY <1>1
<1> HIDE DEF f, u
<1>4. f \in Bijection(Lines, u)
  BY <1>1, <1>2, <1>3 DEF Bijection, Injection, Surjection, IsInjective
<1> QED
  BY <1>4 DEF u

(* and those of a box by the places in its two bands. *)
LEMMA BoxSize ==
    ASSUME NEW i \in Lines
    PROVE  \E f : f \in Bijection(Lines, {cell \in Cells : BoxOf(cell) = i})
<1> DEFINE u == {cell \in Cells : BoxOf(cell) = i}
           p == i \div Box
           q == i % Box
           r(j) == LineAt(p, j \div Box)
           c(j) == LineAt(q, j % Box)
           f == [j \in Lines |-> CellAt(r(j), c(j))]
           back(cell) == LineAt(Row(cell) % Box, Col(cell) % Box)
<1>1. p \in Steps /\ q \in Steps /\ i = LineAt(p, q)
  BY LineParts
<1>2. ASSUME NEW j \in Lines PROVE f[j] \in u /\ back(f[j]) = j
  <2>1. j \div Box \in Steps /\ j % Box \in Steps /\ j = LineAt(j \div Box, j % Box)
    BY LineParts
  <2>2. /\ r(j) \in Lines /\ r(j) \div Box = p /\ r(j) % Box = j \div Box
        /\ c(j) \in Lines /\ c(j) \div Box = q /\ c(j) % Box = j % Box
    <3> HIDE DEF p, q
    <3> QED
      BY <1>1, <2>1, LineOfParts
  <2> HIDE DEF p, q, r, c
  <2>3. f[j] \in Cells /\ Row(f[j]) = r(j) /\ Col(f[j]) = c(j)
    BY <2>2, CellOfCoordinates
  <2> HIDE DEF f
  <2>4. BoxOf(f[j]) = i
    BY <1>1, <2>2, <2>3, BoxIs
  <2> QED
    BY <2>1, <2>2, <2>3, <2>4
<1>3. ASSUME NEW cell \in u PROVE back(cell) \in Lines /\ f[back(cell)] = cell
  <2>1. Row(cell) \in Lines /\ Col(cell) \in Lines /\ cell = CellAt(Row(cell), Col(cell))
    BY Coordinates
  <2>2. /\ Row(cell) \div Box \in Steps /\ Row(cell) % Box \in Steps
        /\ Col(cell) \div Box \in Steps /\ Col(cell) % Box \in Steps
        /\ Row(cell) = LineAt(Row(cell) \div Box, Row(cell) % Box)
        /\ Col(cell) = LineAt(Col(cell) \div Box, Col(cell) % Box)
    BY <2>1, LineParts
  <2>3. i = LineAt(Row(cell) \div Box, Col(cell) \div Box)
    BY BoxIs
  <2>4. p = Row(cell) \div Box /\ q = Col(cell) \div Box
    BY <2>2, <2>3, LineOfParts
  <2>5. /\ back(cell) \in Lines /\ back(cell) \div Box = Row(cell) % Box
        /\ back(cell) % Box = Col(cell) % Box
    BY <2>2, LineOfParts
  <2>6. f[back(cell)] = CellAt(r(back(cell)), c(back(cell)))
    <3> HIDE DEF r, c, back
    <3> QED
      BY <2>5
  <2>7. r(back(cell)) = Row(cell) /\ c(back(cell)) = Col(cell)
    <3> HIDE DEF p, q, back
    <3> QED
      BY <2>2, <2>4, <2>5
  <2> HIDE DEF f, r, c, back
  <2> QED
    BY <2>1, <2>5, <2>6, <2>7
<1>4. f \in [Lines -> u]
  BY <1>2
<1> HIDE DEF f, u, back
<1>5. f \in Bijection(Lines, u)
  BY <1>2, <1>3, <1>4 DEF Bijection, Injection, Surjection, IsInjective
<1> QED
  BY <1>5 DEF u

(* So every unit has as many cells as there are values. *)
LEMMA UnitSize ==
    ASSUME NEW u \in Units
    PROVE  u \subseteq Cells /\ IsFiniteSet(u) /\ Cardinality(u) = NUM
<1>1. IsFiniteSet(Lines) /\ Cardinality(Lines) = NUM
  BY BoardSizes, FS_Interval DEF Lines
<1>2. u \subseteq Cells /\ \E f : f \in Bijection(Lines, u)
  BY RowSize, ColSize, BoxSize DEF Units, Lines
<1>3. ExistsBijection(Lines, u)
  BY <1>2 DEF ExistsBijection
<1>4. IsFiniteSet(u) /\ Cardinality(u) = Cardinality(Lines)
  BY <1>1, <1>3, FS_Bijection
<1> QED
  BY <1>1, <1>2, <1>4

-----------------------------------------------------------------------------
(* Solutions. *)

(* To be neighbours is mutual and means to share a unit. *)
LEMMA Neighbors ==
    ASSUME NEW a \in Cells
    PROVE  /\ neighbors[a] \subseteq Cells
           /\ \A b \in neighbors[a] : b # a /\ a \in neighbors[b]
           /\ \A b \in neighbors[a] : \E u \in Units : a \in u /\ b \in u
           /\ \A u \in Units : \A b \in u : a \in u /\ b # a => b \in neighbors[a]
<1>1. neighbors[a] = {n \in Cells : n # a /\ Adjacent(n, a)}
  BY DEF neighbors
<1>2. ASSUME NEW b \in neighbors[a] PROVE a \in neighbors[b]
  BY <1>1 DEF neighbors, Adjacent
<1>3. Row(a) \in Lines /\ Col(a) \in Lines /\ BoxOf(a) \in Lines
  BY Coordinates, BoxIs, LineOfParts
<1>4. ASSUME NEW b \in neighbors[a] PROVE \E u \in Units : a \in u /\ b \in u
  <2>1. {c \in Cells : Row(c) = Row(a)} \in Units /\ {c \in Cells : Col(c) = Col(a)} \in Units
        /\ {c \in Cells : BoxOf(c) = BoxOf(a)} \in Units
    BY <1>3 DEF Units, Lines
  <2> QED
    BY <1>1, <2>1 DEF Adjacent
<1>5. ASSUME NEW u \in Units, NEW b \in u, a \in u, b # a PROVE b \in neighbors[a]
  <2>1. b \in Cells
    BY UnitSize
  <2>2. \/ Row(a) = Row(b)
        \/ Col(a) = Col(b)
        \/ BoxOf(a) = BoxOf(b)
    BY <1>5 DEF Units
  <2> QED
    BY <1>1, <1>5, <2>1, <2>2 DEF Adjacent
<1> QED
  BY <1>1, <1>2, <1>4, <1>5

(* In a solution no two neighbours have the same value. *)
LEMMA SolutionsDiffer ==
    ASSUME NEW s, solved(s), NEW a \in Cells
    PROVE  s[a] \in Values /\ \A b \in neighbors[a] : s[b] # s[a]
<1>1. ASSUME NEW u \in Units, a \in u
      PROVE  s[a] \in Values /\ \A b \in u : b # a => s[b] # s[a]
  <2> DEFINE f == [c \in u |-> s[c]]
  <2>1. {s[c] : c \in u} = Values
    BY DEF solved
  <2>2. f \in Surjection(u, Values)
    BY <2>1 DEF Surjection
  <2>3. IsFiniteSet(u) /\ Cardinality(Values) = Cardinality(u)
    BY UnitSize, BoardSizes
  <2> HIDE DEF f
  <2>4. f \in Injection(u, Values)
    BY <2>2, <2>3, FS_Surjection
  <2>5. \A b \in u : f[b] = f[a] => b = a
    BY <1>1, <2>4 DEF Injection, IsInjective
  <2> QED
    BY <1>1, <2>1, <2>5 DEF f
<1>2. {c \in Cells : Row(c) = Row(a)} \in Units /\ a \in {c \in Cells : Row(c) = Row(a)}
  BY Coordinates DEF Units, Lines
<1> QED
  BY <1>1, <1>2, Neighbors

(* A full board on which they never have is one. *)
LEMMA DifferentIsSolved ==
    ASSUME NEW s, \A a \in Cells : s[a] \in Values /\ \A b \in neighbors[a] : s[b] # s[a]
    PROVE  solved(s)
<1> SUFFICES ASSUME NEW u \in Units PROVE {s[c] : c \in u} = Values
  BY DEF solved
<1> DEFINE f == [c \in u |-> s[c]]
<1>1. u \subseteq Cells /\ IsFiniteSet(Values) /\ Cardinality(u) = Cardinality(Values)
  BY UnitSize, BoardSizes
<1>2. \A a, b \in u : s[a] = s[b] => a = b
  BY <1>1, Neighbors
<1>3. f \in Injection(u, Values)
  BY <1>1, <1>2 DEF Injection, IsInjective
<1> HIDE DEF f
<1>4. f \in Surjection(u, Values)
  BY <1>1, <1>3, FS_Injection
<1>5. \A v \in Values : \E c \in u : f[c] = v
  BY <1>4 DEF Surjection
<1> QED
  BY <1>1, <1>5 DEF f

(* A puzzle can be solved if there is a board that solves it. *)
LEMMA SolvableMeans ==
    ASSUME NEW p \in Boards, Solvable(p)
    PROVE  \E s \in Boards : Solves(s, p)
<1>1. PICK fill \in [Blanks(p) -> Values] :
         solved([cell \in Cells |-> IF p[cell] = 0 THEN fill[cell] ELSE p[cell]])
  BY DEF Solvable
<1> DEFINE s == [cell \in Cells |-> IF p[cell] = 0 THEN fill[cell] ELSE p[cell]]
<1>2. s \in Boards
  BY BoardSizes DEF Boards, Blanks
<1>3. Agrees(s, p)
  BY DEF Agrees, Blanks
<1> QED
  BY <1>1, <1>2, <1>3 DEF Solves

-----------------------------------------------------------------------------
(* The stack of a backtracking solver and what it has filled in. *)

BacktrackModes == {"idle", "call", "next", "undo", "solved", "failed"}

BacktrackTypes ==
    /\ solver \in Backtrackers /\ mode \in BacktrackModes
    /\ puzzle \in Boards /\ board \in Boards
    /\ spaces \in Seq(Cells) /\ frames \in BacktrackFrames
    /\ occupied \in [Cells -> [0..NUM -> BOOLEAN]] /\ arity \in [Cells -> Int]

(* The activations that hold a value in their cell. *)
Held == IF mode = "next" THEN Depth - 1 ELSE Depth

Filling ==
    /\ Enumerates(spaces, Blanks(puzzle)) /\ Agrees(board, puzzle)
    /\ Depth <= Len(spaces)
    /\ mode \in {"next", "undo"} => Depth > 0
    /\ mode = "failed" => Depth = 0
    /\ mode = "solved" => Depth = Len(spaces)
    /\ \A i \in 1..Depth : frames[i].cell = spaces[i]
    /\ \A i \in 1..Held : frames[i].guess \in Values /\ board[spaces[i]] = frames[i].guess
    /\ \A i \in (Held + 1)..Len(spaces) : board[spaces[i]] = 0

StackInv == BacktrackTypes /\ (mode # "idle" => Filling)

(* What a backtracking solver does. *)
LEMMA BacktrackerSteps ==
    ASSUME BacktrackTypes, [Next]_vars
    PROVE  \/ FoundLastSpace \/ ChooseSpace \/ Hold \/ OutOfGuesses \/ Unhold
           \/ \E p \in Puzzles : ReadPuzzle(p)
           \/ UNCHANGED vars
BY DEF BacktrackTypes, BacktrackModes, Backtrackers, LinkSolvers, Next, Search, BacktrackingStep,
       Stopped, LinksStep, BuildHeaders, BuildRow, StartDancing, NoColumnLeft, ChooseColumn,
       TryRow, OutOfRows, TakeRowBack

(* The types of the frames and the spaces, one by one. *)
LEMMA StackTypes ==
    ASSUME BacktrackTypes
    PROVE  /\ Depth \in Nat /\ Len(spaces) \in Nat
           /\ DOMAIN frames = 1..Depth /\ DOMAIN spaces = 1..Len(spaces)
           /\ \A i \in 1..Depth : /\ frames[i].cell \in Cells /\ frames[i].guess \in 0..NUM
                                  /\ frames[i].modified \subseteq Cells
           /\ \A i \in 1..Len(spaces) : spaces[i] \in Cells
           /\ Depth > 0 => /\ Depth \in 1..Depth
                           /\ Innermost.cell \in Cells /\ Innermost.guess \in 0..NUM
                           /\ Innermost.modified \subseteq Cells
<1>1. /\ frames \in Seq([cell : Cells, guess : 0..NUM, modified : SUBSET Cells])
      /\ spaces \in Seq(Cells)
  BY DEF BacktrackTypes, BacktrackFrames
<1>2. Depth \in Nat /\ Len(spaces) \in Nat /\ DOMAIN frames = 1..Depth
      /\ DOMAIN spaces = 1..Len(spaces)
  BY <1>1 DEF Depth
<1>3. ASSUME NEW i \in 1..Depth
      PROVE  frames[i] \in [cell : Cells, guess : 0..NUM, modified : SUBSET Cells]
  <2> DEFINE R == [cell : Cells, guess : 0..NUM, modified : SUBSET Cells]
  <2>1. frames \in Seq(R) /\ i \in 1..Len(frames)
    BY <1>1, <1>2 DEF Depth
  <2> HIDE DEF R
  <2>2. frames[i] \in R
    BY <2>1
  <2> QED
    BY <2>2 DEF R
<1>4. \A i \in 1..Depth : /\ frames[i].cell \in Cells /\ frames[i].guess \in 0..NUM
                         /\ frames[i].modified \subseteq Cells
  BY <1>3
<1>5. \A i \in 1..Len(spaces) : spaces[i] \in Cells
  BY <1>1
<1>6. Depth > 0 => /\ Depth \in 1..Depth
                   /\ Innermost.cell \in Cells /\ Innermost.guess \in 0..NUM
                   /\ Innermost.modified \subseteq Cells
  <2>1. Depth > 0 => Depth \in 1..Depth
    BY <1>2
  <2> QED
    BY <1>4, <2>1 DEF Innermost
<1> QED
  BY <1>2, <1>4, <1>5, <1>6

(* Two cells of an enumeration change places. *)
Swapped(s, k, j) == [s EXCEPT ![k] = s[j], ![j] = s[k]]

(* What is swapped still enumerates the same cells. *)
LEMMA SwapEnumerates ==
    ASSUME NEW T, NEW s, Enumerates(s, T), NEW k \in 1..Len(s), NEW j \in 1..Len(s)
    PROVE  /\ Enumerates(Swapped(s, k, j), T)
           /\ Len(Swapped(s, k, j)) = Len(s)
           /\ Swapped(s, k, j)[k] = s[j] /\ Swapped(s, k, j)[j] = s[k]
           /\ \A i \in 1..Len(s) \ {k, j} : Swapped(s, k, j)[i] = s[i]
<1> DEFINE t == Swapped(s, k, j)
           D == 1..Len(s)
<1>1. s \in Seq(T) /\ DOMAIN s = D /\ Len(s) \in Nat
  BY DEF Enumerates
<1>2. /\ t \in Seq(T) /\ DOMAIN t = D /\ Len(t) = Len(s)
      /\ t[k] = s[j] /\ t[j] = s[k] /\ \A i \in D \ {k, j} : t[i] = s[i]
  BY <1>1 DEF Swapped
<1>3. /\ \A a, b \in D : s[a] = s[b] => a = b
      /\ \A c \in T : \E i \in D : s[i] = c
  BY DEF Enumerates
<1> HIDE DEF t, D
<1>4. \A a, b \in D : t[a] = t[b] => a = b
  <2> SUFFICES ASSUME NEW a \in D, NEW b \in D, t[a] = t[b] PROVE a = b
    OBVIOUS
  <2> DEFINE other(i) == IF i = k THEN j ELSE IF i = j THEN k ELSE i
  <2>1. k \in D /\ j \in D
    BY DEF D
  <2>2. \A i \in D : other(i) \in D /\ t[i] = s[other(i)]
    BY <1>2, <2>1
  <2>3. other(a) = other(b)
    <3> HIDE DEF other
    <3> QED
      BY <1>3, <2>2
  <2> QED
    BY <2>3
<1>5. \A c \in T : \E i \in D : t[i] = c
  <2> SUFFICES ASSUME NEW c \in T PROVE \E i \in D : t[i] = c
    OBVIOUS
  <2>1. PICK i \in D : s[i] = c
    BY <1>3
  <2>2. k \in D /\ j \in D
    BY DEF D
  <2>3. CASE i \notin {k, j}
    BY <1>2, <2>1, <2>3
  <2> QED
    BY <1>2, <2>1, <2>2, <2>3
<1>6. Enumerates(t, T)
  BY <1>2, <1>4, <1>5 DEF Enumerates, D
<1> QED
  BY <1>2, <1>6 DEF t, D

(* The number of candidates of a cell, as the solvers count it. *)
LEMMA CluesAreFinite ==
    ASSUME NEW b \in Boards, NEW cell \in Cells
    PROVE  /\ Clues(b, cell) \subseteq Values /\ IsFiniteSet(Clues(b, cell))
           /\ Cardinality(Clues(b, cell)) \in Nat
<1>1. Clues(b, cell) \subseteq Values
  <2> SUFFICES ASSUME NEW n \in neighbors[cell], b[n] # 0 PROVE b[n] \in Values
    BY DEF Clues
  <2>1. n \in Cells
    BY Neighbors
  <2>2. b[n] \in 0..NUM
    BY <2>1 DEF Boards
  <2> QED
    BY <2>2, BoardSizes DEF Values
<1> QED
  BY <1>1, BoardSizes, FS_Subset, FS_CardinalityType

(* find_min_arity swaps the next cell with one that is not filled yet. *)
LEMMA MinArityFound ==
    ASSUME BacktrackTypes, NEW k \in 1..Len(spaces)
    PROVE  \E j \in k..Len(spaces) : FindMinArity(k) = Swapped(spaces, k, j)
<1>0. Len(spaces) \in Nat /\ spaces \in Seq(Cells) /\ DOMAIN spaces = 1..Len(spaces)
  BY StackTypes DEF BacktrackTypes
<1>1. CASE solver = "basic"
  <2>1. spaces = Swapped(spaces, k, k)
    BY <1>0 DEF Swapped
  <2> QED
    BY <1>0, <1>1, <2>1 DEF FindMinArity
<1>2. CASE solver # "basic"
  <2> DEFINE U == Unfilled(k)
             Costs == {Cost(sp) : sp \in U}
             cheapest == {sp \in U : \A other \in U : Cost(sp) <= Cost(other)}
  <2>1. U = k..Len(spaces) /\ k \in U
    BY <1>0 DEF Unfilled, nspaces
  <2>2. ASSUME NEW sp \in U PROVE Cost(sp) \in Nat
    <3>1. spaces[sp] \in Cells
      BY <1>0, <2>1
    <3>2. Arity(spaces[sp]) \in Int
      <4>1. arity[spaces[sp]] \in Int /\ Cardinality(Clues(board, spaces[sp])) \in Nat
        BY <3>1, CluesAreFinite DEF BacktrackTypes
      <4> QED
        BY <4>1, BoardSizes DEF Arity
    <3> QED
      BY <3>2 DEF Cost
  <2> HIDE DEF U
  <2>3. Costs \subseteq Nat /\ Costs # {}
    BY <2>1, <2>2
  <2>4. Min(Costs) \in Costs /\ \A x \in Costs : Min(Costs) <= x
    <3> HIDE DEF Costs
    <3> QED
      BY <2>3, LeastNumber
  <2>5. cheapest # {}
    <3>1. PICK sp \in U : Cost(sp) = Min(Costs)
      BY <2>4
    <3>2. \A other \in U : Cost(sp) <= Cost(other)
      BY <2>4, <3>1
    <3> QED
      BY <3>2
  <2>6. cheapest \subseteq Nat
    BY <1>0, <2>1
  <2>7. Min(cheapest) \in cheapest
    <3> HIDE DEF cheapest
    <3> QED
      BY <2>5, <2>6, LeastNumber
  <2>8. Min(cheapest) \in k..Len(spaces)
    BY <2>1, <2>7
  <2>9. FindMinArity(k) = Swapped(spaces, k, Min(cheapest))
    BY <1>2 DEF FindMinArity, Swapped, U
  <2> HIDE DEF cheapest
  <2> QED
    BY <2>8, <2>9
<1> QED
  BY <1>1, <1>2

-----------------------------------------------------------------------------
(* The steps keep the stack in order. *)

(* The cache that init_cache fills has its types. *)
LEMMA InitialCache ==
    ASSUME NEW p \in Boards
    PROVE  /\ InitialOccupied(p) \in [Cells -> [0..NUM -> BOOLEAN]]
           /\ InitialArity(p) \in [Cells -> Int]
<1>1. InitialOccupied(p) \in [Cells -> [0..NUM -> BOOLEAN]]
  BY DEF InitialOccupied
<1>2. ASSUME NEW cell \in Cells PROVE InitialArity(p)[cell] \in Int
  <2> DEFINE C == {v \in Clues(p, cell) :
                      v = p[cell] => \E n \in neighbors[cell] : n < cell /\ p[n] = v}
  <2>1. IsFiniteSet(Clues(p, cell)) /\ C \subseteq Clues(p, cell)
    BY CluesAreFinite
  <2>2. Cardinality(C) \in Nat
    <3> HIDE DEF C
    <3> QED
      BY <2>1, FS_Subset, FS_CardinalityType
  <2>3. InitialArity(p)[cell] = NUM - Cardinality(C)
    BY DEF InitialArity
  <2> HIDE DEF C
  <2> QED
    BY <2>2, <2>3, BoardSizes
<1>3. InitialArity(p) = [cell \in Cells |-> InitialArity(p)[cell]]
  BY DEF InitialArity
<1> QED
  BY <1>1, <1>2, <1>3

(* A new puzzle. *)
LEMMA ReadIs ==
    ASSUME BacktrackTypes, NEW p \in Puzzles, ReadPuzzle(p)
    PROVE  /\ p \in Boards /\ puzzle' = p /\ board' = p /\ spaces' = find_spaces(p)
           /\ occupied' = InitialOccupied(p) /\ arity' = InitialArity(p)
           /\ frames' = <<>> /\ mode' = "call" /\ UNCHANGED solver
BY PuzzlesAssumption
   DEF BacktrackTypes, Backtrackers, LinkSolvers, ReadPuzzle, ReadIntoCache

(* When a puzzle was read nothing is held and all its blank cells are blank. *)
LEMMA ReadStack ==
    ASSUME BacktrackTypes, NEW p \in Puzzles, ReadPuzzle(p)
    PROVE  StackInv'
<1>1. /\ p \in Boards /\ puzzle' = p /\ board' = p /\ spaces' = find_spaces(p)
      /\ occupied' = InitialOccupied(p) /\ arity' = InitialArity(p)
      /\ frames' = <<>> /\ mode' = "call" /\ UNCHANGED solver
  BY ReadIs
<1>2. Enumerates(spaces', Blanks(p))
  BY <1>1, FindSpaces
<1>3. /\ Len(spaces') \in Nat /\ spaces' \in Seq(Cells)
      /\ \A i \in 1..Len(spaces') : spaces'[i] \in Blanks(p)
  BY <1>2 DEF Enumerates, Blanks
<1>4. Depth' = 0 /\ Held' = 0
  BY <1>1 DEF Depth, Held
<1>5. BacktrackTypes'
  BY <1>1, <1>3, InitialCache DEF BacktrackTypes, BacktrackModes, BacktrackFrames
<1>6. Agrees(p, p) /\ \A i \in 1..Len(spaces') : p[spaces'[i]] = 0
  BY <1>3 DEF Agrees, Blanks
<1> QED
  BY <1>1, <1>2, <1>3, <1>4, <1>5, <1>6 DEF StackInv, Filling

(* The last blank cell is filled. *)
LEMMA FoundStack ==
    ASSUME StackInv, FoundLastSpace
    PROVE  StackInv'
<1>1. /\ mode = "call" /\ Depth = Len(spaces) /\ mode' = "solved"
      /\ UNCHANGED <<solver, puzzle, board, frames, spaces, occupied, arity>>
  BY DEF FoundLastSpace, cache, nspaces
<1>2. Depth' = Depth /\ Held' = Depth /\ Held = Depth
  BY <1>1 DEF Depth, Held
<1>3. BacktrackTypes'
  BY <1>1 DEF StackInv, BacktrackTypes, BacktrackModes, BacktrackFrames
<1>4. Filling'
  <2>1. Filling
    BY <1>1 DEF StackInv
  <2> QED
    BY <1>1, <1>2, <2>1 DEF Filling
<1> QED
  BY <1>3, <1>4 DEF StackInv

(* The next cell is chosen. *)
LEMMA ChooseIs ==
    ASSUME StackInv, ChooseSpace
    PROVE  /\ mode = "call" /\ mode' = "next" /\ Depth < Len(spaces)
           /\ UNCHANGED <<solver, puzzle, board, occupied, arity>>
           /\ \E j \in (Depth + 1)..Len(spaces) : spaces' = Swapped(spaces, Depth + 1, j)
           /\ frames' = Append(frames, [cell |-> spaces'[Depth + 1], guess |-> 0,
                                        modified |-> {}])
           /\ Depth' = Depth + 1 /\ Held' = Depth /\ Held = Depth
           /\ \A i \in 1..Depth : frames'[i] = frames[i]
           /\ frames'[Depth + 1] = [cell |-> spaces'[Depth + 1], guess |-> 0, modified |-> {}]
<1>0. BacktrackTypes /\ Depth \in Nat /\ Len(spaces) \in Nat
  BY StackTypes DEF StackInv
<1>1. /\ mode = "call" /\ mode' = "next" /\ Depth < Len(spaces)
      /\ UNCHANGED <<solver, puzzle, board, occupied, arity>>
      /\ spaces' = FindMinArity(Depth + 1)
      /\ frames' = Append(frames, [cell |-> spaces'[Depth + 1], guess |-> 0, modified |-> {}])
  BY DEF ChooseSpace, cache, nspaces
<1>2. \E j \in (Depth + 1)..Len(spaces) : spaces' = Swapped(spaces, Depth + 1, j)
  BY <1>0, <1>1, MinArityFound
<1>3. /\ Len(frames') = Depth + 1 /\ \A i \in 1..Depth : frames'[i] = frames[i]
      /\ frames'[Depth + 1] = [cell |-> spaces'[Depth + 1], guess |-> 0, modified |-> {}]
  <2> DEFINE f == [cell |-> spaces'[Depth + 1], guess |-> 0, modified |-> {}]
  <2>1. frames' = Append(frames, f) /\ Depth = Len(frames)
    BY <1>1 DEF Depth
  <2>2. frames \in Seq([cell : Cells, guess : 0..NUM, modified : SUBSET Cells])
    BY <1>0 DEF BacktrackTypes, BacktrackFrames
  <2> HIDE DEF f
  <2>3. /\ Len(frames') = Depth + 1 /\ \A i \in 1..Depth : frames'[i] = frames[i]
        /\ frames'[Depth + 1] = f
    BY <2>1, <2>2
  <2> QED
    BY <2>3 DEF f
<1>4. Depth' = Depth + 1 /\ Held' = Depth /\ Held = Depth
  BY <1>0, <1>1, <1>3 DEF Depth, Held
<1> QED
  BY <1>1, <1>2, <1>3, <1>4

(* The swap leaves alone what the activations hold. *)
LEMMA ChooseStack ==
    ASSUME StackInv, ChooseSpace
    PROVE  StackInv'
<1>1. /\ mode = "call" /\ mode' = "next" /\ Depth < Len(spaces)
      /\ UNCHANGED <<solver, puzzle, board, occupied, arity>>
      /\ frames' = Append(frames, [cell |-> spaces'[Depth + 1], guess |-> 0, modified |-> {}])
      /\ Depth' = Depth + 1 /\ Held' = Depth /\ Held = Depth
      /\ \A i \in 1..Depth : frames'[i] = frames[i]
      /\ frames'[Depth + 1] = [cell |-> spaces'[Depth + 1], guess |-> 0, modified |-> {}]
  BY ChooseIs
<1>2. PICK j \in (Depth + 1)..Len(spaces) : spaces' = Swapped(spaces, Depth + 1, j)
  BY ChooseIs
<1>3. Filling /\ BacktrackTypes /\ Depth \in Nat /\ Len(spaces) \in Nat
  BY <1>1, StackTypes DEF StackInv
<1>4. Depth + 1 \in 1..Len(spaces) /\ j \in 1..Len(spaces)
  BY <1>1, <1>3
<1>5. /\ Enumerates(spaces', Blanks(puzzle)) /\ Len(spaces') = Len(spaces)
      /\ spaces'[Depth + 1] = spaces[j] /\ spaces'[j] = spaces[Depth + 1]
      /\ \A i \in 1..Len(spaces) \ {Depth + 1, j} : spaces'[i] = spaces[i]
  <2> DEFINE k == Depth + 1
             t == Swapped(spaces, k, j)
  <2>1. Enumerates(spaces, Blanks(puzzle)) /\ k \in 1..Len(spaces)
    BY <1>3, <1>4 DEF Filling
  <2> HIDE DEF k
  <2>2. /\ Enumerates(t, Blanks(puzzle)) /\ Len(t) = Len(spaces)
        /\ t[k] = spaces[j] /\ t[j] = spaces[k]
        /\ \A i \in 1..Len(spaces) \ {k, j} : t[i] = spaces[i]
    BY <1>4, <2>1, SwapEnumerates
  <2>3. spaces' = t
    BY <1>2 DEF k
  <2> HIDE DEF t
  <2> QED
    BY <2>2, <2>3 DEF k
<1>6. spaces' \in Seq(Cells) /\ spaces'[Depth + 1] \in Cells
  <2>1. Blanks(puzzle) \subseteq Cells /\ spaces' \in Seq(Blanks(puzzle))
    BY <1>5 DEF Blanks, Enumerates
  <2> QED
    BY <1>4, <1>5, <2>1
<1>7. BacktrackTypes'
  <2> DEFINE f == [cell |-> spaces'[Depth + 1], guess |-> 0, modified |-> {}]
  <2>1. f \in [cell : Cells, guess : 0..NUM, modified : SUBSET Cells]
    BY <1>6, BoardSizes
  <2>2. frames \in Seq([cell : Cells, guess : 0..NUM, modified : SUBSET Cells])
        /\ frames' = Append(frames, f)
    BY <1>1, <1>3 DEF BacktrackTypes, BacktrackFrames
  <2> HIDE DEF f
  <2>3. frames' \in Seq([cell : Cells, guess : 0..NUM, modified : SUBSET Cells])
    BY <2>1, <2>2
  <2> QED
    BY <1>1, <1>3, <1>6, <2>3 DEF BacktrackTypes, BacktrackModes, BacktrackFrames
<1>8. \A i \in 1..Depth : spaces'[i] = spaces[i] /\ i \in 1..Len(spaces)
  BY <1>3, <1>4, <1>5
<1>9. \A i \in 1..Depth' : frames'[i].cell = spaces'[i]
  <2>1. \A i \in 1..Depth : frames'[i].cell = spaces'[i]
    BY <1>1, <1>3, <1>8 DEF Filling
  <2>2. frames'[Depth + 1].cell = spaces'[Depth + 1]
    <3> DEFINE f == [cell |-> spaces'[Depth + 1], guess |-> 0, modified |-> {}]
    <3>1. f.cell = spaces'[Depth + 1] /\ frames'[Depth + 1] = f
      BY <1>1
    <3> HIDE DEF f
    <3> QED
      BY <3>1
  <2>3. \A i \in 1..(Depth + 1) : i \in 1..Depth \/ i = Depth + 1
    BY <1>3
  <2> QED
    BY <1>1, <2>1, <2>2, <2>3
<1>10. \A i \in 1..Held' : frames'[i].guess \in Values /\ board'[spaces'[i]] = frames'[i].guess
  BY <1>1, <1>3, <1>8 DEF Filling
<1>11. \A i \in (Held' + 1)..Len(spaces') : board'[spaces'[i]] = 0
  <2> SUFFICES ASSUME NEW i \in (Depth + 1)..Len(spaces) PROVE board[spaces'[i]] = 0
    BY <1>1, <1>5
  <2>1. \A k \in (Depth + 1)..Len(spaces) : board[spaces[k]] = 0
    BY <1>1, <1>3 DEF Filling
  <2>2. i \in 1..Len(spaces) /\ Depth + 1 \in (Depth + 1)..Len(spaces)
    BY <1>3, <1>4
  <2> QED
    BY <1>5, <2>1, <2>2
<1>12. /\ Enumerates(spaces', Blanks(puzzle')) /\ Agrees(board', puzzle')
       /\ Depth' <= Len(spaces') /\ Depth' > 0
  BY <1>1, <1>3, <1>4, <1>5 DEF Filling
<1>13. Filling'
  BY <1>1, <1>9, <1>10, <1>11, <1>12 DEF Filling
<1> QED
  BY <1>7, <1>13 DEF StackInv

(* The innermost activation holds the least guess that fits and that it has not tried. *)
Holding(guess) ==
    LET cell == Innermost.cell
    IN /\ mode = "next" /\ mode' = "call" /\ UNCHANGED <<solver, puzzle, spaces>>
       /\ Depth \in 1..Len(spaces) /\ Depth' = Depth /\ Held' = Depth /\ Held = Depth - 1
       /\ guess \in Values /\ guess > Innermost.guess /\ Fits(guess, cell)
       /\ \A g \in Values : g > Innermost.guess /\ Fits(g, cell) => guess <= g
       /\ board' = [board EXCEPT ![cell] = guess]
       /\ frames' \in BacktrackFrames
       /\ \A i \in 1..(Depth - 1) : frames'[i] = frames[i]
       /\ frames'[Depth].cell = cell /\ frames'[Depth].guess = guess
       /\ solver = "min_arity_cache" =>
            /\ frames'[Depth].modified = Modified(cell, guess)
            /\ Mark(cell, Modified(cell, guess), guess, TRUE)
            /\ arity' = [c \in Cells |-> IF c \in Modified(cell, guess) THEN arity[c] - 1
                                         ELSE arity[c]]
       /\ solver # "min_arity_cache" => UNCHANGED <<occupied, arity>>

(* A step of Hold holds such a guess. *)
LEMMA HoldIs ==
    ASSUME StackInv, Hold
    PROVE  \E guess \in Values : Holding(guess)
<1> DEFINE G == Guesses(Innermost)
           guess == Min(G)
           cell == Innermost.cell
           modified == IF solver = "min_arity_cache" THEN Modified(cell, guess) ELSE {}
           f == [cell |-> cell, guess |-> guess, modified |-> modified]
           F == [cell : Cells, guess : 0..NUM, modified : SUBSET Cells]
<1>1. /\ mode = "next" /\ mode' = "call" /\ UNCHANGED <<solver, puzzle, spaces>> /\ G # {}
      /\ board' = [board EXCEPT ![cell] = guess] /\ frames' = [frames EXCEPT ![Depth] = f]
      /\ solver = "min_arity_cache" =>
           /\ Mark(cell, modified, guess, TRUE)
           /\ arity' = [c \in Cells |-> IF c \in modified THEN arity[c] - 1 ELSE arity[c]]
      /\ solver # "min_arity_cache" => UNCHANGED <<occupied, arity>>
  BY DEF Hold, SetInnermost, cache
<1>2. BacktrackTypes /\ Depth > 0 /\ Depth <= Len(spaces)
  BY <1>1 DEF StackInv, Filling
<1>3. /\ Depth \in Nat /\ Depth \in 1..Depth /\ Len(spaces) \in Nat /\ cell \in Cells
      /\ Innermost.guess \in 0..NUM
  BY <1>2, StackTypes
<1>4. G = {g \in Values : g > Innermost.guess /\ Fits(g, cell)}
  BY DEF Guesses
<1>5. guess \in G /\ \A g \in G : guess <= g
  <2>1. G \subseteq Nat
    BY <1>4, BoardSizes
  <2> HIDE DEF G
  <2> QED
    BY <1>1, <2>1, LeastNumber
<1> HIDE DEF G, guess
<1>6. guess \in Values /\ guess \in 0..NUM /\ guess > Innermost.guess /\ Fits(guess, cell)
      /\ \A g \in Values : g > Innermost.guess /\ Fits(g, cell) => guess <= g
  BY <1>4, <1>5, BoardSizes
<1>7. modified \subseteq Cells
  BY <1>3, Neighbors DEF Modified
<1>8. f.cell = cell /\ f.guess = guess /\ f.modified = modified
  OBVIOUS
<1>9. f \in F
  BY <1>3, <1>6, <1>7
<1>10. frames \in Seq(F)
  BY <1>2 DEF BacktrackTypes, BacktrackFrames
<1> HIDE DEF f, modified, cell, F
<1>11. /\ frames' \in Seq(F) /\ Len(frames') = Len(frames) /\ frames'[Depth] = f
       /\ \A i \in 1..(Depth - 1) : frames'[i] = frames[i]
  BY <1>1, <1>2, <1>3, <1>9, <1>10 DEF Depth
<1>12. Depth' = Depth /\ Held' = Depth /\ Held = Depth - 1
  BY <1>1, <1>11 DEF Depth, Held
<1>13. frames' \in BacktrackFrames
  BY <1>11 DEF F, BacktrackFrames
<1>14. Depth \in 1..Len(spaces)
  BY <1>2, <1>3
<1>15. solver = "min_arity_cache" => modified = Modified(cell, guess)
  BY DEF modified
<1>16. Holding(guess)
  BY <1>1, <1>6, <1>8, <1>11, <1>12, <1>13, <1>14, <1>15 DEF Holding, cell
<1> QED
  BY <1>6, <1>16

(* Marking keeps the cache a cache. *)
LEMMA MarkTypes ==
    ASSUME occupied \in [Cells -> [0..NUM -> BOOLEAN]], NEW cell \in Cells,
           NEW modified \in SUBSET Cells, NEW guess \in 0..NUM, NEW on \in BOOLEAN,
           Mark(cell, modified, guess, on)
    PROVE  occupied' \in [Cells -> [0..NUM -> BOOLEAN]]
<1>1. occupied' = [c \in Cells |-> IF c \in modified \cup {cell}
                                   THEN [occupied[c] EXCEPT ![guess] = on] ELSE occupied[c]]
  BY DEF Mark
<1>2. ASSUME NEW c \in Cells PROVE occupied'[c] \in [0..NUM -> BOOLEAN]
  <2>1. occupied[c] \in [0..NUM -> BOOLEAN]
    OBVIOUS
  <2>2. CASE c \in modified \cup {cell}
    <3>1. occupied'[c] = [occupied[c] EXCEPT ![guess] = on]
      BY <1>1, <2>2
    <3> QED
      BY <2>1, <2>2, <3>1
  <2>3. CASE c \notin modified \cup {cell}
    BY <1>1, <2>1, <2>3
  <2> QED
    BY <2>2, <2>3
<1>3. occupied' = [c \in Cells |-> occupied'[c]]
  BY <1>1
<1> QED
  BY <1>2, <1>3

(* The guess is written into the cell that the innermost activation chose. *)
LEMMA HoldStack ==
    ASSUME StackInv, Hold
    PROVE  StackInv'
<1>1. PICK guess \in Values : Holding(guess)
  BY HoldIs
<1> DEFINE cell == Innermost.cell
<1>2. /\ mode = "next" /\ mode' = "call" /\ UNCHANGED <<solver, puzzle, spaces>>
      /\ Depth \in 1..Len(spaces) /\ Depth' = Depth /\ Held' = Depth /\ Held = Depth - 1
      /\ board' = [board EXCEPT ![cell] = guess]
      /\ frames' \in BacktrackFrames
      /\ \A i \in 1..(Depth - 1) : frames'[i] = frames[i]
      /\ frames'[Depth].cell = cell /\ frames'[Depth].guess = guess
  BY <1>1 DEF Holding
<1>3. BacktrackTypes /\ Filling
  BY <1>2 DEF StackInv
<1>4. /\ Depth \in Nat /\ Len(spaces) \in Nat /\ cell \in Cells /\ guess \in 0..NUM
      /\ guess # 0 /\ \A i \in 1..Len(spaces) : spaces[i] \in Cells
      /\ cell = spaces[Depth]
  <2>1. Depth \in 1..Depth
    BY <1>2
  <2> QED
    BY <1>2, <1>3, <2>1, StackTypes, BoardSizes DEF Filling, Innermost
<1>5. Enumerates(spaces, Blanks(puzzle)) /\ Agrees(board, puzzle) /\ board \in Boards
  BY <1>3 DEF Filling, BacktrackTypes
<1>6. occupied' \in [Cells -> [0..NUM -> BOOLEAN]] /\ arity' \in [Cells -> Int]
  <2>1. occupied \in [Cells -> [0..NUM -> BOOLEAN]] /\ arity \in [Cells -> Int]
    BY <1>3 DEF BacktrackTypes
  <2>2. CASE solver = "min_arity_cache"
    <3>1. /\ Mark(cell, Modified(cell, guess), guess, TRUE)
          /\ arity' = [c \in Cells |-> IF c \in Modified(cell, guess) THEN arity[c] - 1
                                       ELSE arity[c]]
      BY <1>1, <2>2 DEF Holding
    <3>2. Modified(cell, guess) \in SUBSET Cells
      BY <1>4, Neighbors DEF Modified
    <3>3. arity' \in [Cells -> Int]
      BY <2>1, <3>1
    <3>4. occupied' \in [Cells -> [0..NUM -> BOOLEAN]]
      BY <1>4, <2>1, <3>1, <3>2, MarkTypes
    <3> QED
      BY <3>3, <3>4
  <2>3. CASE solver # "min_arity_cache"
    <3>1. UNCHANGED <<occupied, arity>>
      BY <1>1, <2>3 DEF Holding
    <3> QED
      BY <2>1, <3>1
  <2> QED
    BY <2>2, <2>3
<1>7. BacktrackTypes'
  <2>1. board' \in Boards
    BY <1>2, <1>4, <1>5 DEF Boards
  <2> QED
    BY <1>2, <1>3, <1>6, <2>1 DEF BacktrackTypes, BacktrackModes
<1>8. ASSUME NEW i \in 1..Len(spaces), i # Depth PROVE board'[spaces[i]] = board[spaces[i]]
  <2>1. spaces[i] # spaces[Depth]
    BY <1>2, <1>5, <1>8 DEF Enumerates
  <2>2. spaces[i] \in Cells /\ board \in [Cells -> 0..NUM]
    BY <1>4, <1>5 DEF Boards
  <2>3. spaces[i] # cell
    BY <1>4, <2>1
  <2> HIDE DEF cell
  <2> QED
    BY <1>2, <2>2, <2>3
<1>9. board'[spaces[Depth]] = guess
  BY <1>2, <1>4, <1>5 DEF Boards
<1>10. Agrees(board', puzzle')
  <2>1. cell \in Blanks(puzzle)
    BY <1>2, <1>4, <1>5 DEF Enumerates
  <2> QED
    BY <1>2, <1>5, <2>1 DEF Agrees
<1>11. \A i \in 1..Depth : i = Depth \/ (i \in 1..(Depth - 1) /\ i \in 1..Len(spaces))
  BY <1>2, <1>4
<1>12. \A i \in 1..Depth' : frames'[i].cell = spaces'[i]
  BY <1>2, <1>3, <1>4, <1>11 DEF Filling
<1>13. \A i \in 1..Held' : frames'[i].guess \in Values /\ board'[spaces'[i]] = frames'[i].guess
  <2>1. \A i \in 1..(Depth - 1) :
           frames[i].guess \in Values /\ board[spaces[i]] = frames[i].guess
    BY <1>2, <1>3 DEF Filling
  <2>2. \A i \in 1..(Depth - 1) : i # Depth
    BY <1>4
  <2> QED
    BY <1>2, <1>8, <1>9, <1>11, <2>1, <2>2
<1>14. \A i \in (Held' + 1)..Len(spaces') : board'[spaces'[i]] = 0
  <2>1. \A i \in (Held + 1)..Len(spaces) : board[spaces[i]] = 0
    BY <1>3 DEF Filling
  <2>2. \A i \in (Depth + 1)..Len(spaces) :
           i # Depth /\ i \in 1..Len(spaces) /\ i \in (Held + 1)..Len(spaces)
    BY <1>2, <1>4
  <2> QED
    BY <1>2, <1>8, <2>1, <2>2
<1>15. Filling'
  BY <1>2, <1>4, <1>5, <1>10, <1>12, <1>13, <1>14 DEF Filling
<1> QED
  BY <1>7, <1>15 DEF StackInv

(* The innermost activation gives up and returns. *)
LEMMA ReturnIs ==
    ASSUME StackInv, OutOfGuesses
    PROVE  /\ mode = "next" /\ UNCHANGED <<solver, puzzle, board, spaces, occupied, arity>>
           /\ Guesses(Innermost) = {}
           /\ Depth \in 1..Len(spaces) /\ Depth' = Depth - 1 /\ Held' = Depth - 1
           /\ Held = Depth - 1
           /\ mode' = IF Depth = 1 THEN "failed" ELSE "undo"
           /\ frames' \in BacktrackFrames
           /\ \A i \in 1..(Depth - 1) : frames'[i] = frames[i]
<1>1. /\ mode = "next" /\ UNCHANGED <<solver, puzzle, board, spaces, occupied, arity>>
      /\ Guesses(Innermost) = {} /\ frames' = Front(frames)
      /\ mode' = IF Depth = 1 THEN "failed" ELSE "undo"
  BY DEF OutOfGuesses, ReturnFalse, cache
<1>2. BacktrackTypes /\ Depth > 0 /\ Depth <= Len(spaces)
  BY <1>1 DEF StackInv, Filling
<1>3. Depth \in Nat /\ Len(spaces) \in Nat
  BY <1>2, StackTypes
<1> DEFINE F == [cell : Cells, guess : 0..NUM, modified : SUBSET Cells]
<1>4. frames \in Seq(F)
  BY <1>2 DEF BacktrackTypes, BacktrackFrames
<1> HIDE DEF F
<1>5. /\ frames' \in Seq(F) /\ Len(frames') = Len(frames) - 1
      /\ \A i \in 1..(Depth - 1) : frames'[i] = frames[i]
  <2> DEFINE m == Depth - 1
  <2>1. m \in 0..Len(frames) /\ Len(frames) = m + 1 /\ m = Len(frames) - 1
    BY <1>2, <1>3 DEF Depth
  <2>2. frames' = SubSeq(frames, 1, m)
    BY <1>1 DEF Front, Depth
  <2> HIDE DEF m
  <2>3. /\ SubSeq(frames, 1, m) \in Seq(F) /\ Len(SubSeq(frames, 1, m)) = m
        /\ \A i \in 1..m : SubSeq(frames, 1, m)[i] = frames[i]
    BY <1>4, <2>1
  <2> QED
    BY <2>1, <2>2, <2>3 DEF m
<1>6. Depth' = Depth - 1 /\ Held' = Depth - 1 /\ Held = Depth - 1
  BY <1>1, <1>5 DEF Depth, Held
<1>7. frames' \in BacktrackFrames
  BY <1>5 DEF F, BacktrackFrames
<1> QED
  BY <1>1, <1>2, <1>3, <1>5, <1>6, <1>7

(* The cell of the activation that returns is blank already. *)
LEMMA ReturnStack ==
    ASSUME StackInv, OutOfGuesses
    PROVE  StackInv'
<1>1. /\ mode = "next" /\ UNCHANGED <<solver, puzzle, board, spaces, occupied, arity>>
      /\ Depth \in 1..Len(spaces) /\ Depth' = Depth - 1 /\ Held' = Depth - 1
      /\ Held = Depth - 1
      /\ mode' = IF Depth = 1 THEN "failed" ELSE "undo"
      /\ frames' \in BacktrackFrames
      /\ \A i \in 1..(Depth - 1) : frames'[i] = frames[i]
  BY ReturnIs
<1>2. BacktrackTypes /\ Filling
  BY <1>1 DEF StackInv
<1>3. Depth \in Nat /\ Len(spaces) \in Nat
  BY <1>2, StackTypes
<1>4. BacktrackTypes'
  BY <1>1, <1>2 DEF BacktrackTypes, BacktrackModes
<1>5. /\ Depth - 1 <= Len(spaces) /\ Depth - 1 \in Nat
      /\ \A i \in 1..(Depth - 1) : i \in 1..Depth
  BY <1>1, <1>3
<1>6. Filling'
  <2>1. \A i \in 1..Depth' : frames'[i].cell = spaces'[i]
    BY <1>1, <1>2, <1>5 DEF Filling
  <2>2. \A i \in 1..Held' : frames'[i].guess \in Values /\ board'[spaces'[i]] = frames'[i].guess
    BY <1>1, <1>2 DEF Filling
  <2>3. \A i \in (Held' + 1)..Len(spaces') : board'[spaces'[i]] = 0
    BY <1>1, <1>2 DEF Filling
  <2>4. /\ mode' \in {"next", "undo"} => Depth' > 0
        /\ mode' = "failed" => Depth' = 0
        /\ mode' = "solved" => Depth' = Len(spaces')
    BY <1>1, <1>3
  <2> QED
    BY <1>1, <1>2, <1>5, <2>1, <2>2, <2>3, <2>4 DEF Filling
<1> QED
  BY <1>4, <1>6 DEF StackInv

(* The guess of an activation is taken back. *)
LEMMA UnholdIs ==
    ASSUME StackInv, Unhold
    PROVE  /\ mode = "undo" /\ mode' = "next" /\ UNCHANGED <<solver, puzzle, frames, spaces>>
           /\ board' = [board EXCEPT ![Innermost.cell] = 0]
           /\ Depth \in 1..Len(spaces) /\ Depth' = Depth /\ Held' = Depth - 1 /\ Held = Depth
           /\ solver = "min_arity_cache" =>
                /\ Mark(Innermost.cell, Innermost.modified, Innermost.guess, FALSE)
                /\ arity' = [c \in Cells |-> IF c \in Innermost.modified THEN arity[c] + 1
                                             ELSE arity[c]]
           /\ solver # "min_arity_cache" => UNCHANGED <<occupied, arity>>
<1>1. /\ mode = "undo" /\ mode' = "next" /\ UNCHANGED <<solver, puzzle, frames, spaces>>
      /\ board' = [board EXCEPT ![Innermost.cell] = 0]
      /\ solver = "min_arity_cache" =>
           /\ Mark(Innermost.cell, Innermost.modified, Innermost.guess, FALSE)
           /\ arity' = [c \in Cells |-> IF c \in Innermost.modified THEN arity[c] + 1
                                        ELSE arity[c]]
      /\ solver # "min_arity_cache" => UNCHANGED <<occupied, arity>>
  BY DEF Unhold, MarkedBy, cache
<1>2. BacktrackTypes /\ Depth > 0 /\ Depth <= Len(spaces)
  BY <1>1 DEF StackInv, Filling
<1>3. Depth \in Nat /\ Len(spaces) \in Nat
  BY <1>2, StackTypes
<1>4. Depth' = Depth /\ Held' = Depth - 1 /\ Held = Depth
  BY <1>1 DEF Depth, Held
<1>5. Depth \in 1..Len(spaces)
  BY <1>2, <1>3
<1> QED
  BY <1>1, <1>4, <1>5

(* The cell of the innermost activation is blank again. *)
LEMMA UnholdStack ==
    ASSUME StackInv, Unhold
    PROVE  StackInv'
<1> DEFINE cell == Innermost.cell
<1>1. /\ mode = "undo" /\ mode' = "next" /\ UNCHANGED <<solver, puzzle, frames, spaces>>
      /\ board' = [board EXCEPT ![cell] = 0]
      /\ Depth \in 1..Len(spaces) /\ Depth' = Depth /\ Held' = Depth - 1 /\ Held = Depth
  BY UnholdIs
<1>2. BacktrackTypes /\ Filling
  BY <1>1 DEF StackInv
<1>3. /\ Depth \in Nat /\ Len(spaces) \in Nat /\ Depth > 0 /\ Depth \in 1..Depth
  BY <1>1, <1>2, StackTypes
<1>4. /\ cell \in Cells /\ Innermost.guess \in 0..NUM /\ Innermost.modified \in SUBSET Cells
      /\ \A i \in 1..Len(spaces) : spaces[i] \in Cells
      /\ cell = spaces[Depth]
  BY <1>2, <1>3, StackTypes DEF Filling, Innermost
<1>5. Enumerates(spaces, Blanks(puzzle)) /\ Agrees(board, puzzle) /\ board \in Boards
  BY <1>2 DEF Filling, BacktrackTypes
<1>6. occupied' \in [Cells -> [0..NUM -> BOOLEAN]] /\ arity' \in [Cells -> Int]
  <2>1. occupied \in [Cells -> [0..NUM -> BOOLEAN]] /\ arity \in [Cells -> Int]
    BY <1>2 DEF BacktrackTypes
  <2>2. CASE solver = "min_arity_cache"
    <3>1. /\ Mark(cell, Innermost.modified, Innermost.guess, FALSE)
          /\ arity' = [c \in Cells |-> IF c \in Innermost.modified THEN arity[c] + 1
                                       ELSE arity[c]]
      BY <2>2, UnholdIs
    <3>2. arity' \in [Cells -> Int]
      BY <2>1, <3>1
    <3> QED
      BY <1>4, <2>1, <3>1, <3>2, MarkTypes
  <2> QED
    BY <2>1, <2>2, UnholdIs
<1>7. BacktrackTypes'
  <2>1. board' \in Boards
    BY <1>1, <1>4, <1>5, BoardSizes DEF Boards
  <2> QED
    BY <1>1, <1>2, <1>6, <2>1 DEF BacktrackTypes, BacktrackModes, BacktrackFrames
<1>8. ASSUME NEW i \in 1..Len(spaces), i # Depth PROVE board'[spaces[i]] = board[spaces[i]]
  <2>1. spaces[i] # spaces[Depth]
    BY <1>1, <1>5, <1>8 DEF Enumerates
  <2>2. spaces[i] \in Cells /\ board \in [Cells -> 0..NUM]
    BY <1>4, <1>5 DEF Boards
  <2>3. spaces[i] # cell
    BY <1>4, <2>1
  <2> HIDE DEF cell
  <2> QED
    BY <1>1, <2>2, <2>3
<1>9. board'[spaces[Depth]] = 0
  BY <1>1, <1>4, <1>5 DEF Boards
<1>10. Agrees(board', puzzle')
  <2>1. cell \in Blanks(puzzle)
    BY <1>1, <1>4, <1>5 DEF Enumerates
  <2> QED
    BY <1>1, <1>5, <2>1 DEF Agrees
<1>11. \A i \in 1..Depth' : frames'[i].cell = spaces'[i]
  BY <1>1, <1>2 DEF Filling
<1>12. \A i \in 1..Held' : frames'[i].guess \in Values /\ board'[spaces'[i]] = frames'[i].guess
  <2>1. \A i \in 1..Depth :
           frames[i].guess \in Values /\ board[spaces[i]] = frames[i].guess
    BY <1>1, <1>2 DEF Filling
  <2>2. \A i \in 1..(Depth - 1) : i # Depth /\ i \in 1..Depth /\ i \in 1..Len(spaces)
    BY <1>1, <1>3
  <2> QED
    BY <1>1, <1>8, <2>1, <2>2
<1>13. \A i \in (Held' + 1)..Len(spaces') : board'[spaces'[i]] = 0
  <2>1. \A i \in (Depth + 1)..Len(spaces) : board[spaces[i]] = 0
    BY <1>1, <1>2 DEF Filling
  <2>2. \A i \in Depth..Len(spaces) :
           i = Depth \/ (i # Depth /\ i \in 1..Len(spaces) /\ i \in (Depth + 1)..Len(spaces))
    BY <1>1, <1>3
  <2>3. Depth - 1 + 1 = Depth
    BY <1>3
  <2> QED
    BY <1>1, <1>8, <1>9, <2>1, <2>2, <2>3
<1>14. Filling'
  BY <1>1, <1>2, <1>5, <1>10, <1>11, <1>12, <1>13, <1>3 DEF Filling
<1> QED
  BY <1>7, <1>14 DEF StackInv

-----------------------------------------------------------------------------
(* spaces follow the frames. *)

(* A program keeps the solver that it was started with. *)
LEMMA SolverStays ==
    ASSUME [Next]_vars
    PROVE  solver' = solver
BY DEF vars, Next, Search, BacktrackingStep, LinksStep, FoundLastSpace, ChooseSpace,
       Hold, OutOfGuesses, Unhold, ReadPuzzle, Stopped, BuildHeaders, BuildRow,
       StartDancing, NoColumnLeft, ChooseColumn, TryRow, OutOfRows, TakeRowBack

(* The stack of a backtracking solver is always in order. *)
LEMMA StackAlways ==
    Spec => [](solver \in Backtrackers => StackInv)
<1>1. ASSUME Init, solver \in Backtrackers PROVE StackInv
  <2>1. NoPuzzle \in Boards
    BY BoardSizes DEF NoPuzzle, Boards
  <2>2. /\ occupied \in [Cells -> [0..NUM -> BOOLEAN]] /\ arity \in [Cells -> Int]
        /\ spaces = <<>> /\ frames = <<>> /\ mode = "idle"
        /\ puzzle = NoPuzzle /\ board = NoPuzzle
    BY <1>1 DEF Init
  <2> QED
    BY <1>1, <2>1, <2>2 DEF StackInv, BacktrackTypes, BacktrackModes, BacktrackFrames
<1>2. ASSUME solver \in Backtrackers => StackInv, [Next]_vars
      PROVE  (solver \in Backtrackers => StackInv)'
  <2>1. solver' = solver
    BY <1>2, SolverStays
  <2> SUFFICES ASSUME solver \in Backtrackers PROVE StackInv'
    BY <2>1
  <2>2. StackInv /\ BacktrackTypes
    BY <1>2 DEF StackInv
  <2>3. CASE UNCHANGED vars
    BY <2>2, <2>3 DEF vars, StackInv, BacktrackTypes, BacktrackFrames, Filling, Depth, Held
  <2> QED
    BY <1>2, <2>2, <2>3, BacktrackerSteps, FoundStack, ChooseStack, HoldStack, ReturnStack,
       UnholdStack, ReadStack
<1> QED
  BY <1>1, <1>2, PTL DEF Spec

(* The assertions of the backtracking solvers on board[cell] hold: whatever find_min_arity
   swaps, spaces stays an enumeration of the blank cells, the activations hold the first
   of them and exactly the cells behind them are blank. *)
THEOREM SudokuSpacesFollowTheFrames ==
    Spec => []SpacesFollowTheFrames
<1>1. ASSUME solver \in Backtrackers => StackInv PROVE SpacesFollowTheFrames
  <2> SUFFICES ASSUME solver \in Backtrackers, mode \in Searching
               PROVE  /\ ToSet(spaces) = Blanks(puzzle) /\ Len(spaces) = Cardinality(Blanks(puzzle))
                      /\ \A i \in DOMAIN frames : spaces[i] = frames[i].cell
                      /\ \A i \in DOMAIN spaces :
                            board[spaces[i]] =
                               (IF i > Depth \/ (i = Depth /\ mode = "next") THEN 0
                                ELSE frames[i].guess)
    BY DEF SpacesFollowTheFrames
  <2>1. BacktrackTypes /\ Filling
    BY <1>1 DEF StackInv, Searching
  <2>2. Depth \in Nat /\ Len(spaces) \in Nat /\ DOMAIN frames = 1..Depth
        /\ DOMAIN spaces = 1..Len(spaces)
    BY <2>1, StackTypes
  <2>3. ToSet(spaces) = Blanks(puzzle) /\ Len(spaces) = Cardinality(Blanks(puzzle))
    BY <2>1, EnumeratesAll DEF Filling
  <2>4. \A i \in DOMAIN frames : spaces[i] = frames[i].cell
    BY <2>1, <2>2 DEF Filling
  <2>5. ASSUME NEW i \in 1..Len(spaces)
        PROVE  board[spaces[i]] = (IF i > Depth \/ (i = Depth /\ mode = "next") THEN 0
                                   ELSE frames[i].guess)
    <3>1. /\ \A k \in 1..Held : board[spaces[k]] = frames[k].guess
          /\ \A k \in (Held + 1)..Len(spaces) : board[spaces[k]] = 0
      BY <2>1 DEF Filling
    <3>2. CASE i > Depth \/ (i = Depth /\ mode = "next")
      <4>1. i \in (Held + 1)..Len(spaces)
        BY <2>2, <3>2 DEF Held
      <4> QED
        BY <3>1, <3>2, <4>1
    <3>3. CASE ~(i > Depth \/ (i = Depth /\ mode = "next"))
      <4>1. i \in 1..Held
        BY <2>2, <3>3 DEF Held
      <4> QED
        BY <3>1, <3>3, <4>1
    <3> QED
      BY <3>2, <3>3
  <2> QED
    BY <2>2, <2>3, <2>4, <2>5
<1> QED
  BY <1>1, StackAlways, PTL

-----------------------------------------------------------------------------
(* The cache of sudoku_min_arity_cache.cc.  Of a puzzle p and the first k frames fs it
   has marked the values that are taken at the start and those that a guess took. *)

Marked(fs, n, v, k) ==
    \E i \in 1..k : v = fs[i].guess /\ (n = fs[i].cell \/ n \in fs[i].modified)
Taken(p, fs, n, v, k) == InitialOccupied(p)[n][v] \/ Marked(fs, n, v, k)
Takers(fs, n, k) == {i \in 1..k : n \in fs[i].modified}

CacheOf(p, fs, k, occ, ar) ==
    /\ \A n \in Cells : \A v \in 0..NUM : occ[n][v] <=> Taken(p, fs, n, v, k)
    /\ \A i \in 1..k :
         /\ fs[i].modified = {n \in neighbors[fs[i].cell] : ~Taken(p, fs, n, fs[i].guess, i - 1)}
         /\ ~Taken(p, fs, fs[i].cell, fs[i].guess, i - 1)
    /\ \A n \in Cells : ar[n] = InitialArity(p)[n] - Cardinality(Takers(fs, n, k))

(* Only the first k frames count. *)
LEMMA TakenSame ==
    ASSUME NEW p, NEW fs, NEW gs, NEW k \in Nat, \A i \in 1..k : gs[i] = fs[i],
           NEW n, NEW v, NEW j \in 0..k
    PROVE  /\ Taken(p, gs, n, v, j) <=> Taken(p, fs, n, v, j)
           /\ Takers(gs, n, j) = Takers(fs, n, j)
<1>1. \A i \in 1..j : gs[i] = fs[i]
  OBVIOUS
<1> QED
  BY <1>1 DEF Taken, Marked, Takers

(* A cache is right for all stacks with the same first frames. *)
LEMMA CacheSame ==
    ASSUME NEW p, NEW fs, NEW gs, NEW k \in Nat, \A i \in 1..k : gs[i] = fs[i],
           NEW occ, NEW ar, CacheOf(p, fs, k, occ, ar)
    PROVE  CacheOf(p, gs, k, occ, ar)
<1>1. ASSUME NEW n, NEW v, NEW j \in 0..k
      PROVE  /\ Taken(p, gs, n, v, j) <=> Taken(p, fs, n, v, j)
             /\ Takers(gs, n, j) = Takers(fs, n, j)
  BY TakenSame
<1>2. k \in 0..k /\ \A i \in 1..k : i - 1 \in 0..k
  OBVIOUS
<1>3. \A n \in Cells : \A v \in 0..NUM : occ[n][v] <=> Taken(p, gs, n, v, k)
  BY <1>1, <1>2 DEF CacheOf
<1>4. ASSUME NEW i \in 1..k
      PROVE  /\ gs[i].modified = {n \in neighbors[gs[i].cell] :
                                     ~Taken(p, gs, n, gs[i].guess, i - 1)}
             /\ ~Taken(p, gs, gs[i].cell, gs[i].guess, i - 1)
  <2>1. /\ fs[i].modified = {n \in neighbors[fs[i].cell] :
                                ~Taken(p, fs, n, fs[i].guess, i - 1)}
        /\ ~Taken(p, fs, fs[i].cell, fs[i].guess, i - 1)
    BY DEF CacheOf
  <2>2. gs[i] = fs[i]
    OBVIOUS
  <2> QED
    BY <1>1, <1>2, <2>1, <2>2
<1>5. \A n \in Cells : ar[n] = InitialArity(p)[n] - Cardinality(Takers(gs, n, k))
  BY <1>1, <1>2 DEF CacheOf
<1> QED
  BY <1>3, <1>4, <1>5 DEF CacheOf

(* One frame more. *)
LEMMA TakenMore ==
    ASSUME NEW p, NEW fs, NEW k \in Nat, NEW n, NEW v
    PROVE  /\ Taken(p, fs, n, v, k + 1) <=>
                \/ Taken(p, fs, n, v, k)
                \/ v = fs[k + 1].guess /\ (n = fs[k + 1].cell \/ n \in fs[k + 1].modified)
           /\ Takers(fs, n, k + 1) = IF n \in fs[k + 1].modified THEN Takers(fs, n, k) \cup {k + 1}
                                     ELSE Takers(fs, n, k)
           /\ k + 1 \notin Takers(fs, n, k) /\ IsFiniteSet(Takers(fs, n, k))
           /\ Cardinality(Takers(fs, n, k)) \in Nat
<1>1. \A i : i \in 1..(k + 1) <=> i \in 1..k \/ i = k + 1
  OBVIOUS
<1>2. Taken(p, fs, n, v, k + 1) <=>
         \/ Taken(p, fs, n, v, k)
         \/ v = fs[k + 1].guess /\ (n = fs[k + 1].cell \/ n \in fs[k + 1].modified)
  BY <1>1 DEF Taken, Marked
<1>3. Takers(fs, n, k + 1) = IF n \in fs[k + 1].modified THEN Takers(fs, n, k) \cup {k + 1}
                             ELSE Takers(fs, n, k)
  BY <1>1 DEF Takers
<1>4. k + 1 \notin Takers(fs, n, k)
  BY DEF Takers
<1>5. IsFiniteSet(Takers(fs, n, k))
  <2>1. IsFiniteSet(1..k) /\ Takers(fs, n, k) \subseteq 1..k
    BY FS_Interval DEF Takers
  <2> QED
    BY <2>1, FS_Subset
<1> QED
  BY <1>2, <1>3, <1>4, <1>5, FS_CardinalityType

(* The number of guesses that took a candidate from n. *)
LEMMA TakersCount ==
    ASSUME NEW fs, NEW k \in Nat, NEW n
    PROVE  /\ Cardinality(Takers(fs, n, k)) \in Nat
           /\ Cardinality(Takers(fs, n, k + 1)) =
                IF n \in fs[k + 1].modified THEN Cardinality(Takers(fs, n, k)) + 1
                ELSE Cardinality(Takers(fs, n, k))
<1> DEFINE T == Takers(fs, n, k)
<1>1. /\ Takers(fs, n, k + 1) = IF n \in fs[k + 1].modified THEN T \cup {k + 1} ELSE T
      /\ k + 1 \notin T /\ IsFiniteSet(T) /\ Cardinality(T) \in Nat
  BY TakenMore
<1> HIDE DEF T
<1>2. Cardinality(T \cup {k + 1}) = Cardinality(T) + 1
  BY <1>1, FS_AddElement
<1> QED
  BY <1>1, <1>2 DEF T

(* What the activation f does to the cache when it holds its guess, and when it takes the
   guess back. *)
Takes(f, occ, ar, occ2, ar2) ==
    /\ ~occ[f.cell][f.guess] /\ f.modified = {n \in neighbors[f.cell] : ~occ[n][f.guess]}
    /\ \A n \in Cells : \A v \in 0..NUM :
         occ2[n][v] <=> occ[n][v] \/ (v = f.guess /\ n \in f.modified \cup {f.cell})
    /\ \A n \in Cells : ar2[n] = IF n \in f.modified THEN ar[n] - 1 ELSE ar[n]
GivesBack(f, occ, ar, occ2, ar2) ==
    /\ \A n \in Cells : \A v \in 0..NUM :
         occ2[n][v] <=> occ[n][v] /\ ~(v = f.guess /\ n \in f.modified \cup {f.cell})
    /\ \A n \in Cells : ar2[n] = IF n \in f.modified THEN ar[n] + 1 ELSE ar[n]

(* A guess that fits marks what it takes ... *)
LEMMA CacheHeld ==
    ASSUME NEW p \in Boards, NEW fs, NEW gs, NEW k \in Nat, \A i \in 1..k : gs[i] = fs[i],
           NEW occ, NEW ar, CacheOf(p, fs, k, occ, ar), NEW occ2, NEW ar2,
           gs[k + 1].cell \in Cells, gs[k + 1].guess \in 0..NUM,
           Takes(gs[k + 1], occ, ar, occ2, ar2)
    PROVE  CacheOf(p, gs, k + 1, occ2, ar2)
<1> DEFINE cell == gs[k + 1].cell
           guess == gs[k + 1].guess
           modified == gs[k + 1].modified
<1>0. /\ cell \in Cells /\ guess \in 0..NUM
      /\ ~occ[cell][guess] /\ modified = {n \in neighbors[cell] : ~occ[n][guess]}
      /\ \A n \in Cells : \A v \in 0..NUM :
           occ2[n][v] <=> occ[n][v] \/ (v = guess /\ n \in modified \cup {cell})
      /\ \A n \in Cells : ar2[n] = IF n \in modified THEN ar[n] - 1 ELSE ar[n]
  BY DEF Takes
<1>1. CacheOf(p, gs, k, occ, ar)
  BY CacheSame
<1>2. ASSUME NEW n \in Cells, NEW v \in 0..NUM PROVE occ2[n][v] <=> Taken(p, gs, n, v, k + 1)
  <2>1. Taken(p, gs, n, v, k + 1) <=>
           Taken(p, gs, n, v, k) \/ (v = guess /\ (n = cell \/ n \in modified))
    <3>1. Taken(p, gs, n, v, k + 1) <=>
            \/ Taken(p, gs, n, v, k)
            \/ v = gs[k + 1].guess /\ (n = gs[k + 1].cell \/ n \in gs[k + 1].modified)
      BY TakenMore
    <3> QED
      BY <3>1
  <2>2. occ[n][v] <=> Taken(p, gs, n, v, k)
    BY <1>1 DEF CacheOf
  <2>3. occ2[n][v] <=> occ[n][v] \/ (v = guess /\ n \in modified \cup {cell})
    BY <1>0
  <2> QED
    BY <2>1, <2>2, <2>3
<1>3. ASSUME NEW i \in 1..(k + 1)
      PROVE  /\ gs[i].modified = {n \in neighbors[gs[i].cell] :
                                     ~Taken(p, gs, n, gs[i].guess, i - 1)}
             /\ ~Taken(p, gs, gs[i].cell, gs[i].guess, i - 1)
  <2>1. CASE i \in 1..k
    BY <1>1, <2>1 DEF CacheOf
  <2>2. CASE i = k + 1
    <3>1. \A n \in Cells : occ[n][guess] <=> Taken(p, gs, n, guess, k)
      BY <1>1 DEF CacheOf
    <3>2. neighbors[cell] \subseteq Cells
      BY Neighbors
    <3>3. i - 1 = k
      BY <2>2
    <3> QED
      BY <1>0, <2>2, <3>1, <3>2, <3>3
  <2> QED
    BY <2>1, <2>2
<1>4. ASSUME NEW n \in Cells
      PROVE  ar2[n] = InitialArity(p)[n] - Cardinality(Takers(gs, n, k + 1))
  <2>1. ar[n] = InitialArity(p)[n] - Cardinality(Takers(gs, n, k)) /\ InitialArity(p)[n] \in Int
    BY <1>1, InitialCache DEF CacheOf
  <2>2. /\ Cardinality(Takers(gs, n, k)) \in Nat
        /\ Cardinality(Takers(gs, n, k + 1)) =
             IF n \in modified THEN Cardinality(Takers(gs, n, k)) + 1
             ELSE Cardinality(Takers(gs, n, k))
    BY TakersCount
  <2> QED
    BY <1>0, <2>1, <2>2
<1> QED
  BY <1>2, <1>3, <1>4 DEF CacheOf

(* ... and taking it back takes away just these marks. *)
LEMMA CacheUnheld ==
    ASSUME NEW p \in Boards, NEW fs, NEW k \in Nat, NEW occ, NEW ar, NEW occ2, NEW ar2,
           CacheOf(p, fs, k + 1, occ, ar), GivesBack(fs[k + 1], occ, ar, occ2, ar2)
    PROVE  CacheOf(p, fs, k, occ2, ar2)
<1> DEFINE guess == fs[k + 1].guess
           cell == fs[k + 1].cell
           modified == fs[k + 1].modified
<1>0. /\ \A n \in Cells : \A v \in 0..NUM :
           occ2[n][v] <=> occ[n][v] /\ ~(v = guess /\ n \in modified \cup {cell})
      /\ \A n \in Cells : ar2[n] = IF n \in modified THEN ar[n] + 1 ELSE ar[n]
  BY DEF GivesBack
<1>1. /\ modified = {n \in neighbors[cell] : ~Taken(p, fs, n, guess, k)}
      /\ ~Taken(p, fs, cell, guess, k)
  <2>1. k + 1 \in 1..(k + 1) /\ k + 1 - 1 = k
    OBVIOUS
  <2> QED
    BY <2>1 DEF CacheOf
<1>2. ASSUME NEW n \in Cells, NEW v \in 0..NUM PROVE occ2[n][v] <=> Taken(p, fs, n, v, k)
  <2>1. Taken(p, fs, n, v, k + 1) <=>
           Taken(p, fs, n, v, k) \/ (v = guess /\ (n = cell \/ n \in modified))
    BY TakenMore
  <2>2. occ[n][v] <=> Taken(p, fs, n, v, k + 1)
    BY DEF CacheOf
  <2>3. occ2[n][v] <=> occ[n][v] /\ ~(v = guess /\ n \in modified \cup {cell})
    BY <1>0
  <2> HIDE DEF guess, cell, modified
  <2> QED
    BY <1>1, <2>1, <2>2, <2>3
<1>3. \A i \in 1..k :
         /\ fs[i].modified = {n \in neighbors[fs[i].cell] : ~Taken(p, fs, n, fs[i].guess, i - 1)}
         /\ ~Taken(p, fs, fs[i].cell, fs[i].guess, i - 1)
  BY DEF CacheOf
<1>4. ASSUME NEW n \in Cells
      PROVE  ar2[n] = InitialArity(p)[n] - Cardinality(Takers(fs, n, k))
  <2>1. /\ ar[n] = InitialArity(p)[n] - Cardinality(Takers(fs, n, k + 1))
        /\ InitialArity(p)[n] \in Int
    BY InitialCache DEF CacheOf
  <2>2. /\ Cardinality(Takers(fs, n, k)) \in Nat
        /\ Cardinality(Takers(fs, n, k + 1)) =
             IF n \in modified THEN Cardinality(Takers(fs, n, k)) + 1
             ELSE Cardinality(Takers(fs, n, k))
    BY TakersCount
  <2> QED
    BY <1>0, <2>1, <2>2
<1> QED
  BY <1>2, <1>3, <1>4 DEF CacheOf

(* The cache as init_cache leaves it. *)
LEMMA CacheAtStart ==
    ASSUME NEW p \in Boards, NEW fs
    PROVE  CacheOf(p, fs, 0, InitialOccupied(p), InitialArity(p))
<1>1. \A n \in Cells : \A v \in 0..NUM : InitialOccupied(p)[n][v] <=> Taken(p, fs, n, v, 0)
  BY DEF Taken, Marked
<1>2. ASSUME NEW n \in Cells
      PROVE  InitialArity(p)[n] = InitialArity(p)[n] - Cardinality(Takers(fs, n, 0))
  <2>1. Takers(fs, n, 0) = {}
    BY DEF Takers
  <2>2. InitialArity(p)[n] \in Int
    BY InitialCache
  <2> QED
    BY <2>1, <2>2, FS_EmptySet
<1> QED
  BY <1>1, <1>2 DEF CacheOf

(* The cache during a search; the other backtracking solvers leave it as it was read. *)
CacheInv ==
    mode # "idle" =>
        IF solver = "min_arity_cache" THEN CacheOf(puzzle, frames, Held, occupied, arity)
        ELSE occupied = InitialOccupied(puzzle) /\ arity = InitialArity(puzzle)

(* A guess that the cache allows is marked in it. *)
LEMMA HoldCache ==
    ASSUME StackInv, CacheInv, Hold
    PROVE  CacheInv'
<1>1. PICK guess \in Values : Holding(guess)
  BY HoldIs
<1> DEFINE cell == Innermost.cell
           k == Depth - 1
<1>2. /\ mode = "next" /\ mode' = "call" /\ UNCHANGED <<solver, puzzle, spaces>>
      /\ Depth \in 1..Len(spaces) /\ Depth' = Depth /\ Held' = Depth /\ Held = Depth - 1
      /\ Fits(guess, cell) /\ \A i \in 1..(Depth - 1) : frames'[i] = frames[i]
      /\ frames'[Depth].cell = cell /\ frames'[Depth].guess = guess
      /\ solver # "min_arity_cache" => UNCHANGED <<occupied, arity>>
  BY <1>1 DEF Holding
<1>3. /\ BacktrackTypes /\ Depth \in Nat /\ cell \in Cells /\ guess \in 0..NUM
  <2>1. Depth \in Nat /\ Depth > 0 /\ BacktrackTypes
    BY <1>2, StackTypes DEF StackInv
  <2> QED
    BY <2>1, StackTypes, BoardSizes
<1>4. CASE solver # "min_arity_cache"
  BY <1>2, <1>4 DEF CacheInv
<1>5. CASE solver = "min_arity_cache"
  <2> DEFINE modified == Modified(cell, guess)
  <2>0. TRUE \in BOOLEAN
    OBVIOUS
  <2>1. /\ frames'[Depth].modified = modified
        /\ Mark(cell, modified, guess, TRUE)
        /\ arity' = [c \in Cells |-> IF c \in modified THEN arity[c] - 1 ELSE arity[c]]
    BY <1>1, <1>5 DEF Holding
  <2>2. modified = {n \in neighbors[cell] : ~occupied[n][guess]} /\ ~occupied[cell][guess]
    BY <1>2, <1>5 DEF Modified, Fits
  <2>3. modified \in SUBSET Cells
    BY <1>3, <2>2, Neighbors
  <2> HIDE DEF modified
  <2>4. occupied \in [Cells -> [0..NUM -> BOOLEAN]] /\ puzzle \in Boards
    BY <1>3 DEF BacktrackTypes
  <2>5. occupied' = [c \in Cells |-> IF c \in modified \cup {cell}
                                     THEN [occupied[c] EXCEPT ![guess] = TRUE] ELSE occupied[c]]
    BY <2>1 DEF Mark
  <2>6. ASSUME NEW c \in Cells, NEW v \in 0..NUM
        PROVE  occupied'[c][v] <=> occupied[c][v] \/ (v = guess /\ c \in modified \cup {cell})
    <3>1. occupied[c] \in [0..NUM -> BOOLEAN]
      BY <2>4
    <3>2. CASE c \in modified \cup {cell}
      <4>1. occupied'[c] = [occupied[c] EXCEPT ![guess] = TRUE]
        BY <2>5, <3>2
      <4> QED
        BY <3>1, <3>2, <4>1
    <3>3. CASE c \notin modified \cup {cell}
      BY <2>5, <3>3
    <3> QED
      BY <3>2, <3>3
  <2>7. \A c \in Cells : arity'[c] = IF c \in modified THEN arity[c] - 1 ELSE arity[c]
    BY <2>1
  <2>8. k \in Nat /\ k + 1 = Depth /\ Held = k /\ Held' = k + 1
    BY <1>2, <1>3
  <2>9. CacheOf(puzzle, frames, k, occupied, arity)
    BY <1>2, <1>5, <2>8 DEF CacheInv
  <2>10. /\ frames'[k + 1].cell = cell /\ frames'[k + 1].guess = guess
         /\ frames'[k + 1].modified = modified
         /\ \A i \in 1..k : frames'[i] = frames[i]
    BY <1>2, <2>1, <2>8
  <2> HIDE DEF k, cell
  <2>12. /\ frames'[k + 1].cell \in Cells /\ frames'[k + 1].guess \in 0..NUM
         /\ Takes(frames'[k + 1], occupied, arity, occupied', arity')
    BY <1>3, <2>2, <2>6, <2>7, <2>10 DEF Takes
  <2>11. CacheOf(puzzle, frames', k + 1, occupied', arity')
    BY <2>4, <2>8, <2>9, <2>10, <2>12, CacheHeld
  <2> QED
    BY <1>2, <1>5, <2>8, <2>11 DEF CacheInv
<1> QED
  BY <1>4, <1>5

(* A guess that is taken back is no longer marked. *)
LEMMA UnholdCache ==
    ASSUME StackInv, CacheInv, Unhold
    PROVE  CacheInv'
<1> DEFINE k == Depth - 1
<1>1. /\ mode = "undo" /\ mode' = "next" /\ UNCHANGED <<solver, puzzle, frames, spaces>>
      /\ Depth \in 1..Len(spaces) /\ Depth' = Depth /\ Held' = Depth - 1 /\ Held = Depth
      /\ solver # "min_arity_cache" => UNCHANGED <<occupied, arity>>
  BY UnholdIs
<1>2. BacktrackTypes /\ Depth \in Nat /\ Depth > 0
  BY <1>1, StackTypes DEF StackInv
<1>3. CASE solver # "min_arity_cache"
  BY <1>1, <1>3 DEF CacheInv
<1>4. CASE solver = "min_arity_cache"
  <2> DEFINE f == frames[Depth]
  <2>0. FALSE \in BOOLEAN
    OBVIOUS
  <2>1. /\ Mark(f.cell, f.modified, f.guess, FALSE)
        /\ arity' = [c \in Cells |-> IF c \in f.modified THEN arity[c] + 1 ELSE arity[c]]
    BY <1>4, UnholdIs DEF Innermost
  <2>2. f.cell \in Cells /\ f.modified \in SUBSET Cells /\ f.guess \in 0..NUM
    BY <1>2, StackTypes DEF Innermost
  <2> HIDE DEF f
  <2>3. occupied \in [Cells -> [0..NUM -> BOOLEAN]] /\ puzzle \in Boards
    BY <1>2 DEF BacktrackTypes
  <2>4. occupied' = [c \in Cells |-> IF c \in f.modified \cup {f.cell}
                                     THEN [occupied[c] EXCEPT ![f.guess] = FALSE]
                                     ELSE occupied[c]]
    BY <2>1 DEF Mark
  <2>5. ASSUME NEW c \in Cells, NEW v \in 0..NUM
        PROVE  occupied'[c][v] <=>
                 occupied[c][v] /\ ~(v = f.guess /\ c \in f.modified \cup {f.cell})
    <3>1. occupied[c] \in [0..NUM -> BOOLEAN]
      BY <2>3
    <3>2. CASE c \in f.modified \cup {f.cell}
      <4>1. occupied'[c] = [occupied[c] EXCEPT ![f.guess] = FALSE]
        BY <2>4, <3>2
      <4> QED
        BY <2>2, <3>1, <3>2, <4>1
    <3>3. CASE c \notin f.modified \cup {f.cell}
      BY <2>4, <3>3
    <3> QED
      BY <3>2, <3>3
  <2>6. \A c \in Cells : arity'[c] = IF c \in f.modified THEN arity[c] + 1 ELSE arity[c]
    BY <2>1
  <2>7. k \in Nat /\ k + 1 = Depth /\ Held' = k /\ Held = k + 1
    BY <1>1, <1>2
  <2>8. CacheOf(puzzle, frames, k + 1, occupied, arity)
    BY <1>1, <1>4, <2>7 DEF CacheInv
  <2>9. frames[k + 1] = f
    BY <2>7 DEF f
  <2> HIDE DEF k
  <2>11. GivesBack(frames[k + 1], occupied, arity, occupied', arity')
    BY <2>5, <2>6, <2>9 DEF GivesBack
  <2>10. CacheOf(puzzle, frames, k, occupied', arity')
    BY <2>3, <2>7, <2>8, <2>11, CacheUnheld
  <2> QED
    BY <1>1, <1>4, <2>7, <2>10 DEF CacheInv
<1> QED
  BY <1>3, <1>4

(* No step spoils the cache. *)
LEMMA CacheSteps ==
    ASSUME StackInv, CacheInv, [Next]_vars
    PROVE  CacheInv'
<1>0. BacktrackTypes /\ solver \in Backtrackers
  BY DEF StackInv, BacktrackTypes
<1>1. CASE UNCHANGED vars
  BY <1>1 DEF vars, CacheInv, Held, Depth
<1>2. ASSUME NEW p \in Puzzles, ReadPuzzle(p) PROVE CacheInv'
  <2>1. /\ p \in Boards /\ puzzle' = p /\ occupied' = InitialOccupied(p)
        /\ arity' = InitialArity(p) /\ frames' = <<>> /\ mode' = "call"
    BY <1>0, <1>2, ReadIs
  <2>2. Held' = 0
    BY <2>1 DEF Held, Depth
  <2> QED
    BY <2>1, <2>2, CacheAtStart DEF CacheInv
<1>3. CASE FoundLastSpace
  <2>1. /\ mode = "call" /\ mode' = "solved"
        /\ UNCHANGED <<solver, puzzle, frames, occupied, arity>>
    BY <1>3 DEF FoundLastSpace, cache
  <2> QED
    BY <2>1 DEF CacheInv, Held, Depth
<1>4. ASSUME UNCHANGED <<solver, puzzle, occupied, arity>>, mode # "idle", Held' = Held,
             Held \in Nat, \A i \in 1..Held : frames'[i] = frames[i]
      PROVE  CacheInv'
  <2>1. CASE solver # "min_arity_cache"
    BY <1>4, <2>1 DEF CacheInv
  <2>2. CASE solver = "min_arity_cache"
    <3> DEFINE k == Held
    <3>1. CacheOf(puzzle, frames, k, occupied, arity)
      BY <1>4, <2>2 DEF CacheInv
    <3>2. k \in Nat /\ \A i \in 1..k : frames'[i] = frames[i]
      BY <1>4
    <3> HIDE DEF k
    <3>3. CacheOf(puzzle, frames', k, occupied, arity)
      BY <3>1, <3>2, CacheSame
    <3> QED
      BY <1>4, <2>2, <3>3 DEF CacheInv, k
  <2> QED
    BY <2>1, <2>2
<1>5. CASE ChooseSpace
  <2>1. /\ mode = "call" /\ UNCHANGED <<solver, puzzle, occupied, arity>>
        /\ Held' = Depth /\ Held = Depth /\ \A i \in 1..Depth : frames'[i] = frames[i]
    BY <1>5, ChooseIs
  <2> QED
    BY <1>0, <1>4, <2>1, StackTypes
<1>6. CASE OutOfGuesses
  <2>1. /\ mode = "next" /\ UNCHANGED <<solver, puzzle, occupied, arity>>
        /\ Held' = Depth - 1 /\ Held = Depth - 1 /\ Depth \in 1..Len(spaces)
        /\ \A i \in 1..(Depth - 1) : frames'[i] = frames[i]
    BY <1>6, ReturnIs
  <2>2. Depth - 1 \in Nat
    BY <2>1
  <2> QED
    BY <1>4, <2>1, <2>2
<1> QED
  BY <1>0, <1>1, <1>2, <1>3, <1>5, <1>6, HoldCache, UnholdCache, BacktrackerSteps

(* So the cache is right whenever a puzzle was read. *)
LEMMA CacheAlways ==
    Spec => [](solver \in Backtrackers => StackInv /\ CacheInv)
<1> DEFINE Inv == solver \in Backtrackers => StackInv
           Kept == solver \in Backtrackers => CacheInv
<1>1. Init => Kept
  BY DEF Init, CacheInv
<1>2. ASSUME Inv, Inv', Kept, [Next]_vars PROVE Kept'
  <2> SUFFICES ASSUME solver' \in Backtrackers PROVE CacheInv'
    OBVIOUS
  <2>1. solver' = solver
    BY <1>2, SolverStays
  <2> QED
    BY <1>2, <2>1, CacheSteps
<1>3. Spec => []Inv
  BY StackAlways
<1>4. Inv /\ Kept => (solver \in Backtrackers => StackInv /\ CacheInv)
  OBVIOUS
<1> HIDE DEF Inv, Kept
<1> QED
  BY <1>1, <1>2, <1>3, <1>4, PTL DEF Spec

(* The guesses that took a candidate from cell n ... *)
Guessed(fs, n, k) == {fs[i].guess : i \in Takers(fs, n, k)}

(* ... are different values, and none of them is a clue around it. *)
LEMMA GuessesTaken ==
    ASSUME NEW p \in Boards, NEW fs, NEW k \in Nat, NEW occ, NEW ar, CacheOf(p, fs, k, occ, ar),
           \A i \in 1..k : fs[i].guess \in Values, NEW n \in Cells
    PROVE  /\ Guessed(fs, n, k) \subseteq Values /\ Guessed(fs, n, k) \cap Clues(p, n) = {}
           /\ IsFiniteSet(Guessed(fs, n, k))
           /\ Cardinality(Guessed(fs, n, k)) = Cardinality(Takers(fs, n, k))
<1> DEFINE K == Takers(fs, n, k)
           G == {fs[i].guess : i \in K}
           f == [i \in K |-> fs[i].guess]
<1>1. ASSUME NEW i \in K
      PROVE  /\ i \in 1..k /\ fs[i].guess \in Values /\ fs[i].guess \in 0..NUM
             /\ n \in fs[i].modified /\ ~Taken(p, fs, n, fs[i].guess, i - 1)
  <2>1. i \in 1..k /\ n \in fs[i].modified
    BY DEF Takers
  <2> QED
    BY <2>1, BoardSizes DEF CacheOf
<1>2. ASSUME NEW i \in K, NEW j \in K, i < j, fs[i].guess = fs[j].guess PROVE FALSE
  <2>1. i \in 1..(j - 1) /\ n \in fs[i].modified
    BY <1>1, <1>2
  <2>2. Marked(fs, n, fs[j].guess, j - 1)
    BY <1>2, <2>1 DEF Marked
  <2> QED
    BY <1>1, <2>2 DEF Taken
<1>3. \A i, j \in K : fs[i].guess = fs[j].guess => i = j
  <2> SUFFICES ASSUME NEW i \in K, NEW j \in K, fs[i].guess = fs[j].guess PROVE i = j
    OBVIOUS
  <2>1. i \in Nat /\ j \in Nat
    BY <1>1
  <2>2. ~(i < j) /\ ~(j < i)
    BY <1>2
  <2> QED
    BY <2>1, <2>2
<1>4. G \subseteq Values
  BY <1>1
<1>5. G \cap Clues(p, n) = {}
  <2> SUFFICES ASSUME NEW i \in K, fs[i].guess \in Clues(p, n) PROVE FALSE
    OBVIOUS
  <2>1. InitialOccupied(p)[n][fs[i].guess]
    BY <1>1 DEF InitialOccupied
  <2> QED
    BY <1>1, <2>1 DEF Taken
<1>6. IsFiniteSet(K)
  BY TakenMore
<1>7. f \in Bijection(K, G)
  BY <1>3 DEF Bijection, Injection, Surjection, IsInjective
<1>8. ExistsBijection(K, G)
  BY <1>7 DEF ExistsBijection
<1> HIDE DEF K, G
<1>9. IsFiniteSet(G) /\ Cardinality(G) = Cardinality(K)
  BY <1>6, <1>8, FS_Bijection
<1> QED
  BY <1>4, <1>5, <1>9 DEF K, G, Guessed

(* The filled cells of a board in the middle of a search. *)
LEMMA FilledCells ==
    ASSUME StackInv, mode # "idle", NEW cell \in Cells, board[cell] # 0
    PROVE  \/ puzzle[cell] # 0 /\ board[cell] = puzzle[cell]
           \/ \E i \in 1..Held : frames[i].cell = cell /\ frames[i].guess = board[cell]
<1>1. BacktrackTypes /\ Filling
  BY DEF StackInv
<1>2. Depth \in Nat /\ Len(spaces) \in Nat /\ Depth <= Len(spaces) /\ Held \in Nat
      /\ Held <= Depth
  BY <1>1, StackTypes DEF Filling, Held
<1>3. CASE puzzle[cell] # 0
  BY <1>1, <1>3 DEF Filling, Agrees, Blanks
<1>4. CASE puzzle[cell] = 0
  <2>1. PICK i \in 1..Len(spaces) : spaces[i] = cell
    BY <1>1, <1>4 DEF Filling, Enumerates, Blanks
  <2>2. i \notin (Held + 1)..Len(spaces)
    BY <1>1, <2>1 DEF Filling
  <2>3. i \in 1..Held /\ i \in 1..Depth
    BY <1>2, <2>2
  <2> QED
    BY <1>1, <2>1, <2>3 DEF Filling
<1> QED
  BY <1>3, <1>4

(* The values that the cache has marked for a blank cell are those of its neighbours. *)
LEMMA MarkedIsSeen ==
    ASSUME StackInv, CacheInv, solver = "min_arity_cache", mode \in {"call", "next"},
           NEW cell \in Blanks(board), NEW v \in Values
    PROVE  /\ puzzle[cell] = 0
           /\ v \in Clues(board, cell) <=>
                v \in Clues(puzzle, cell) \/ Marked(frames, cell, v, Held)
           /\ Marked(frames, cell, v, Held) =>
                \E i \in Takers(frames, cell, Held) : frames[i].guess = v
           /\ occupied[cell][v] <=> v \in Clues(board, cell)
<1>0. /\ BacktrackTypes /\ Filling /\ CacheOf(puzzle, frames, Held, occupied, arity)
      /\ mode # "idle"
  BY DEF StackInv, CacheInv
<1>1. /\ Depth \in Nat /\ Len(spaces) \in Nat /\ Depth <= Len(spaces) /\ Held \in Nat
      /\ Held <= Depth /\ \A i \in 1..Held : i \in 1..Depth /\ i \in 1..Len(spaces)
  BY <1>0, StackTypes DEF Filling, Held
<1>2. /\ cell \in Cells /\ board[cell] = 0 /\ v # 0 /\ v \in 0..NUM
      /\ puzzle \in Boards /\ board \in Boards
  BY <1>0, BoardSizes DEF Blanks, BacktrackTypes
<1>3. /\ Agrees(board, puzzle)
      /\ \A i \in 1..Held : /\ frames[i].cell = spaces[i] /\ frames[i].guess \in Values
                            /\ board[spaces[i]] = frames[i].guess
  BY <1>0, <1>1 DEF Filling
<1>4. puzzle[cell] = 0
  BY <1>2, <1>3 DEF Agrees, Blanks
<1>5. \A i \in 1..Held : /\ frames[i].cell \in Cells /\ frames[i].cell # cell
                         /\ board[frames[i].cell] = frames[i].guess /\ frames[i].guess # 0
                         /\ frames[i].modified \subseteq neighbors[frames[i].cell]
  <2>1. \A i \in 1..Held : frames[i].cell \in Cells /\ frames[i].guess # 0
    BY <1>0, <1>1, <1>3, StackTypes, BoardSizes
  <2>2. \A i \in 1..Held : frames[i].modified \subseteq neighbors[frames[i].cell]
    BY <1>0 DEF CacheOf
  <2> QED
    BY <1>2, <1>3, <2>1, <2>2
<1>6. ASSUME v \in Clues(puzzle, cell) PROVE v \in Clues(board, cell)
  <2>1. PICK n \in neighbors[cell] : puzzle[n] = v
    BY <1>6 DEF Clues
  <2>2. n \in Cells
    BY <1>2, Neighbors
  <2>3. board[n] = v
    BY <1>2, <1>3, <2>1, <2>2 DEF Agrees, Blanks
  <2> QED
    BY <1>2, <2>3 DEF Clues
<1>7. ASSUME NEW i \in 1..Held, v = frames[i].guess,
             cell = frames[i].cell \/ cell \in frames[i].modified
      PROVE  i \in Takers(frames, cell, Held) /\ v \in Clues(board, cell)
  <2>1. cell \in frames[i].modified
    BY <1>5, <1>7
  <2>2. frames[i].cell \in neighbors[cell]
    BY <1>5, <2>1, Neighbors
  <2> QED
    BY <1>2, <1>5, <1>7, <2>1, <2>2 DEF Takers, Clues
<1>8. Marked(frames, cell, v, Held) =>
        /\ v \in Clues(board, cell)
        /\ \E i \in Takers(frames, cell, Held) : frames[i].guess = v
  BY <1>7 DEF Marked
<1>9. ASSUME v \in Clues(board, cell)
      PROVE  v \in Clues(puzzle, cell) \/ Marked(frames, cell, v, Held)
  <2>1. PICK n \in neighbors[cell] : board[n] = v
    BY <1>9 DEF Clues
  <2>2. n \in Cells /\ cell \in neighbors[n]
    BY <1>2, <2>1, Neighbors
  <2>3. CASE puzzle[n] # 0 /\ board[n] = puzzle[n]
    BY <1>2, <2>1, <2>3 DEF Clues
  <2>4. ASSUME NEW i \in 1..Held, frames[i].cell = n, frames[i].guess = board[n]
        PROVE  v \in Clues(puzzle, cell) \/ Marked(frames, cell, v, Held)
    <3>1. CASE cell \in frames[i].modified
      BY <2>1, <2>4, <3>1 DEF Marked
    <3>2. CASE cell \notin frames[i].modified
      <4>1. Taken(puzzle, frames, cell, v, i - 1)
        BY <1>0, <2>1, <2>2, <2>4, <3>2 DEF CacheOf
      <4>2. CASE Marked(frames, cell, v, i - 1)
        <5>1. \A j \in 1..(i - 1) : j \in 1..Held
          BY <1>1
        <5> QED
          BY <4>2, <5>1 DEF Marked
      <4>3. CASE InitialOccupied(puzzle)[cell][v]
        BY <1>2, <1>4, <4>3 DEF InitialOccupied
      <4> QED
        BY <4>1, <4>2, <4>3 DEF Taken
    <3> QED
      BY <3>1, <3>2
  <2>5. board[n] # 0
    BY <1>2, <2>1
  <2> QED
    BY <1>0, <2>2, <2>3, <2>4, <2>5, FilledCells
<1>10. v \in Clues(board, cell) <=> v \in Clues(puzzle, cell) \/ Marked(frames, cell, v, Held)
  BY <1>6, <1>8, <1>9
<1>11. occupied[cell][v] <=> v \in Clues(board, cell)
  <2>1. occupied[cell][v] <=> Taken(puzzle, frames, cell, v, Held)
    BY <1>0, <1>2 DEF CacheOf
  <2>2. InitialOccupied(puzzle)[cell][v] <=> v \in Clues(puzzle, cell)
    BY <1>2, <1>4 DEF InitialOccupied
  <2> QED
    BY <1>10, <2>1, <2>2 DEF Taken
<1> QED
  BY <1>4, <1>8, <1>10, <1>11

(* sudoku_min_arity_cache.cc: whatever was guessed and taken back, the cache says of every
   blank cell what its neighbours on the board say. *)
THEOREM SudokuCacheMatchesBoard ==
    Spec => []CacheMatchesBoard
<1>1. ASSUME solver \in Backtrackers => StackInv /\ CacheInv PROVE CacheMatchesBoard
  <2> SUFFICES ASSUME solver = "min_arity_cache", mode \in {"call", "next"},
                      NEW cell \in Blanks(board)
               PROVE  /\ {v \in Values : occupied[cell][v]} = Clues(board, cell)
                      /\ arity[cell] = NUM - Cardinality(Clues(board, cell))
    BY DEF CacheMatchesBoard
  <2>0. StackInv /\ CacheInv
    BY <1>1 DEF Backtrackers
  <2>1. /\ BacktrackTypes /\ Filling /\ CacheOf(puzzle, frames, Held, occupied, arity)
    BY <2>0 DEF StackInv, CacheInv
  <2>2. cell \in Cells /\ puzzle \in Boards /\ board \in Boards
    BY <2>1 DEF Blanks, BacktrackTypes
  <2>3. /\ Clues(board, cell) \subseteq Values /\ Clues(puzzle, cell) \subseteq Values
        /\ IsFiniteSet(Clues(puzzle, cell)) /\ Cardinality(Clues(puzzle, cell)) \in Nat
    BY <2>2, CluesAreFinite
  <2>4. ASSUME NEW v \in Values PROVE occupied[cell][v] <=> v \in Clues(board, cell)
    BY <2>0, MarkedIsSeen
  <2>5. {v \in Values : occupied[cell][v]} = Clues(board, cell)
    BY <2>3, <2>4
  <2> DEFINE K == Takers(frames, cell, Held)
             G == Guessed(frames, cell, Held)
             P == Clues(puzzle, cell)
             B == Clues(board, cell)
  <2>6. Held \in Nat /\ \A i \in 1..Held : frames[i].guess \in Values
    BY <2>1, StackTypes DEF Filling, Held
  <2>7. /\ G \subseteq Values /\ G \cap P = {} /\ IsFiniteSet(G)
        /\ Cardinality(G) = Cardinality(K)
    BY <2>1, <2>2, <2>6, GuessesTaken
  <2>8. ASSUME NEW v \in Values PROVE v \in B <=> v \in P \/ v \in G
    <3>1. /\ v \in B <=> v \in P \/ Marked(frames, cell, v, Held)
          /\ Marked(frames, cell, v, Held) => v \in G
      <4>1. Marked(frames, cell, v, Held) =>
               \E i \in Takers(frames, cell, Held) : frames[i].guess = v
        BY <2>0, MarkedIsSeen
      <4> QED
        BY <2>0, <4>1, MarkedIsSeen DEF Guessed
    <3>2. v \in G => Marked(frames, cell, v, Held)
      BY DEF Marked, Takers, Guessed
    <3> QED
      BY <3>1, <3>2
  <2>9. B = P \cup G
    BY <2>3, <2>7, <2>8
  <2>10. Cardinality(K) \in Nat
    BY <2>6, TakenMore
  <2>11. InitialArity(puzzle)[cell] = NUM - Cardinality(P)
    <3>1. puzzle[cell] = 0
      <4>1. NUM \in Values
        BY BoardSizes DEF Values
      <4> QED
        BY <2>0, <4>1, MarkedIsSeen
    <3>2. {v \in P : v = puzzle[cell] => \E n \in neighbors[cell] : n < cell /\ puzzle[n] = v} = P
      BY <2>3, <3>1, BoardSizes
    <3> QED
      BY <2>2, <3>2 DEF InitialArity
  <2>12. arity[cell] = InitialArity(puzzle)[cell] - Cardinality(K)
    BY <2>1, <2>2 DEF CacheOf
  <2> HIDE DEF K, G, P
  <2>13. Cardinality(P \cup G) = Cardinality(P) + Cardinality(G)
    <3>1. Cardinality(P \cup G) = Cardinality(P) + Cardinality(G) - Cardinality(P \cap G)
      BY <2>3, <2>7, FS_Union DEF P
    <3>2. Cardinality(P \cap G) = 0
      BY <2>7, FS_EmptySet
    <3> QED
      BY <2>3, <2>7, <2>10, <3>1, <3>2 DEF P
  <2>14. arity[cell] = NUM - Cardinality(B)
    BY <2>3, <2>7, <2>9, <2>10, <2>11, <2>12, <2>13, BoardSizes DEF P
  <2> QED
    BY <2>5, <2>14
<1> QED
  BY <1>1, CacheAlways, PTL

(* No count of the cache leaves 0..NUM. *)
LEMMA ArityBounds ==
    ASSUME StackInv, CacheInv, mode # "idle", NEW n \in Cells
    PROVE  arity[n] \in 0..NUM
<1>1. BacktrackTypes /\ Filling
  BY DEF StackInv
<1>2. puzzle \in Boards
  BY <1>1 DEF BacktrackTypes
<1> DEFINE C == {v \in Clues(puzzle, n) :
                    v = puzzle[n] => \E m \in neighbors[n] : m < n /\ puzzle[m] = v}
<1>3. /\ C \subseteq Values /\ IsFiniteSet(C) /\ Cardinality(C) \in 0..NUM
  <2>1. IsFiniteSet(Clues(puzzle, n)) /\ C \subseteq Clues(puzzle, n)
        /\ Clues(puzzle, n) \subseteq Values
    BY <1>2, CluesAreFinite
  <2> HIDE DEF C
  <2>2. C \subseteq Values /\ IsFiniteSet(C) /\ Cardinality(C) \in Nat
    BY <2>1, FS_Subset, FS_CardinalityType
  <2>3. Cardinality(C) <= Cardinality(Values)
    BY <2>2, BoardSizes, FS_Subset
  <2> QED
    BY <2>2, <2>3, BoardSizes
<1>4. InitialArity(puzzle)[n] = NUM - Cardinality(C)
  BY DEF InitialArity
<1>5. CASE solver # "min_arity_cache"
  <2>1. arity = InitialArity(puzzle)
    BY <1>5 DEF CacheInv
  <2> HIDE DEF C
  <2> QED
    BY <1>3, <1>4, <2>1, BoardSizes
<1>6. CASE solver = "min_arity_cache"
  <2> DEFINE K == Takers(frames, n, Held)
             G == Guessed(frames, n, Held)
  <2>1. CacheOf(puzzle, frames, Held, occupied, arity)
    BY <1>6 DEF CacheInv
  <2>2. Held \in Nat /\ \A i \in 1..Held : frames[i].guess \in Values
    BY <1>1, StackTypes DEF Filling, Held
  <2>3. /\ G \subseteq Values /\ G \cap Clues(puzzle, n) = {} /\ IsFiniteSet(G)
        /\ Cardinality(G) = Cardinality(K)
    BY <1>2, <2>1, <2>2, GuessesTaken
  <2>4. Cardinality(K) \in Nat
    BY <2>2, TakenMore
  <2>5. arity[n] = InitialArity(puzzle)[n] - Cardinality(K)
    BY <2>1 DEF CacheOf
  <2>6. G \cap C = {}
    BY <2>3
  <2> HIDE DEF K, G, C
  <2>7. Cardinality(C \cup G) = Cardinality(C) + Cardinality(G) - Cardinality(C \cap G)
    BY <1>3, <2>3, FS_Union
  <2>8. Cardinality(C \cap G) = 0
    BY <2>6, FS_EmptySet
  <2>9. C \cup G \subseteq Values
    BY <1>3, <2>3
  <2>10. Cardinality(C \cup G) <= NUM
    <3>1. C \cup G \in SUBSET Values
      BY <2>9
    <3> QED
      BY <3>1, BoardSizes, FS_Subset
  <2> QED
    BY <1>3, <1>4, <2>3, <2>4, <2>5, <2>7, <2>8, <2>10, BoardSizes
<1> QED
  BY <1>5, <1>6

(* The backtracking solvers have no links. *)
LEMMA NoLinksHere ==
    Spec => [](solver \in Backtrackers => links = NoLinks)
<1>1. Init => (solver \in Backtrackers => links = NoLinks)
  BY DEF Init
<1>2. ASSUME solver \in Backtrackers => StackInv, solver \in Backtrackers => links = NoLinks,
             [Next]_vars
      PROVE  (solver \in Backtrackers => links = NoLinks)'
  <2> SUFFICES ASSUME solver' \in Backtrackers PROVE links' = NoLinks
    OBVIOUS
  <2>1. solver \in Backtrackers
    BY <1>2, SolverStays
  <2>2. mode \in BacktrackModes /\ links = NoLinks
    BY <1>2, <2>1 DEF StackInv, BacktrackTypes
  <2>3. ~LinksStep
    BY <2>1, <2>2 DEF BacktrackModes, Backtrackers, LinkSolvers, LinksStep, BuildHeaders, BuildRow,
       StartDancing, NoColumnLeft, ChooseColumn, TryRow, OutOfRows, TakeRowBack
  <2> QED
    BY <1>2, <2>2, <2>3 DEF Next, Search, Stopped, ReadPuzzle, vars
<1> QED
  BY <1>1, <1>2, StackAlways, PTL DEF Spec

(* The variables of the backtracking solvers keep to their types, and no arity goes below
   zero in spite of everything that is subtracted from it. *)
LEMMA SudokuBacktrackersTypes ==
    Spec => [](solver \in Backtrackers => TypeOK)
<1>1. ASSUME solver \in Backtrackers, StackInv, CacheInv, links = NoLinks,
             mode = "idle" => arity = [cell \in Cells |-> 0]
      PROVE  TypeOK
  <2>1. BacktrackTypes
    BY <1>1 DEF StackInv
  <2>2. arity \in [Cells -> 0..NUM]
    <3>1. \A n \in Cells : arity[n] \in 0..NUM
      BY <1>1, ArityBounds, BoardSizes
    <3>2. arity = [n \in Cells |-> arity[n]]
      BY <2>1 DEF BacktrackTypes
    <3> QED
      BY <3>1, <3>2
  <2>3. DOMAIN links.siz = {}
    BY <1>1 DEF NoLinks
  <2>4. mode \in Searching \cup Answered \cup {"idle"}
    BY <2>1 DEF BacktrackTypes, BacktrackModes, Searching, Answered
  <2> QED
    BY <1>1, <2>1, <2>2, <2>3, <2>4 DEF TypeOK, BacktrackTypes
<1> DEFINE Quiet == mode = "idle" => arity = [cell \in Cells |-> 0]
<1>2. Init => Quiet
  BY DEF Init
<1>3. ASSUME Quiet, [Next]_vars PROVE Quiet'
  BY <1>3 DEF vars, cache, Next, Search, BacktrackingStep, LinksStep, FoundLastSpace, ChooseSpace,
     Hold, OutOfGuesses, Unhold, ReturnFalse, ReadPuzzle, Stopped, BuildHeaders, BuildRow,
     StartDancing, NoColumnLeft, ChooseColumn, TryRow, OutOfRows, TakeRowBack
<1>4. (/\ solver \in Backtrackers => StackInv /\ CacheInv
       /\ solver \in Backtrackers => links = NoLinks
       /\ Quiet) => (solver \in Backtrackers => TypeOK)
  BY <1>1
<1> HIDE DEF Quiet
<1> QED
  BY <1>2, <1>3, <1>4, CacheAlways, NoLinksHere, PTL DEF Spec

(* A search that has failed holds no cell. *)
LEMMA FailedBoard ==
    ASSUME StackInv, mode = "failed"
    PROVE  board = puzzle
<1>1. BacktrackTypes /\ Filling /\ mode # "idle"
  BY DEF StackInv
<1>2. Held = 0
  BY <1>1 DEF Filling, Held
<1>3. board \in Boards /\ puzzle \in Boards
  BY <1>1 DEF BacktrackTypes
<1>4. ASSUME NEW cell \in Cells PROVE board[cell] = puzzle[cell]
  <2>1. CASE board[cell] # 0
    BY <1>1, <1>2, <2>1, FilledCells
  <2>2. CASE board[cell] = 0
    BY <1>1, <2>2 DEF Filling, Agrees, Blanks
  <2> QED
    BY <2>1, <2>2
<1> QED
  BY <1>3, <1>4 DEF Boards

(* Functions that agree everywhere are the same. *)
LEMMA SameFunction ==
    ASSUME NEW S, NEW T, NEW f \in [S -> T], NEW g \in [S -> T], \A x \in S : f[x] = g[x]
    PROVE  f = g
OBVIOUS

(* When every activation of a backtracking solver has returned false, the board and the
   cache are the puzzle's again: each undid what it had done. *)
LEMMA SudokuBacktrackersLeaveNoTrace ==
    Spec => [](solver \in Backtrackers => FailureLeavesNoTrace)
<1>1. ASSUME solver \in Backtrackers, StackInv, CacheInv, mode = "failed"
      PROVE  /\ board = puzzle
             /\ occupied = InitialOccupied(puzzle) /\ arity = InitialArity(puzzle)
  <2>1. BacktrackTypes /\ Filling /\ mode # "idle"
    BY <1>1 DEF StackInv
  <2>2. Held = 0
    BY <1>1, <2>1 DEF Filling, Held
  <2>3. board \in Boards /\ puzzle \in Boards
    BY <2>1 DEF BacktrackTypes
  <2>5. board = puzzle
    BY <1>1, FailedBoard
  <2>6. CASE solver = "min_arity_cache"
    <3>1. CacheOf(puzzle, frames, 0, occupied, arity)
      BY <1>1, <2>1, <2>2, <2>6 DEF CacheInv
    <3>2. ASSUME NEW n \in Cells, NEW v \in 0..NUM
          PROVE  occupied[n][v] <=> InitialOccupied(puzzle)[n][v]
      BY <3>1 DEF CacheOf, Taken, Marked
    <3>3. ASSUME NEW n \in Cells PROVE arity[n] = InitialArity(puzzle)[n]
      <4>1. Takers(frames, n, 0) = {} /\ InitialArity(puzzle)[n] \in Int
        BY <2>3, InitialCache DEF Takers
      <4>2. Cardinality(Takers(frames, n, 0)) = 0
        BY <4>1, FS_EmptySet
      <4>3. arity[n] = InitialArity(puzzle)[n] - Cardinality(Takers(frames, n, 0))
        BY <3>1 DEF CacheOf
      <4> QED
        BY <4>1, <4>2, <4>3
    <3>4. /\ occupied \in [Cells -> [0..NUM -> BOOLEAN]] /\ arity \in [Cells -> Int]
          /\ InitialOccupied(puzzle) \in [Cells -> [0..NUM -> BOOLEAN]]
          /\ InitialArity(puzzle) \in [Cells -> Int]
      BY <2>1, <2>3, InitialCache DEF BacktrackTypes
    <3>5. ASSUME NEW n \in Cells PROVE occupied[n] = InitialOccupied(puzzle)[n]
      <4>1. occupied[n] \in [0..NUM -> BOOLEAN]
            /\ InitialOccupied(puzzle)[n] \in [0..NUM -> BOOLEAN]
        BY <3>4
      <4>2. ASSUME NEW v \in 0..NUM PROVE occupied[n][v] = InitialOccupied(puzzle)[n][v]
        <5>1. occupied[n][v] \in BOOLEAN /\ InitialOccupied(puzzle)[n][v] \in BOOLEAN
          BY <4>1
        <5>2. occupied[n][v] <=> InitialOccupied(puzzle)[n][v]
          BY <3>2
        <5> QED
          BY <5>1, <5>2
      <4> DEFINE f == occupied[n]
                 g == InitialOccupied(puzzle)[n]
                 S == 0..NUM
                 T == BOOLEAN
      <4>3. f \in [S -> T] /\ g \in [S -> T] /\ \A v \in S : f[v] = g[v]
        BY <4>1, <4>2, Zenon
      <4> HIDE DEF f, g, S, T
      <4>4. f = g
        BY <4>3, SameFunction
      <4> QED
        BY <4>4 DEF f, g
    <3>6. occupied = InitialOccupied(puzzle)
      BY <3>4, <3>5
    <3>7. arity = InitialArity(puzzle)
      BY <3>3, <3>4
    <3> QED
      BY <2>5, <3>6, <3>7
  <2>7. CASE solver # "min_arity_cache"
    BY <1>1, <2>1, <2>5, <2>7 DEF CacheInv
  <2> QED
    BY <2>6, <2>7
<1>2. (solver \in Backtrackers => StackInv /\ CacheInv) =>
         (solver \in Backtrackers => FailureLeavesNoTrace)
  BY <1>1 DEF FailureLeavesNoTrace, Backtrackers, LinkSolvers
<1> QED
  BY <1>2, CacheAlways, PTL

-----------------------------------------------------------------------------
(* No solution is passed over, and none is claimed wrongly unless clues clash. *)

(* In all the solvers a guess fits when no neighbour on the board has that value. *)
LEMMA FitsMeans ==
    ASSUME StackInv, CacheInv, mode = "next", NEW v \in Values
    PROVE  /\ Innermost.cell \in Cells
           /\ Fits(v, Innermost.cell) <=> available(board, v, Innermost.cell)
<1>1. BacktrackTypes /\ Filling
  BY DEF StackInv
<1>2. Depth \in Nat /\ Depth \in 1..Depth /\ Len(spaces) \in Nat /\ Depth <= Len(spaces)
  BY <1>1, StackTypes DEF Filling
<1>3. Innermost.cell \in Cells /\ Innermost.cell = spaces[Depth]
  BY <1>1, <1>2, StackTypes DEF Filling, Innermost
<1>4. board[Innermost.cell] = 0
  <2>1. Depth \in (Held + 1)..Len(spaces)
    BY <1>2 DEF Held
  <2> QED
    BY <1>1, <1>3, <2>1 DEF Filling
<1>5. CASE solver = "min_arity_cache"
  <2>1. Innermost.cell \in Blanks(board)
    BY <1>3, <1>4 DEF Blanks
  <2>2. occupied[Innermost.cell][v] <=> v \in Clues(board, Innermost.cell)
    BY <1>5, <2>1, MarkedIsSeen
  <2>3. v \in Clues(board, Innermost.cell) <=> ~available(board, v, Innermost.cell)
    BY BoardSizes DEF Clues, available
  <2> QED
    BY <1>3, <1>5, <2>2, <2>3 DEF Fits
<1> QED
  BY <1>3, <1>5 DEF Fits

(* A solution that has the values held so far has one of the guesses still to come. *)
LEMMA SolutionFits ==
    ASSUME StackInv, CacheInv, mode = "next", NEW s \in Boards, Solves(s, puzzle),
           \A i \in 1..(Depth - 1) : s[frames[i].cell] = frames[i].guess
    PROVE  s[Innermost.cell] \in Values /\ Fits(s[Innermost.cell], Innermost.cell)
<1> DEFINE cell == Innermost.cell
<1>1. 1 \in Values
  BY BoardSizes DEF Values
<1>2. cell \in Cells
  BY <1>1, FitsMeans
<1>3. s[cell] \in Values /\ \A n \in neighbors[cell] : s[n] # s[cell]
  BY <1>2, SolutionsDiffer DEF Solves
<1>4. ASSUME NEW n \in neighbors[cell] PROVE board[n] # s[cell]
  <2>1. n \in Cells /\ s[n] # s[cell] /\ s[cell] # 0
    BY <1>2, <1>3, Neighbors, BoardSizes
  <2>2. CASE board[n] = 0
    BY <2>1, <2>2
  <2>3. CASE board[n] # 0
    <3>1. Held = Depth - 1
      BY DEF Held
    <3>2. \/ puzzle[n] # 0 /\ board[n] = puzzle[n]
          \/ \E i \in 1..Held : frames[i].cell = n /\ frames[i].guess = board[n]
      BY <2>1, <2>3, FilledCells
    <3>3. puzzle[n] # 0 => s[n] = puzzle[n]
      BY <2>1 DEF Solves, Agrees, Blanks
    <3>4. board[n] = s[n]
      BY <3>1, <3>2, <3>3
    <3> QED
      BY <2>1, <3>4
  <2> QED
    BY <2>2, <2>3
<1>5. available(board, s[cell], cell)
  BY <1>4 DEF available
<1> QED
  BY <1>3, <1>5, FitsMeans

(* The activations go through the guesses in order: a solution that has the values held
   up to one has no value that it has already given up. *)
GivenUp(k) == k = Depth /\ mode \in {"next", "undo"}
Ahead(s, k) ==
    IF GivenUp(k) THEN s[frames[k].cell] > frames[k].guess
    ELSE s[frames[k].cell] >= frames[k].guess
Follows(s, k) == \A i \in 1..k : s[frames[i].cell] = frames[i].guess

NoneMissed ==
    \A s \in Boards : Solves(s, puzzle) =>
        /\ mode # "failed"
        /\ \A k \in 1..Depth : Follows(s, k - 1) => Ahead(s, k)

MissInv == mode # "idle" => NoneMissed

(* A step that changes neither frames nor puzzle. *)
LEMMA MissSame ==
    ASSUME UNCHANGED <<frames, puzzle>>, mode' # "failed", MissInv, mode # "idle",
           mode \in {"next", "undo"} <=> mode' \in {"next", "undo"}
    PROVE  MissInv'
<1>1. NoneMissed
  BY DEF MissInv
<1>2. \A k : GivenUp(k)' <=> GivenUp(k)
  BY DEF GivenUp, Depth
<1>3. Depth' = Depth
  BY DEF Depth
<1>4. NoneMissed'
  <2> SUFFICES ASSUME NEW s \in Boards, Solves(s, puzzle)', NEW k \in 1..Depth,
                      Follows(s, k - 1)'
               PROVE  Ahead(s, k)'
    BY <1>3 DEF NoneMissed
  <2>1. Solves(s, puzzle) /\ Follows(s, k - 1)
    BY DEF Follows
  <2>2. Ahead(s, k)
    BY <1>1, <2>1 DEF NoneMissed
  <2> QED
    BY <1>2, <2>2 DEF Ahead
<1> QED
  BY <1>4 DEF MissInv

(* The new activation has given up nothing yet. *)
LEMMA MissChoose ==
    ASSUME StackInv, MissInv, ChooseSpace
    PROVE  MissInv'
<1>1. /\ mode = "call" /\ mode' = "next" /\ UNCHANGED <<solver, puzzle, board>>
      /\ Depth' = Depth + 1 /\ \A i \in 1..Depth : frames'[i] = frames[i]
      /\ frames'[Depth + 1] = [cell |-> spaces'[Depth + 1], guess |-> 0, modified |-> {}]
  BY ChooseIs
<1>2. NoneMissed /\ Depth \in Nat
  BY <1>1, StackTypes DEF MissInv, StackInv
<1>3. BacktrackTypes'
  BY ChooseStack DEF StackInv
<1>4. frames'[Depth + 1].cell \in Cells /\ frames'[Depth + 1].guess = 0
  <2>1. frames' \in BacktrackFrames
    BY <1>3 DEF BacktrackTypes
  <2> DEFINE F == [cell : Cells, guess : 0..NUM, modified : SUBSET Cells]
  <2>2. frames' \in Seq(F) /\ Len(frames') = Depth + 1
    BY <1>1, <2>1 DEF BacktrackFrames, Depth
  <2> HIDE DEF F
  <2>3. frames'[Depth + 1] \in F
    BY <1>2, <2>2
  <2>4. frames'[Depth + 1].cell \in Cells
    BY <2>3 DEF F
  <2> DEFINE f == [cell |-> spaces'[Depth + 1], guess |-> 0, modified |-> {}]
  <2>5. f.guess = 0 /\ frames'[Depth + 1] = f
    BY <1>1
  <2> HIDE DEF f
  <2> QED
    BY <2>4, <2>5
<1>5. NoneMissed'
  <2> SUFFICES ASSUME NEW s \in Boards, Solves(s, puzzle)', NEW k \in 1..(Depth + 1),
                      Follows(s, k - 1)'
               PROVE  Ahead(s, k)'
    BY <1>1 DEF NoneMissed
  <2>1. Solves(s, puzzle)
    BY <1>1
  <2>2. CASE k = Depth + 1
    <3>1. s[frames'[k].cell] \in Values
      BY <1>4, <2>1, <2>2, SolutionsDiffer DEF Solves
    <3>2. s[frames'[k].cell] > 0
      BY <3>1, BoardSizes DEF Values
    <3> QED
      BY <1>1, <1>4, <2>2, <3>2 DEF Ahead, GivenUp
  <2>3. CASE k \in 1..Depth
    <3>1. Follows(s, k - 1)
      BY <1>1, <1>2, <2>3 DEF Follows
    <3>2. Ahead(s, k) /\ ~GivenUp(k)
      BY <1>1, <1>2, <2>1, <2>3, <3>1 DEF NoneMissed, GivenUp
    <3>3. ~GivenUp(k)'
      BY <1>1, <1>2, <2>3 DEF GivenUp
    <3> QED
      BY <1>1, <2>3, <3>2, <3>3 DEF Ahead
  <2> QED
    BY <1>2, <2>2, <2>3
<1> QED
  BY <1>5 DEF MissInv

(* The least guess that fits passes over no solution. *)
LEMMA MissHold ==
    ASSUME StackInv, CacheInv, MissInv, Hold
    PROVE  MissInv'
<1>1. PICK guess \in Values : Holding(guess)
  BY HoldIs
<1> DEFINE cell == Innermost.cell
<1>2. /\ mode = "next" /\ mode' = "call" /\ UNCHANGED <<solver, puzzle, spaces>>
      /\ Depth \in 1..Len(spaces) /\ Depth' = Depth
      /\ \A g \in Values : g > Innermost.guess /\ Fits(g, cell) => guess <= g
      /\ \A i \in 1..(Depth - 1) : frames'[i] = frames[i]
      /\ frames'[Depth].cell = cell /\ frames'[Depth].guess = guess
  BY <1>1 DEF Holding
<1>3. NoneMissed /\ Depth \in Nat
  BY <1>2, StackTypes DEF MissInv, StackInv
<1>4. NoneMissed'
  <2> SUFFICES ASSUME NEW s \in Boards, Solves(s, puzzle)', NEW k \in 1..Depth,
                      Follows(s, k - 1)'
               PROVE  Ahead(s, k)'
    BY <1>2 DEF NoneMissed
  <2>1. Solves(s, puzzle)
    BY <1>2
  <2>2. Follows(s, k - 1)
    BY <1>2, <1>3 DEF Follows
  <2>3. Ahead(s, k)
    BY <1>3, <2>1, <2>2 DEF NoneMissed
  <2>4. ~GivenUp(k)'
    BY <1>2 DEF GivenUp
  <2>5. CASE k = Depth
    <3>1. s[cell] > Innermost.guess
      BY <1>2, <2>3, <2>5 DEF Ahead, GivenUp, Innermost
    <3>2. \A i \in 1..(Depth - 1) : s[frames[i].cell] = frames[i].guess
      BY <2>2, <2>5 DEF Follows
    <3>3. s[cell] \in Values /\ Fits(s[cell], cell)
      BY <1>2, <2>1, <3>2, SolutionFits
    <3>4. guess <= s[cell]
      BY <1>2, <3>1, <3>3
    <3>5. s[cell] >= guess
      BY <3>3, <3>4, BoardSizes
    <3> QED
      BY <1>2, <2>4, <2>5, <3>5 DEF Ahead
  <2>6. CASE k # Depth
    <3>1. ~GivenUp(k) /\ frames'[k] = frames[k]
      BY <1>2, <1>3, <2>6 DEF GivenUp
    <3> QED
      BY <2>3, <2>4, <3>1 DEF Ahead
  <2> QED
    BY <2>5, <2>6
<1> QED
  BY <1>4 DEF MissInv

(* When no guess is left, no solution has the values of the activations below. *)
LEMMA MissReturn ==
    ASSUME StackInv, CacheInv, MissInv, OutOfGuesses
    PROVE  MissInv'
<1>1. /\ mode = "next" /\ UNCHANGED <<solver, puzzle, board, spaces, occupied, arity>>
      /\ Guesses(Innermost) = {}
      /\ Depth \in 1..Len(spaces) /\ Depth' = Depth - 1
      /\ mode' = IF Depth = 1 THEN "failed" ELSE "undo"
      /\ \A i \in 1..(Depth - 1) : frames'[i] = frames[i]
  BY ReturnIs
<1>2. NoneMissed /\ Depth \in Nat /\ Depth \in 1..Depth
  BY <1>1, StackTypes DEF MissInv, StackInv
<1>3. ASSUME NEW s \in Boards, Solves(s, puzzle) PROVE ~Follows(s, Depth - 1)
  <2> SUFFICES ASSUME Follows(s, Depth - 1) PROVE FALSE
    OBVIOUS
  <2>1. Ahead(s, Depth)
    BY <1>2, <1>3 DEF NoneMissed
  <2>2. s[Innermost.cell] > Innermost.guess
    BY <1>1, <2>1 DEF Ahead, GivenUp, Innermost
  <2>3. s[Innermost.cell] \in Values /\ Fits(s[Innermost.cell], Innermost.cell)
    BY <1>1, <1>3, SolutionFits DEF Follows
  <2> QED
    BY <1>1, <2>2, <2>3 DEF Guesses
<1>4. NoneMissed'
  <2> SUFFICES ASSUME NEW s \in Boards, Solves(s, puzzle)'
               PROVE  /\ mode' # "failed"
                      /\ \A k \in 1..(Depth - 1) : Follows(s, k - 1)' => Ahead(s, k)'
    BY <1>1 DEF NoneMissed
  <2>1. Solves(s, puzzle)
    BY <1>1
  <2>2. mode' = "undo" /\ mode' # "failed"
    <3>1. Depth = 1 => Follows(s, Depth - 1)
      BY DEF Follows
    <3> QED
      BY <1>1, <1>3, <2>1, <3>1
  <2>3. ASSUME NEW k \in 1..(Depth - 1), Follows(s, k - 1)' PROVE Ahead(s, k)'
    <3>1. Follows(s, k - 1)
      BY <1>1, <1>2, <2>3 DEF Follows
    <3>2. Ahead(s, k) /\ ~GivenUp(k) /\ frames'[k] = frames[k]
      BY <1>1, <1>2, <2>1, <3>1 DEF NoneMissed, GivenUp
    <3>3. s[frames[k].cell] >= frames[k].guess
      BY <3>2 DEF Ahead
    <3>4. CASE k = Depth - 1
      <4>1. s[frames[k].cell] # frames[k].guess
        <5>1. \A i \in 1..(Depth - 1) : i \in 1..(k - 1) \/ i = k
          BY <1>2, <3>4
        <5> QED
          BY <1>3, <2>1, <3>1, <5>1 DEF Follows
      <4>2. s[frames[k].cell] \in Int /\ frames[k].guess \in Int
        <5>1. frames[k].cell \in Cells /\ frames[k].guess \in 0..NUM
          BY <1>1, <1>2, StackTypes DEF StackInv
        <5>2. s[frames[k].cell] \in 0..NUM
          BY <5>1 DEF Boards
        <5> QED
          BY <5>1, <5>2, BoardSizes
      <4>3. s[frames'[k].cell] > frames'[k].guess
        BY <3>2, <3>3, <4>1, <4>2
      <4> QED
        BY <1>1, <2>2, <3>4, <4>3 DEF Ahead, GivenUp
    <3>5. CASE k # Depth - 1
      <4>1. ~GivenUp(k)'
        BY <1>1, <3>5 DEF GivenUp
      <4> QED
        BY <3>2, <3>3, <4>1 DEF Ahead
    <3> QED
      BY <3>4, <3>5
  <2> QED
    BY <2>2, <2>3
<1> QED
  BY <1>4 DEF MissInv

(* No step of a search passes over a solution. *)
LEMMA MissSteps ==
    ASSUME StackInv, CacheInv, MissInv, [Next]_vars
    PROVE  MissInv'
<1>0. BacktrackTypes
  BY DEF StackInv
<1>1. CASE UNCHANGED vars
  <2>1. UNCHANGED <<frames, puzzle, mode>>
    BY <1>1 DEF vars
  <2>2. mode # "idle" => mode' # "failed" \/ MissInv'
    BY <2>1 DEF MissInv, NoneMissed
  <2>3. CASE mode = "idle"
    BY <2>1, <2>3 DEF MissInv
  <2> QED
    BY <2>1, <2>2, <2>3, MissSame
<1>2. ASSUME NEW p \in Puzzles, ReadPuzzle(p) PROVE MissInv'
  <2>1. frames' = <<>> /\ mode' = "call"
    BY <1>0, <1>2, ReadIs
  <2>2. Depth' = 0
    BY <2>1 DEF Depth
  <2> QED
    BY <2>1, <2>2 DEF MissInv, NoneMissed
<1>3. CASE FoundLastSpace
  <2>1. mode = "call" /\ mode' = "solved" /\ UNCHANGED <<frames, puzzle>>
    BY <1>3 DEF FoundLastSpace
  <2> QED
    BY <2>1, MissSame
<1>4. CASE Unhold
  <2>1. mode = "undo" /\ mode' = "next" /\ UNCHANGED <<frames, puzzle>>
    BY <1>4, UnholdIs
  <2> QED
    BY <2>1, MissSame
<1> QED
  BY <1>0, <1>1, <1>2, <1>3, <1>4, MissChoose, MissHold, MissReturn, BacktrackerSteps

(* Unless clues clash, no two neighbours have the same value. *)
Different(b) == \A a \in Cells : \A n \in neighbors[a] : b[a] # 0 => b[n] # b[a]
ClashInv == mode # "idle" => CluesClash(puzzle) \/ Different(board)

(* No step makes two neighbours equal. *)
LEMMA ClashSteps ==
    ASSUME StackInv, CacheInv, ClashInv, [Next]_vars
    PROVE  ClashInv'
<1>0. BacktrackTypes
  BY DEF StackInv
<1>1. CASE UNCHANGED <<puzzle, board>> /\ (mode = "idle" => mode' = "idle")
  BY <1>1 DEF ClashInv
<1>2. ASSUME NEW p \in Puzzles, ReadPuzzle(p) PROVE ClashInv'
  <2>1. p \in Boards /\ puzzle' = p /\ board' = p
    BY <1>0, <1>2, ReadIs
  <2>2. CluesClash(p) \/ Different(p)
    BY DEF CluesClash, Different, available, Blanks
  <2> QED
    BY <2>1, <2>2 DEF ClashInv
<1>3. CASE Hold
  <2>1. PICK guess \in Values : Holding(guess)
    BY <1>3, HoldIs
  <2> DEFINE cell == Innermost.cell
  <2>2. /\ mode = "next" /\ puzzle' = puzzle /\ Fits(guess, cell)
        /\ board' = [board EXCEPT ![cell] = guess]
    BY <2>1 DEF Holding
  <2>3. cell \in Cells /\ available(board, guess, cell)
    BY <2>2, FitsMeans
  <2>4. board \in Boards
    BY <1>0 DEF BacktrackTypes
  <2>5. ASSUME Different(board) PROVE Different(board')
    <3> SUFFICES ASSUME NEW a \in Cells, NEW n \in neighbors[a], board'[a] # 0
                 PROVE  board'[n] # board'[a]
      BY DEF Different
    <3>1. n \in Cells /\ n # a /\ a \in neighbors[n]
      BY Neighbors
    <3>2. board'[cell] = guess /\ \A c \in Cells : c # cell => board'[c] = board[c]
      BY <2>2, <2>3, <2>4 DEF Boards
    <3> HIDE DEF cell
    <3>3. CASE a = cell
      BY <2>3, <3>1, <3>2, <3>3 DEF available
    <3>4. CASE n = cell
      BY <2>3, <3>1, <3>2, <3>4 DEF available
    <3>5. CASE a # cell /\ n # cell
      BY <2>5, <3>1, <3>2, <3>5 DEF Different
    <3> QED
      BY <3>3, <3>4, <3>5
  <2> QED
    BY <2>2, <2>5 DEF ClashInv
<1>4. CASE Unhold
  <2> DEFINE cell == Innermost.cell
  <2>1. /\ mode = "undo" /\ puzzle' = puzzle /\ Depth \in 1..Len(spaces)
        /\ board' = [board EXCEPT ![cell] = 0]
    BY <1>4, UnholdIs
  <2>2. cell \in Cells /\ board \in Boards
    BY <1>0, <2>1, StackTypes DEF BacktrackTypes
  <2>3. ASSUME Different(board) PROVE Different(board')
    <3>1. board'[cell] = 0 /\ \A c \in Cells : c # cell => board'[c] = board[c]
      BY <2>1, <2>2 DEF Boards
    <3> QED
      BY <2>3, <3>1, Neighbors DEF Different
  <2> QED
    BY <2>1, <2>3 DEF ClashInv
<1>5. CASE FoundLastSpace
  <2>1. mode = "call" /\ UNCHANGED <<puzzle, board>>
    BY <1>5 DEF FoundLastSpace
  <2> QED
    BY <1>1, <2>1
<1>6. CASE ChooseSpace
  <2>1. mode = "call" /\ UNCHANGED <<puzzle, board>>
    BY <1>6, ChooseIs
  <2> QED
    BY <1>1, <2>1
<1>7. CASE OutOfGuesses
  <2>1. mode = "next" /\ UNCHANGED <<puzzle, board>>
    BY <1>7, ReturnIs
  <2> QED
    BY <1>1, <2>1
<1>8. CASE UNCHANGED vars
  BY <1>1, <1>8 DEF vars
<1> QED
  BY <1>0, <1>2, <1>3, <1>4, <1>5, <1>6, <1>7, <1>8, BacktrackerSteps

(* A full board without equal neighbours solves the puzzle. *)
LEMMA FullIsSolved ==
    ASSUME StackInv, mode = "solved", Different(board)
    PROVE  Solves(board, puzzle)
<1>1. BacktrackTypes /\ Filling
  BY DEF StackInv
<1>2. board \in Boards /\ puzzle \in Boards /\ Agrees(board, puzzle)
  BY <1>1 DEF BacktrackTypes, Filling
<1>3. ASSUME NEW a \in Cells PROVE board[a] \in Values
  <2>1. CASE puzzle[a] # 0
    <3>1. board[a] # 0 /\ board[a] \in 0..NUM
      BY <1>2, <2>1 DEF Agrees, Blanks, Boards
    <3> QED
      BY <3>1, BoardSizes DEF Values
  <2>2. CASE puzzle[a] = 0
    <3>1. PICK i \in 1..Len(spaces) : spaces[i] = a
      BY <1>1, <2>2 DEF Filling, Enumerates, Blanks
    <3>2. i \in 1..Held
      BY <1>1, StackTypes DEF Filling, Held
    <3> QED
      BY <1>1, <3>1, <3>2 DEF Filling
  <2> QED
    BY <2>1, <2>2
<1>4. \A a \in Cells : board[a] \in Values /\ \A n \in neighbors[a] : board[n] # board[a]
  BY <1>3, BoardSizes DEF Different
<1>5. solved(board)
  BY <1>4, DifferentIsSolved
<1> QED
  BY <1>2, <1>5 DEF Solves

(* What the answers of a backtracking solver are worth. *)
Right ==
    /\ mode # "idle" => Agrees(board, puzzle)
    /\ mode = "solved" => Solves(board, puzzle) \/ CluesClash(puzzle)
    /\ mode = "failed" => ~Solvable(puzzle) /\ board = puzzle

(* What the invariants say of the answers. *)
LEMMA AnswersRight ==
    ASSUME StackInv, CacheInv, MissInv, ClashInv
    PROVE  Right
<1>1. mode # "idle" => Agrees(board, puzzle)
  BY DEF StackInv, Filling
<1>2. mode = "solved" => Solves(board, puzzle) \/ CluesClash(puzzle)
  BY FullIsSolved DEF ClashInv
<1>3. ASSUME mode = "failed" PROVE ~Solvable(puzzle) /\ board = puzzle
  <2>1. puzzle \in Boards /\ NoneMissed
    BY <1>3 DEF StackInv, BacktrackTypes, MissInv
  <2>2. ~Solvable(puzzle)
    BY <1>3, <2>1, SolvableMeans DEF NoneMissed
  <2>3. board = puzzle
    BY <1>3, FailedBoard
  <2> QED
    BY <2>2, <2>3
<1> QED
  BY <1>1, <1>2, <1>3 DEF Right

(* The answers of a backtracking solver are right. *)
LEMMA RightAlways ==
    Spec => [](solver \in Backtrackers => StackInv /\ Right)
<1> DEFINE Inv == solver \in Backtrackers => StackInv /\ CacheInv
           More == solver \in Backtrackers => MissInv /\ ClashInv
<1>1. Init => More
  BY DEF Init, MissInv, ClashInv
<1>2. ASSUME Inv, More, [Next]_vars PROVE More'
  <2>1. solver' = solver
    BY <1>2, SolverStays
  <2> QED
    BY <1>2, <2>1, MissSteps, ClashSteps
<1>3. Spec => []Inv
  BY CacheAlways
<1>4. Inv /\ More => (solver \in Backtrackers => StackInv /\ Right)
  BY AnswersRight
<1> HIDE DEF Inv, More
<1> QED
  BY <1>1, <1>2, <1>3, <1>4, PTL DEF Spec

-----------------------------------------------------------------------------
(* SudokuAnswers speaks of the same boards. *)
LEMMA SameBoards ==
    /\ Promise!Boards = Boards
    /\ \A b, p : /\ Promise!Agrees(b, p) <=> Agrees(b, p)
                 /\ Promise!Solves(b, p) <=> Solves(b, p)
    /\ \A p : /\ Promise!CluesClash(p) <=> CluesClash(p)
              /\ Promise!Solvable(p) <=> Solvable(p)
<1>1. Promise!NUM = NUM /\ Promise!N = N /\ Promise!Cells = Cells /\ Promise!Values = Values
  BY DEF Promise!NUM, NUM, Promise!N, N, Promise!Cells, Cells, Promise!Values, Values
<1>2. Promise!Boards = Boards
  BY <1>1 DEF Promise!Boards, Boards
<1>3. \A c : Promise!Row(c) = Row(c) /\ Promise!Col(c) = Col(c)
  BY <1>1 DEF Promise!Row, Row, Promise!Col, Col
<1>4. \A c : Promise!BoxOf(c) = BoxOf(c)
  BY <1>3 DEF Promise!BoxOf, BoxOf
<1>5. \A a, b : Promise!Adjacent(a, b) <=> Adjacent(a, b)
  BY <1>3, <1>4 DEF Promise!Adjacent, Adjacent
<1>6. Promise!neighbors = neighbors
  BY <1>1, <1>5 DEF Promise!neighbors, neighbors
<1>7. \A b : Promise!Blanks(b) = Blanks(b)
  BY <1>1 DEF Promise!Blanks, Blanks
<1>8. \A b, g, c : Promise!available(b, g, c) <=> available(b, g, c)
  BY <1>6 DEF Promise!available, available
<1>9. Promise!Units = Units
  BY <1>1, <1>3, <1>4 DEF Promise!Units, Units
<1>10. \A b : Promise!solved(b) <=> solved(b)
  BY <1>1, <1>9 DEF Promise!solved, solved
<1>11. \A b, p : Promise!Agrees(b, p) <=> Agrees(b, p)
  BY <1>1, <1>7 DEF Promise!Agrees, Agrees
<1>12. \A b, p : Promise!Solves(b, p) <=> Solves(b, p)
  BY <1>10, <1>11 DEF Promise!Solves, Solves
<1>13. \A p : Promise!CluesClash(p) <=> CluesClash(p)
  BY <1>1, <1>7, <1>8 DEF Promise!CluesClash, CluesClash
<1>14. \A p : Promise!Solvable(p) <=> Solvable(p)
  BY <1>1, <1>7, <1>10 DEF Promise!Solvable, Solvable
<1> QED
  BY <1>2, <1>11, <1>12, <1>13, <1>14

(* What sudoku_basic.cc, sudoku_min_arity.cc and sudoku_min_arity_cache.cc promise: the
   clues stay, what they fill in is a solution unless clues clash, and they give up only
   a puzzle that has no solution, with the board as it was read.  This is SudokuAnswers
   without its liveness. *)
LEMMA SudokuBacktrackersAnswerRight ==
    Spec /\ solver \in Backtrackers => Promise!Spec
<1> DEFINE Inv == StackInv /\ Right
           Known == solver \in Backtrackers
<1>1. ASSUME Init, Known PROVE Promise!Init
  <2>1. NoPuzzle \in Boards
    BY BoardSizes DEF NoPuzzle, Boards
  <2>2. puzzle = NoPuzzle /\ board = puzzle /\ mode = "idle"
    BY <1>1 DEF Init
  <2>3. Verdict = "none"
    BY <2>2 DEF Verdict, Searching
  <2>4. (solver \in Backtrackers) \in BOOLEAN
    OBVIOUS
  <2>5. puzzle \in Promise!Boards
    BY <2>1, <2>2, SameBoards
  <2> QED
    BY <2>2, <2>3, <2>4, <2>5 DEF Promise!Init
<1>2. ASSUME Known, Inv, Inv', [Next]_vars PROVE [Promise!Next]_(Promise!vars)
  <2>0. BacktrackTypes /\ Known' /\ solver' = solver
    BY <1>2, SolverStays DEF StackInv
  <2>1. UNCHANGED (solver \in Backtrackers)
    BY <2>0
  <2>2. ASSUME UNCHANGED <<puzzle, board>>, UNCHANGED Verdict
        PROVE  UNCHANGED Promise!vars
    BY <2>1, <2>2 DEF Promise!vars
  <2>3. CASE UNCHANGED vars
    <3>1. UNCHANGED <<puzzle, board>> /\ UNCHANGED Verdict
      BY <2>3 DEF vars, Verdict
    <3> QED
      BY <2>2, <3>1
  <2>4. ASSUME NEW p \in Puzzles, ReadPuzzle(p) PROVE Promise!Next
    <3>1. /\ p \in Boards /\ puzzle' = p /\ board' = p /\ mode' = "call"
          /\ mode \in Answered \cup {"idle"}
      BY <2>0, <2>4, ReadIs DEF ReadPuzzle
    <3>2. Verdict # "searching" /\ Verdict' = "searching"
      BY <3>1 DEF Verdict, Answered, Searching
    <3>3. Promise!Ask
      BY <2>1, <3>1, <3>2, SameBoards DEF Promise!Ask
    <3> QED
      BY <3>3 DEF Promise!Next
  <2>5. CASE FoundLastSpace
    <3>1. mode = "call" /\ mode' = "solved" /\ UNCHANGED <<puzzle, board>>
      BY <2>5 DEF FoundLastSpace
    <3>2. Verdict = "searching" /\ Verdict' = "solved"
      BY <3>1 DEF Verdict, Searching
    <3>3. Solves(board', puzzle) \/ CluesClash(puzzle)
      BY <1>2, <3>1 DEF Right
    <3>4. Promise!Solve
      BY <1>2, <2>1, <3>1, <3>2, <3>3, SameBoards DEF Promise!Solve
    <3> QED
      BY <3>4 DEF Promise!Next
  <2>6. ASSUME mode \in Searching, mode' \in Searching, UNCHANGED puzzle PROVE Promise!Next
    <3>1. Verdict = "searching" /\ Verdict' = "searching"
      BY <2>6 DEF Verdict, Searching
    <3>2. Agrees(board', puzzle)
      BY <1>2, <2>6 DEF Right, Searching
    <3>3. Promise!Guess
      BY <2>1, <2>6, <3>1, <3>2, SameBoards DEF Promise!Guess
    <3> QED
      BY <3>3 DEF Promise!Next
  <2>7. CASE ChooseSpace
    BY <1>2, <2>6, <2>7, ChooseIs DEF Searching
  <2>8. CASE Hold
    <3>1. PICK guess \in Values : Holding(guess)
      BY <1>2, <2>8, HoldIs
    <3>2. mode = "next" /\ mode' = "call" /\ UNCHANGED puzzle
      BY <3>1 DEF Holding
    <3> QED
      BY <2>6, <3>2 DEF Searching
  <2>9. CASE Unhold
    BY <1>2, <2>6, <2>9, UnholdIs DEF Searching
  <2>10. CASE OutOfGuesses
    <3>1. /\ mode = "next" /\ UNCHANGED <<puzzle, board>>
          /\ mode' = "failed" \/ mode' = "undo"
      BY <1>2, <2>10, ReturnIs
    <3>2. CASE mode' = "undo"
      BY <2>6, <3>1, <3>2 DEF Searching
    <3>3. CASE mode' = "failed"
      <4>1. Verdict = "searching" /\ Verdict' = "unsolvable"
        BY <3>1, <3>3 DEF Verdict, Searching
      <4>2. ~Solvable(puzzle) /\ board' = puzzle
        BY <1>2, <3>1, <3>3 DEF Right
      <4>3. Promise!GiveUp
        BY <2>1, <3>1, <4>1, <4>2, SameBoards DEF Promise!GiveUp
      <4> QED
        BY <4>3 DEF Promise!Next
    <3> QED
      BY <3>1, <3>2, <3>3
  <2> QED
    BY <1>2, <2>0, <2>3, <2>4, <2>5, <2>7, <2>8, <2>9, <2>10, BacktrackerSteps
<1>3. Spec => [](Known => Inv)
  BY RightAlways
<1>4. ASSUME Known, [Next]_vars PROVE Known'
  BY <1>4, SolverStays
<1> HIDE DEF Inv, Known
<1>5. Spec /\ Known => Promise!Init /\ [][Promise!Next]_(Promise!vars)
  BY <1>1, <1>2, <1>3, <1>4, PTL DEF Spec
<1> QED
  BY <1>5 DEF Known, Promise!Spec
=============================================================================

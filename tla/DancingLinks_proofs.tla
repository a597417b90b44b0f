------------------------ MODULE DancingLinks_proofs ------------------------
(***************************************************************************)
(* The two dancing links solvers of lab1 are right, for boards of every    *)
(* size and all puzzles: the rows that they build are linked and counted   *)
(* right, what is covered comes back exactly as it was, an exact cover of  *)
(* the columns is a solution of the puzzle and the other way round, and    *)
(* the search misses none.  With SudokuSolvers_proofs this makes the       *)
(* theorems about all five solvers at the end.                             *)
(***************************************************************************)
EXTENDS SudokuSolvers_proofs

-----------------------------------------------------------------------------
(* Rings of nodes.  s lists what is met from c along fwd before c is met again, and
   backwards along bwd. *)

At(s, c, i) == IF i \in 1..Len(s) THEN s[i] ELSE c

Along(dir, c, s) == \A i \in 0..Len(s) : dir[At(s, c, i)] = At(s, c, i + 1)

Linked(fwd, bwd, c, s) ==
    \A i \in 0..Len(s) : fwd[At(s, c, i)] = At(s, c, i + 1) /\ bwd[At(s, c, i + 1)] = At(s, c, i)

(* The recursive function of Ring. *)
Ways(dir, n, f, k) ==
    f = [most \in 0..k |->
            [m \in DOMAIN dir |->
                IF most = 0 \/ m = n THEN <<>> ELSE <<m>> \o f[most - 1][dir[m]]]]

(* It exists. *)
LEMMA WaysExist ==
    ASSUME NEW dir, NEW n, NEW k \in Nat
    PROVE  \E f : Ways(dir, n, f, k)
<1> DEFINE W(j, g) == [m \in DOMAIN dir |->
                         IF j = 0 \/ m = n THEN <<>> ELSE <<m>> \o g[dir[m]]]
           S == {j \in Nat : \E f : f = [i \in 0..j |-> W(i, f[i - 1])]}
<1>1. 0 \in S
  <2> DEFINE f == [i \in 0..0 |-> W(i, <<>>)]
  <2>1. \A i \in 0..0 : i = 0
    OBVIOUS
  <2>2. \A g : W(0, g) = W(0, <<>>)
    OBVIOUS
  <2> HIDE DEF W
  <2>3. f = [i \in 0..0 |-> W(i, f[i - 1])]
    BY <2>1, <2>2
  <2> QED
    BY <2>3
<1>2. ASSUME NEW j \in Nat, j \in S PROVE j + 1 \in S
  <2> HIDE DEF W
  <2>1. PICK f : f = [i \in 0..j |-> W(i, f[i - 1])]
    BY <1>2
  <2> DEFINE g == [i \in 0..(j + 1) |-> IF i = j + 1 THEN W(i, f[j]) ELSE f[i]]
  <2>2. g = [i \in 0..(j + 1) |-> W(i, g[i - 1])]
    <3>1. ASSUME NEW i \in 0..(j + 1) PROVE g[i] = W(i, g[i - 1])
      <4>1. CASE i = j + 1
        <5>1. g[i - 1] = f[j] /\ g[i] = W(i, f[j])
          BY <4>1
        <5> QED
          BY <5>1
      <4>2. CASE i \in 1..j
        <5>1. g[i - 1] = f[i - 1] /\ g[i] = f[i]
          BY <4>2
        <5> QED
          BY <2>1, <4>2, <5>1
      <4>3. CASE i = 0
        <5>1. \A h : W(0, h) = W(0, <<>>)
          BY DEF W
        <5>2. g[0] = f[0] /\ f[0] = W(0, f[0 - 1])
          BY <2>1
        <5> QED
          BY <4>3, <5>1, <5>2
      <4> QED
        BY <4>1, <4>2, <4>3
    <3> QED
      BY <3>1
  <2> HIDE DEF g
  <2>3. \E h : h = [i \in 0..(j + 1) |-> W(i, h[i - 1])]
    BY <2>2
  <2> QED
    BY <2>3
<1> HIDE DEF S
<1>3. k \in S
  BY <1>1, <1>2, NatSetInduction
<1> QED
  BY <1>3 DEF S, Ways

(* Ring lists what is met. *)
LEMMA RingIs ==
    ASSUME NEW dir, NEW c, NEW S, NEW s,
           Enumerates(s, S), c \notin S, Along(dir, c, s),
           S \cup {c} \subseteq DOMAIN dir, IsFiniteSet(DOMAIN dir)
    PROVE  Ring(dir, c) = s
<1> DEFINE l == Len(s)
           K == Cardinality(DOMAIN dir)
           from == CHOOSE f : Ways(dir, c, f, K)
           Rest(j) == [q \in 1..j |-> s[l - j + q]]
           P == {j \in Nat : j <= l => \A k \in j..K : from[k][At(s, c, l + 1 - j)] = Rest(j)}
<1>1. /\ s \in Seq(S) /\ l \in Nat /\ DOMAIN s = 1..l
      /\ \A i, j \in 1..l : s[i] = s[j] => i = j
      /\ \A i \in 1..l : s[i] \in S
  BY DEF Enumerates
<1>2. K \in Nat
  BY FS_CardinalityType
<1>3. l < K
  <2>1. Len(s) = Cardinality(S) /\ IsFiniteSet(S)
    BY EnumeratesAll
  <2>2. S # DOMAIN dir
    OBVIOUS
  <2> QED
    BY <1>2, <2>1, <2>2, FS_Subset
<1>4. Ways(dir, c, from, K)
  BY <1>2, WaysExist
<1> HIDE DEF from, K, l
<1>5. \A k \in 0..K : \A m \in DOMAIN dir :
         from[k][m] = IF k = 0 \/ m = c THEN <<>> ELSE <<m>> \o from[k - 1][dir[m]]
  <2>1. \A k \in 0..K : from[k] = [m \in DOMAIN dir |->
           IF k = 0 \/ m = c THEN <<>> ELSE <<m>> \o from[k - 1][dir[m]]]
    BY <1>4, Zenon DEF Ways
  <2> QED
    BY <2>1, Zenon
<1>6. 0 \in P
  <2>1. At(s, c, l + 1 - 0) = c
    BY <1>1 DEF At, l
  <2>2. Rest(0) = <<>>
    BY <1>1
  <2> QED
    BY <1>1, <1>2, <1>5, <2>1, <2>2
<1>7. ASSUME NEW j \in Nat, j \in P, j + 1 <= l PROVE j + 1 \in P
  <2> SUFFICES ASSUME NEW k \in (j + 1)..K
               PROVE  from[k][At(s, c, l + 1 - (j + 1))] = Rest(j + 1)
    <3> HIDE DEF Rest
    <3> QED
      BY <1>1
  <2> DEFINE m == s[l - j]
  <2>1. l - j \in 1..l /\ l + 1 - (j + 1) = l - j /\ j <= l /\ l + 1 - j = (l - j) + 1
    BY <1>1, <1>7
  <2>2. At(s, c, l - j) = m /\ m \in S /\ m # c /\ m \in DOMAIN dir
    BY <1>1, <2>1 DEF At, l
  <2>3. dir[m] = At(s, c, l + 1 - j)
    BY <1>1, <2>1, <2>2 DEF Along, l
  <2>4. k - 1 \in j..K /\ k \in 0..K /\ k # 0
    BY <1>2
  <2>5. from[k - 1][dir[m]] = Rest(j)
    BY <1>7, <2>1, <2>3, <2>4
  <2>6. from[k][m] = <<m>> \o Rest(j)
    <3> HIDE DEF Rest, m
    <3>1. from[k][m] = <<m>> \o from[k - 1][dir[m]]
      BY <1>5, <2>2, <2>4, Zenon
    <3> QED
      BY <2>5, <3>1
  <2>7. <<m>> \o Rest(j) = Rest(j + 1)
    <3>1. \A q \in 1..j : l - j + q \in 1..l
      BY <1>1, <1>7
    <3>2. Rest(j) \in Seq(S) /\ Len(Rest(j)) = j /\ \A q \in 1..j : Rest(j)[q] = s[l - j + q]
      BY <1>1, <3>1
    <3>3. Rest(j + 1) = [q \in 1..(j + 1) |-> s[l - j - 1 + q]]
      BY <1>1, <1>7
    <3> DEFINE r == Rest(j)
    <3> HIDE DEF r
    <3>4. <<m>> \in Seq(S) /\ Len(<<m>>) = 1 /\ <<m>>[1] = m
      BY <2>2
    <3>5. <<m>> \o r = [q \in 1..(j + 1) |-> IF q <= 1 THEN m ELSE r[q - 1]]
      BY <3>2, <3>4 DEF r
    <3>6. ASSUME NEW q \in 1..(j + 1)
          PROVE  (IF q <= 1 THEN m ELSE r[q - 1]) = s[l - j - 1 + q]
      <4>1. CASE q = 1
        BY <1>1, <1>7, <4>1
      <4>2. CASE q # 1
        <5>1. q - 1 \in 1..j /\ l - j + (q - 1) = l - j - 1 + q /\ ~(q <= 1)
          BY <1>1, <4>2
        <5> QED
          BY <3>2, <5>1 DEF r
      <4> QED
        BY <4>1, <4>2
    <3> QED
      BY <3>3, <3>5, <3>6 DEF r
  <2> QED
    BY <2>1, <2>2, <2>6, <2>7
<1>8. \A j \in Nat : j \in P => j + 1 \in P
  <2>1. ASSUME NEW j \in Nat, ~(j + 1 <= l) PROVE j + 1 \in P
    BY <2>1
  <2> QED
    BY <1>7, <2>1
<1>9. l \in P
  <2> HIDE DEF P
  <2> QED
    BY <1>1, <1>6, <1>8, NatSetInduction
<1>10. from[K][At(s, c, 1)] = Rest(l)
  BY <1>1, <1>2, <1>3, <1>9
<1>11. Rest(l) = s
  BY <1>1
<1>12. dir[c] = At(s, c, 1)
  <2>1. 0 \in 0..Len(s) /\ At(s, c, 0) = c
    BY <1>1 DEF At, l
  <2> QED
    BY <2>1 DEF Along
<1>13. Ring(dir, c) = from[K][dir[c]]
  BY DEF Ring, from, Ways, K
<1> QED
  BY <1>10, <1>11, <1>12, <1>13

RingOf(fwd, bwd, c, S) == \E s : Enumerates(s, S) /\ Linked(fwd, bwd, c, s)

(* Nothing is at two places. *)
LEMMA PlacesDiffer ==
    ASSUME NEW c, NEW S, NEW s, Enumerates(s, S), c \notin S
    PROVE  /\ \A i, j \in 0..Len(s) : At(s, c, i) = At(s, c, j) => i = j
           /\ \A i, j \in 1..(Len(s) + 1) : At(s, c, i) = At(s, c, j) => i = j
           /\ \A x \in S : \E i \in 1..Len(s) : x = At(s, c, i)
<1> DEFINE l == Len(s)
           p(i) == At(s, c, i)
<1>1. /\ s \in Seq(S) /\ l \in Nat
      /\ \A i \in 1..l : s[i] \in S /\ s[i] # c
      /\ \A i, j \in 1..l : s[i] = s[j] => i = j
      /\ \A x \in S : \E i \in 1..l : s[i] = x
  BY DEF Enumerates
<1> HIDE DEF l
<1>2. p(0) = c /\ p(l + 1) = c
  BY <1>1 DEF At, l
<1>3. \A i \in 1..l : p(i) = s[i]
  BY DEF At, l
<1> HIDE DEF p
<1>4. \A i, j \in 1..l : p(i) = p(j) => i = j
  BY <1>1, <1>3
<1>5. \A i \in 1..l : p(i) # c
  BY <1>1, <1>3
<1>6. \A i, j \in 0..l : p(i) = p(j) => i = j
  <2>1. \A i \in 0..l : i = 0 \/ i \in 1..l
    BY <1>1
  <2> QED
    BY <1>2, <1>4, <1>5, <2>1
<1>7. \A i, j \in 1..(l + 1) : p(i) = p(j) => i = j
  <2>1. \A i \in 1..(l + 1) : i = l + 1 \/ i \in 1..l
    BY <1>1
  <2> QED
    BY <1>2, <1>4, <1>5, <2>1
<1>8. \A x \in S : \E i \in 1..l : x = p(i)
  BY <1>1, <1>3
<1> QED
  BY <1>6, <1>7, <1>8 DEF p, l

(* The ring the other way round. *)
LEMMA LinkedReverse ==
    ASSUME NEW fwd, NEW bwd, NEW c, NEW S, NEW s,
           Enumerates(s, S), c \notin S, Linked(fwd, bwd, c, s)
    PROVE  /\ Enumerates(Reverse(s), S) /\ Len(Reverse(s)) = Len(s)
           /\ Linked(bwd, fwd, c, Reverse(s))
           /\ Along(fwd, c, s) /\ Along(bwd, c, Reverse(s))
<1> DEFINE l == Len(s)
           r == Reverse(s)
<1>1. /\ s \in Seq(S) /\ l \in Nat
      /\ \A i \in 1..l : s[i] \in S
      /\ \A i, j \in 1..l : s[i] = s[j] => i = j
      /\ \A x \in S : \E i \in 1..l : s[i] = x
  BY DEF Enumerates
<1>2. r = [i \in 1..l |-> s[(l - i) + 1]]
  BY DEF Reverse
<1> HIDE DEF r, l
<1>3. \A i \in 1..l : (l - i) + 1 \in 1..l
  BY <1>1
<1>4. r \in Seq(S) /\ Len(r) = l /\ \A i \in 1..l : r[i] = s[(l - i) + 1]
  BY <1>1, <1>2, <1>3
<1>5. \A i, j \in 1..l : r[i] = r[j] => i = j
  <2> SUFFICES ASSUME NEW i \in 1..l, NEW j \in 1..l, r[i] = r[j] PROVE i = j
    OBVIOUS
  <2>1. (l - i) + 1 \in 1..l /\ (l - j) + 1 \in 1..l /\ s[(l - i) + 1] = s[(l - j) + 1]
    BY <1>3, <1>4
  <2>2. (l - i) + 1 = (l - j) + 1
    BY <1>1, <2>1
  <2> QED
    BY <1>1, <2>2
<1>6. ASSUME NEW x \in S PROVE \E i \in 1..l : r[i] = x
  <2>1. PICK i \in 1..l : s[i] = x
    BY <1>1
  <2>2. (l - i) + 1 \in 1..l /\ (l - ((l - i) + 1)) + 1 = i
    BY <1>1
  <2> QED
    BY <1>4, <2>1, <2>2
<1>7. Enumerates(r, S)
  BY <1>4, <1>5, <1>6 DEF Enumerates
<1>8. \A i \in 0..(l + 1) : At(r, c, i) = At(s, c, l + 1 - i)
  <2> SUFFICES ASSUME NEW i \in 0..(l + 1) PROVE At(r, c, i) = At(s, c, l + 1 - i)
    OBVIOUS
  <2>1. CASE i \in 1..l
    <3>1. l + 1 - i = (l - i) + 1 /\ l + 1 - i \in 1..l
      BY <1>1, <2>1
    <3> QED
      BY <1>4, <2>1, <3>1 DEF At, l
  <2>2. CASE i \notin 1..l
    <3>1. l + 1 - i \notin 1..l
      BY <1>1, <2>2
    <3> QED
      BY <1>4, <2>2, <3>1 DEF At, l
  <2> QED
    BY <2>1, <2>2
<1>9. ASSUME NEW i \in 0..l
      PROVE  bwd[At(r, c, i)] = At(r, c, i + 1) /\ fwd[At(r, c, i + 1)] = At(r, c, i)
  <2>1. l - i \in 0..l /\ l + 1 - i = (l - i) + 1 /\ l + 1 - (i + 1) = l - i
        /\ i \in 0..(l + 1) /\ i + 1 \in 0..(l + 1)
    BY <1>1
  <2>2. fwd[At(s, c, l - i)] = At(s, c, (l - i) + 1) /\ bwd[At(s, c, (l - i) + 1)] = At(s, c, l - i)
    BY <2>1 DEF Linked, l
  <2> QED
    BY <1>8, <2>1, <2>2
<1>10. Linked(bwd, fwd, c, r)
  BY <1>4, <1>9 DEF Linked
<1>11. Along(fwd, c, s) /\ Along(bwd, c, r)
  BY <1>10 DEF Linked, Along
<1> QED
  BY <1>4, <1>7, <1>10, <1>11 DEF r, l

(* A ring is one both ways. *)
LEMMA RingTurns ==
    ASSUME NEW fwd, NEW bwd, NEW c, NEW S, c \notin S, RingOf(fwd, bwd, c, S)
    PROVE  RingOf(bwd, fwd, c, S)
BY LinkedReverse DEF RingOf

(* The two next to a node. *)
LEMMA RingNeighbours ==
    ASSUME NEW fwd, NEW bwd, NEW c, NEW S, NEW j \in S, RingOf(fwd, bwd, c, S), c \notin S
    PROVE  /\ fwd[j] \in S \cup {c} /\ bwd[j] \in S \cup {c}
           /\ fwd[j] # j /\ bwd[j] # j
           /\ bwd[fwd[j]] = j /\ fwd[bwd[j]] = j
<1>1. PICK s : Enumerates(s, S) /\ Linked(fwd, bwd, c, s)
  BY DEF RingOf
<1> DEFINE l == Len(s)
           p(i) == At(s, c, i)
<1>2. /\ l \in Nat
      /\ \A i \in 0..(l + 1) : p(i) \in S \cup {c}
      /\ \A x, y \in 0..l : p(x) = p(y) => x = y
      /\ \A x, y \in 1..(l + 1) : p(x) = p(y) => x = y
      /\ \A x \in S : \E i \in 1..l : x = p(i)
  <2>1. Enumerates(s, S)
    BY <1>1
  <2>2. /\ s \in Seq(S) /\ l \in Nat /\ p(0) = c /\ p(l + 1) = c
        /\ \A i \in 1..l : p(i) = s[i] /\ s[i] \in S
        /\ \A i \in 0..(l + 1) : p(i) \in S \cup {c}
    BY <2>1 DEF Enumerates, At
  <2>3. /\ \A x, y \in 0..l : p(x) = p(y) => x = y
        /\ \A x, y \in 1..(l + 1) : p(x) = p(y) => x = y
        /\ \A x \in S : \E i \in 1..l : x = p(i)
    BY ONLY <2>1, c \notin S, PlacesDiffer
  <2> HIDE DEF l, p
  <2> QED
    BY <2>2, <2>3
<1>3. \A i \in 0..l : fwd[p(i)] = p(i + 1) /\ bwd[p(i + 1)] = p(i)
  BY <1>1 DEF Linked
<1> HIDE DEF l, p
<1>4. PICK i \in 1..l : j = p(i)
  BY <1>2
<1>5. /\ i \in 0..l /\ i - 1 \in 0..l /\ i + 1 \in 1..(l + 1) /\ i - 1 + 1 = i
      /\ i \in 1..(l + 1) /\ i - 1 \in 0..(l + 1) /\ i + 1 \in 0..(l + 1)
  BY <1>2
<1>6. fwd[j] = p(i + 1) /\ bwd[j] = p(i - 1) /\ fwd[p(i - 1)] = j /\ bwd[p(i + 1)] = j
  BY <1>3, <1>4, <1>5
<1>7. p(i + 1) # j /\ p(i - 1) # j
  BY <1>2, <1>4, <1>5
<1> QED
  BY <1>2, <1>5, <1>6, <1>7

(* A ring without one of its nodes, as Unlink leaves it. *)
LEMMA LinkedRemove ==
    ASSUME NEW fwd, NEW bwd, NEW f, NEW b, NEW c, NEW S, NEW j \in S,
           RingOf(fwd, bwd, c, S), c \notin S,
           f[bwd[j]] = fwd[j], b[fwd[j]] = bwd[j],
           \A x \in S \cup {c} : x # bwd[j] => f[x] = fwd[x],
           \A x \in S \cup {c} : x # fwd[j] => b[x] = bwd[x]
    PROVE  RingOf(f, b, c, S \ {j})
<1>1. PICK s : Enumerates(s, S) /\ Linked(fwd, bwd, c, s)
  BY DEF RingOf
<1> DEFINE l == Len(s)
           p(i) == At(s, c, i)
<1>2. /\ s \in Seq(S) /\ l \in Nat /\ p(0) = c /\ p(l + 1) = c
      /\ \A i \in 1..l : p(i) = s[i] /\ s[i] \in S
      /\ \A i \in 0..(l + 1) : p(i) \in S \cup {c}
      /\ \A x, y \in 0..l : p(x) = p(y) => x = y
      /\ \A x, y \in 1..(l + 1) : p(x) = p(y) => x = y
      /\ \A x \in S : \E i \in 1..l : x = p(i)
  <2>1. Enumerates(s, S)
    BY <1>1
  <2>2. /\ s \in Seq(S) /\ l \in Nat /\ p(0) = c /\ p(l + 1) = c
        /\ \A i \in 1..l : p(i) = s[i] /\ s[i] \in S
        /\ \A i \in 0..(l + 1) : p(i) \in S \cup {c}
    BY <2>1 DEF Enumerates, At
  <2>3. /\ \A x, y \in 0..l : p(x) = p(y) => x = y
        /\ \A x, y \in 1..(l + 1) : p(x) = p(y) => x = y
        /\ \A x \in S : \E i \in 1..l : x = p(i)
    BY ONLY <2>1, c \notin S, PlacesDiffer
  <2> HIDE DEF l, p
  <2> QED
    BY <2>2, <2>3
<1>3. \A i \in 0..l : fwd[p(i)] = p(i + 1) /\ bwd[p(i + 1)] = p(i)
  BY <1>1 DEF Linked
<1> HIDE DEF l, p
<1>4. PICK i \in 1..l : j = p(i)
  BY <1>2
<1>5. /\ i \in 0..l /\ i - 1 \in 0..l /\ i + 1 \in 1..(l + 1) /\ i - 1 + 1 = i
      /\ i \in 1..(l + 1) /\ i - 1 \in 0..(l + 1) /\ i + 1 \in 0..(l + 1)
  BY <1>2
<1>6. fwd[j] = p(i + 1) /\ bwd[j] = p(i - 1) /\ fwd[p(i - 1)] = j /\ bwd[p(i + 1)] = j
  BY <1>3, <1>4, <1>5
<1>7. p(i + 1) # j /\ p(i - 1) # j
  BY <1>2, <1>4, <1>5
<1> DEFINE t == [q \in 1..(l - 1) |-> IF q < i THEN s[q] ELSE s[q + 1]]
<1>8. /\ f[p(i - 1)] = p(i + 1) /\ b[p(i + 1)] = p(i - 1)
      /\ \A q \in 0..(l + 1) : p(q) # p(i - 1) => f[p(q)] = fwd[p(q)]
      /\ \A q \in 0..(l + 1) : p(q) # p(i + 1) => b[p(q)] = bwd[p(q)]
  BY <1>2, <1>5, <1>6
<1>9. l - 1 \in Nat
  BY <1>2
<1>10. \A q \in 1..(l - 1) : q \in 1..l /\ q + 1 \in 1..l
  BY <1>2
<1>11. t \in Seq(S) /\ Len(t) = l - 1
       /\ \A q \in 1..(l - 1) : t[q] = IF q < i THEN p(q) ELSE p(q + 1)
  <2>1. \A q \in 1..(l - 1) : t[q] = IF q < i THEN p(q) ELSE p(q + 1)
    BY <1>2, <1>10
  <2>2. \A q \in 1..(l - 1) : t[q] \in S
    BY <1>2, <1>10, <2>1
  <2>3. t = [q \in 1..(l - 1) |-> t[q]]
    OBVIOUS
  <2> HIDE DEF t
  <2> QED
    BY <1>9, <2>1, <2>2, <2>3
<1> HIDE DEF t
<1>12. \A q \in 0..l : At(t, c, q) = IF q < i THEN p(q) ELSE p(q + 1)
  <2> SUFFICES ASSUME NEW q \in 0..l PROVE At(t, c, q) = IF q < i THEN p(q) ELSE p(q + 1)
    OBVIOUS
  <2>1. CASE q \in 1..(l - 1)
    BY <1>11, <2>1 DEF At
  <2>2. CASE q = 0
    BY <1>2, <1>11, <2>2 DEF At
  <2>3. CASE q = l /\ q # 0
    BY <1>2, <1>11, <2>3 DEF At
  <2> QED
    BY <1>2, <2>1, <2>2, <2>3
<1>13. ASSUME NEW q \in 0..(l - 1)
       PROVE  f[At(t, c, q)] = At(t, c, q + 1) /\ b[At(t, c, q + 1)] = At(t, c, q)
  <2>1. q \in 0..l /\ q + 1 \in 0..l /\ q + 1 \in 1..(l + 1) /\ q + 2 \in 0..(l + 1)
        /\ q \in 0..(l + 1) /\ q + 1 \in 0..(l + 1) /\ (q + 1) + 1 = q + 2
    BY <1>2
  <2>2. CASE q < i - 1
    <3>1. At(t, c, q) = p(q) /\ At(t, c, q + 1) = p(q + 1)
      BY <1>12, <2>1, <2>2
    <3>2. p(q) # p(i - 1) /\ p(q + 1) # p(i + 1)
      BY <1>2, <1>5, <2>1, <2>2
    <3> QED
      BY <1>3, <1>8, <2>1, <3>1, <3>2
  <2>3. CASE q = i - 1
    <3>1. At(t, c, q) = p(i - 1) /\ At(t, c, q + 1) = p(i + 1)
      BY <1>12, <2>1, <2>3
    <3> QED
      BY <1>8, <3>1
  <2>4. CASE q >= i
    <3>1. At(t, c, q) = p(q + 1) /\ At(t, c, q + 1) = p(q + 2)
      BY <1>12, <2>1, <2>4
    <3>2. p(q + 1) # p(i - 1)
      BY <1>2, <1>5, <2>1, <2>4
    <3>3. p(q + 2) # p(i + 1)
      <4>1. q + 2 \in 1..(l + 1) /\ q + 2 # i + 1
        BY <1>2, <2>1, <2>4
      <4> QED
        BY <1>2, <1>5, <4>1
    <3>4. fwd[p(q + 1)] = p(q + 2) /\ bwd[p(q + 2)] = p(q + 1)
      BY <1>3, <2>1
    <3> QED
      BY <1>8, <2>1, <3>1, <3>2, <3>3, <3>4
  <2> QED
    BY <1>2, <2>2, <2>3, <2>4
<1>14. Linked(f, b, c, t)
  BY <1>11, <1>13 DEF Linked
<1>15. Enumerates(t, S \ {j})
  <2>1. \A q \in 1..(l - 1) : t[q] \in S \ {j}
    <3> SUFFICES ASSUME NEW q \in 1..(l - 1) PROVE t[q] \in S \ {j}
      OBVIOUS
    <3>1. q \in 1..l /\ q + 1 \in 1..l
      BY <1>10
    <3>2. q < i \/ q + 1 > i
      OBVIOUS
    <3>3. p(q) \in S /\ p(q + 1) \in S
      BY <1>2, <3>1
    <3>4. q < i => p(q) # p(i)
      BY <1>2, <1>5, <3>1
    <3>5. ~(q < i) => p(q + 1) # p(i)
      BY <1>2, <1>5, <3>1
    <3> QED
      BY <1>4, <1>11, <3>3, <3>4, <3>5
  <2>2. t \in Seq(S \ {j})
    <3>1. t = [q \in 1..(l - 1) |-> t[q]]
      BY <1>11
    <3> QED
      BY <1>9, <2>1, <3>1
  <2>3. ASSUME NEW x \in 1..(l - 1), NEW y \in 1..(l - 1), t[x] = t[y] PROVE x = y
    <3>1. x \in 1..l /\ x + 1 \in 1..l /\ y \in 1..l /\ y + 1 \in 1..l
      BY <1>10
    <3>2. \A u, v \in 1..l : p(u) = p(v) => u = v
      BY <1>2
    <3> QED
      BY <1>11, <2>3, <3>1, <3>2
  <2>4. ASSUME NEW x \in S \ {j} PROVE \E q \in 1..(l - 1) : t[q] = x
    <3>1. PICK q \in 1..l : x = p(q)
      BY <1>2
    <3>2. q # i
      BY <1>4, <2>4, <3>1
    <3>3. CASE q < i
      <4>1. q \in 1..(l - 1)
        BY <1>2, <3>3
      <4> QED
        BY <1>11, <3>1, <3>3, <4>1
    <3>4. CASE q > i
      <4>1. q - 1 \in 1..(l - 1) /\ ~(q - 1 < i) /\ (q - 1) + 1 = q
        BY <1>2, <3>4
      <4> QED
        BY <1>11, <3>1, <4>1
    <3> QED
      BY <1>2, <3>2, <3>3, <3>4
  <2> QED
    BY <1>11, <2>2, <2>3, <2>4 DEF Enumerates
<1>16. RingOf(f, b, c, S \ {j})
  BY <1>14, <1>15 DEF RingOf
<1> QED
  BY <1>16

(* A ring is not touched by what happens to other nodes. *)
LEMMA LinkedSame ==
    ASSUME NEW fwd, NEW bwd, NEW f, NEW b, NEW c, NEW S, NEW s, Enumerates(s, S), c \notin S,
           Linked(fwd, bwd, c, s),
           \A x \in S \cup {c} : f[x] = fwd[x] /\ b[x] = bwd[x]
    PROVE  Linked(f, b, c, s)
<1>1. /\ Len(s) \in Nat
      /\ \A i \in 0..(Len(s) + 1) : At(s, c, i) \in S \cup {c}
  BY DEF Enumerates, At
<1>2. \A i \in 0..Len(s) : i \in 0..(Len(s) + 1) /\ i + 1 \in 0..(Len(s) + 1)
  BY <1>1
<1> QED
  BY <1>1, <1>2 DEF Linked

(* Nor is it, whatever its order. *)
LEMMA RingSame ==
    ASSUME NEW fwd, NEW bwd, NEW f, NEW b, NEW c, NEW S, RingOf(fwd, bwd, c, S), c \notin S,
           \A x \in S \cup {c} : f[x] = fwd[x] /\ b[x] = bwd[x]
    PROVE  RingOf(f, b, c, S)
BY LinkedSame DEF RingOf

(* A header alone. *)
LEMMA RingEmpty ==
    ASSUME NEW fwd, NEW bwd, NEW c, fwd[c] = c, bwd[c] = c
    PROVE  RingOf(fwd, bwd, c, {})
<1>1. Enumerates(<<>>, {})
  BY DEF Enumerates
<1>2. Linked(fwd, bwd, c, <<>>)
  BY DEF Linked, At
<1> QED
  BY <1>1, <1>2 DEF RingOf

(* A new last node. *)
LEMMA LinkedAppend ==
    ASSUME NEW fwd, NEW bwd, NEW f, NEW b, NEW c, NEW S, NEW n,
           RingOf(fwd, bwd, c, S), c \notin S, n \notin S, n # c,
           f[bwd[c]] = n, f[n] = c, b[c] = n, b[n] = bwd[c],
           \A x \in S \cup {c} : x # bwd[c] => f[x] = fwd[x],
           \A x \in S : b[x] = bwd[x]
    PROVE  RingOf(f, b, c, S \cup {n})
<1>1. PICK s : Enumerates(s, S) /\ Linked(fwd, bwd, c, s)
  BY DEF RingOf
<1> DEFINE l == Len(s)
           p(i) == At(s, c, i)
           t == Append(s, n)
<1>2. /\ s \in Seq(S) /\ l \in Nat /\ p(0) = c /\ p(l + 1) = c
      /\ \A i \in 1..l : p(i) = s[i] /\ s[i] \in S
      /\ \A i \in 0..(l + 1) : p(i) \in S \cup {c}
      /\ \A x, y \in 0..l : p(x) = p(y) => x = y
  <2>1. Enumerates(s, S)
    BY <1>1
  <2>2. /\ s \in Seq(S) /\ l \in Nat /\ p(0) = c /\ p(l + 1) = c
        /\ \A i \in 1..l : p(i) = s[i] /\ s[i] \in S
        /\ \A i \in 0..(l + 1) : p(i) \in S \cup {c}
    BY <2>1 DEF Enumerates, At
  <2>3. \A x, y \in 0..l : p(x) = p(y) => x = y
    BY ONLY <2>1, c \notin S, PlacesDiffer
  <2> HIDE DEF l, p
  <2> QED
    BY <2>2, <2>3
<1>3. \A i \in 0..l : fwd[p(i)] = p(i + 1) /\ bwd[p(i + 1)] = p(i)
  BY <1>1 DEF Linked
<1>4. Enumerates(t, S \cup {n})
  BY <1>1, EnumeratesMore
<1> HIDE DEF l, p
<1>5. Len(t) = l + 1 /\ t[l + 1] = n /\ \A i \in 1..l : t[i] = s[i]
  BY <1>2 DEF l
<1> HIDE DEF t
<1>6. /\ \A i \in 0..l : At(t, c, i) = p(i)
      /\ At(t, c, l + 1) = n /\ At(t, c, l + 2) = c
  BY <1>2, <1>5 DEF At
<1>7. bwd[c] = p(l)
  BY <1>2, <1>3
<1>8. \A i \in 0..l : p(i) \in S \cup {c} /\ (i # l => p(i) # p(l)) /\ (i # 0 => p(i) \in S)
  BY <1>2
<1>9. ASSUME NEW i \in 0..(l + 1)
      PROVE  f[At(t, c, i)] = At(t, c, i + 1) /\ b[At(t, c, i + 1)] = At(t, c, i)
  <2>1. CASE i < l
    <3>1. i \in 0..l /\ i + 1 \in 0..l /\ i # l /\ i + 1 # 0
      BY <1>2, <2>1
    <3>2. f[p(i)] = fwd[p(i)] /\ b[p(i + 1)] = bwd[p(i + 1)]
      BY <1>7, <1>8, <3>1
    <3> QED
      BY <1>3, <1>6, <3>1, <3>2
  <2>2. CASE i = l
    BY <1>2, <1>6, <1>7, <2>2
  <2>3. CASE i = l + 1
    <3>1. i + 1 = l + 2
      BY <1>2, <2>3
    <3> QED
      BY <1>6, <2>3, <3>1
  <2> QED
    BY <1>2, <2>1, <2>2, <2>3
<1>10. Linked(f, b, c, t)
  BY <1>5, <1>9 DEF Linked
<1> QED
  BY <1>4, <1>10 DEF RingOf
-----------------------------------------------------------------------------
(* The links: A are the columns that there are. *)

Nodes(k) == (4 * N + 1)..k.tot

Fields(k) ==
    k = [tot |-> k.tot, L |-> k.L, R |-> k.R, U |-> k.U, D |-> k.D,
         siz |-> k.siz, col |-> k.col, row |-> k.row]

(* What a node changes when it leaves its column. *)
LEMMA UnlinkIs ==
    ASSUME NEW k, NEW j, Fields(k)
    PROVE  Unlink(k, j) =
             [tot |-> k.tot, L |-> k.L, R |-> k.R,
              U |-> [k.U EXCEPT ![k.D[j]] = k.U[j]], D |-> [k.D EXCEPT ![k.U[j]] = k.D[j]],
              siz |-> [k.siz EXCEPT ![k.col[j]] = k.siz[k.col[j]] - 1],
              col |-> k.col, row |-> k.row]
<1> DEFINE a == [k EXCEPT !.U[k.D[j]] = k.U[j]]
           b == [a EXCEPT !.D[k.U[j]] = k.D[j]]
           c == [b EXCEPT !.siz[k.col[j]] = k.siz[k.col[j]] - 1]
<1>1. Unlink(k, j) = c
  BY DEF Unlink, Fields
<1>2. a = [tot |-> k.tot, L |-> k.L, R |-> k.R, U |-> [k.U EXCEPT ![k.D[j]] = k.U[j]], D |-> k.D,
           siz |-> k.siz, col |-> k.col, row |-> k.row]
  BY DEF Fields
<1> HIDE DEF a
<1>3. b = [tot |-> a.tot, L |-> a.L, R |-> a.R, U |-> a.U, D |-> [a.D EXCEPT ![k.U[j]] = k.D[j]],
           siz |-> a.siz, col |-> a.col, row |-> a.row]
  BY <1>2
<1> HIDE DEF b
<1>4. c = [tot |-> b.tot, L |-> b.L, R |-> b.R, U |-> b.U, D |-> b.D,
           siz |-> [b.siz EXCEPT ![k.col[j]] = k.siz[k.col[j]] - 1],
           col |-> b.col, row |-> b.row]
  BY <1>3
<1> HIDE DEF c
<1> QED
  BY <1>1, <1>2, <1>3, <1>4

(* What it changes when it returns. *)
LEMMA RelinkIs ==
    ASSUME NEW k, NEW j, Fields(k)
    PROVE  Relink(k, j) =
             [tot |-> k.tot, L |-> k.L, R |-> k.R,
              U |-> [k.U EXCEPT ![k.D[j]] = j], D |-> [k.D EXCEPT ![k.U[j]] = j],
              siz |-> [k.siz EXCEPT ![k.col[j]] = k.siz[k.col[j]] + 1],
              col |-> k.col, row |-> k.row]
<1> DEFINE a == [k EXCEPT !.U[k.D[j]] = j]
           b == [a EXCEPT !.D[k.U[j]] = j]
           c == [b EXCEPT !.siz[k.col[j]] = k.siz[k.col[j]] + 1]
<1>1. Relink(k, j) = c
  BY DEF Relink, Fields
<1>2. a = [tot |-> k.tot, L |-> k.L, R |-> k.R, U |-> [k.U EXCEPT ![k.D[j]] = j], D |-> k.D,
           siz |-> k.siz, col |-> k.col, row |-> k.row]
  BY DEF Fields
<1> HIDE DEF a
<1>3. b = [tot |-> a.tot, L |-> a.L, R |-> a.R, U |-> a.U, D |-> [a.D EXCEPT ![k.U[j]] = j],
           siz |-> a.siz, col |-> a.col, row |-> a.row]
  BY <1>2
<1> HIDE DEF b
<1>4. c = [tot |-> b.tot, L |-> b.L, R |-> b.R, U |-> b.U, D |-> b.D,
           siz |-> [b.siz EXCEPT ![k.col[j]] = k.siz[k.col[j]] + 1],
           col |-> b.col, row |-> b.row]
  BY <1>3
<1> HIDE DEF c
<1> QED
  BY <1>1, <1>2, <1>3, <1>4

(* The types of the links. *)
Shape(k, A) ==
    /\ Fields(k) /\ k.tot \in Nat /\ A \subseteq 1..(4 * N)
    /\ k.U \in [A \cup Nodes(k) -> A \cup Nodes(k)]
    /\ k.D \in [A \cup Nodes(k) -> A \cup Nodes(k)]
    /\ k.L \in [{root} \cup A \cup Nodes(k) -> {root} \cup A \cup Nodes(k)]
    /\ k.R \in [{root} \cup A \cup Nodes(k) -> {root} \cup A \cup Nodes(k)]
    /\ k.siz \in [A -> Int]
    /\ k.col \in [Nodes(k) -> A] /\ k.row \in [Nodes(k) -> Nat]

(* The nodes among S that are in column c. *)
InColumn(k, S, c) == {n \in S : k.col[n] = c}

(* The columns C are rings of the nodes among S, and counted right. *)
ColumnsHold(k, C, S) ==
    \A c \in C : /\ RingOf(k.D, k.U, c, InColumn(k, S, c))
                 /\ k.siz[c] = Cardinality(InColumn(k, S, c))

(* The column that a header or a node is part of. *)
HomeOf(k, C, x) == IF x \in C THEN x ELSE k.col[x]

(* Everything but the links up and down. *)
SameAcross(k, l) ==
    l.tot = k.tot /\ l.L = k.L /\ l.R = k.R /\ l.col = k.col /\ l.row = k.row

(* Links k whose columns C hold the nodes S ... *)
Fit(k, A, C, S) ==
    Shape(k, A) /\ C \subseteq A /\ S \subseteq Nodes(k) /\ ColumnsHold(k, C, S)

(* ... and links l that are k without the nodes J. *)
Without(k, l, A, C, S, J) ==
    /\ Shape(l, A) /\ SameAcross(k, l) /\ ColumnsHold(l, C, S \ J)
    /\ \A x \in C \cup S : (\A m \in J : HomeOf(k, C, x) # k.col[m]) =>
          l.D[x] = k.D[x] /\ l.U[x] = k.U[x]
    /\ \A e \in A \ C : l.siz[e] = k.siz[e]

(* Headers, nodes and the root are all different. *)
LEMMA NodesApart ==
    ASSUME NEW k, NEW A, Shape(k, A)
    PROVE  /\ A \cap Nodes(k) = {} /\ root \notin A /\ root \notin Nodes(k)
           /\ A \subseteq Nat /\ Nodes(k) \subseteq Nat /\ root \in Nat
           /\ IsFiniteSet(A) /\ IsFiniteSet(Nodes(k))
<1>1. N \in Nat /\ 4 * N \in Nat /\ k.tot \in Nat /\ A \subseteq 1..(4 * N)
  BY BoardSizes DEF Shape
<1>2. IsFiniteSet(1..(4 * N)) /\ IsFiniteSet((4 * N + 1)..k.tot)
  BY <1>1, FS_Interval
<1>3. IsFiniteSet(A)
  BY <1>1, <1>2, FS_Subset
<1> QED
  BY <1>1, <1>2, <1>3 DEF Nodes, root

(* A node that leaves its column, and comes back. *)
LEMMA UnlinkColumn ==
    ASSUME NEW k, NEW A, NEW C, NEW S, NEW j \in S, Fit(k, A, C, S), k.col[j] \in C
    PROVE  Without(k, Unlink(k, j), A, C, S, {j}) /\ Relink(Unlink(k, j), j) = k
<1>0. /\ Shape(k, A) /\ C \subseteq A /\ S \subseteq Nodes(k) /\ ColumnsHold(k, C, S)
      /\ j \in S /\ k.col[j] \in C
  BY DEF Fit
<1> DEFINE l == Unlink(k, j)
           X == A \cup Nodes(k)
           c0 == k.col[j]
           up == k.U[j]
           down == k.D[j]
           T(c) == InColumn(k, S, c)
<1>1. Fields(k) /\ k.tot \in Nat
  BY <1>0 DEF Shape
<1>2. l = [tot |-> k.tot, L |-> k.L, R |-> k.R,
           U |-> [k.U EXCEPT ![down] = up], D |-> [k.D EXCEPT ![up] = down],
           siz |-> [k.siz EXCEPT ![c0] = k.siz[c0] - 1],
           col |-> k.col, row |-> k.row]
  BY <1>1, UnlinkIs
<1> HIDE DEF l
<1>3. /\ l.tot = k.tot /\ l.L = k.L /\ l.R = k.R /\ l.col = k.col /\ l.row = k.row
      /\ l.U = [k.U EXCEPT ![down] = up] /\ l.D = [k.D EXCEPT ![up] = down]
      /\ l.siz = [k.siz EXCEPT ![c0] = k.siz[c0] - 1]
  BY <1>2
<1>4. /\ k.U \in [X -> X] /\ k.D \in [X -> X] /\ k.siz \in [A -> Int] /\ C \subseteq X
      /\ S \subseteq X
      /\ k.col \in [Nodes(k) -> A] /\ c0 \in A /\ j \in X /\ up \in X /\ down \in X
  BY <1>0 DEF Shape
<1>5. Nodes(l) = Nodes(k)
  BY <1>3 DEF Nodes
<1>6. SameAcross(k, l)
  BY <1>3 DEF SameAcross
<1>7. Shape(l, A)
  <2>1. Fields(l)
    BY <1>2, <1>3 DEF Fields
  <2>2. l.siz \in [A -> Int]
    BY <1>3, <1>4
  <2>3. l.U \in [X -> X] /\ l.D \in [X -> X]
    BY <1>3, <1>4
  <2> QED
    BY <1>0, <1>3, <1>5, <2>1, <2>2, <2>3 DEF Shape
<1>8. \A c \in C : c \notin T(c) /\ T(c) \subseteq X /\ c \in X
  BY <1>0, <1>4, NodesApart DEF InColumn
<1>9. \A c \in C : RingOf(k.D, k.U, c, T(c)) /\ k.siz[c] = Cardinality(T(c))
  BY <1>0 DEF ColumnsHold
<1>10. j \in T(c0) /\ c0 \in C
  BY <1>0 DEF InColumn
<1> HIDE DEF T
<1>11. /\ RingOf(l.D, l.U, c0, T(c0) \ {j})
       /\ down \in T(c0) \cup {c0} /\ up \in T(c0) \cup {c0} /\ down # j /\ up # j
       /\ k.U[down] = j /\ k.D[up] = j
  <2> DEFINE d == k.D
             u == k.U
             d1 == l.D
             u1 == l.U
             c == k.col[j]
             S0 == T(c)
  <2>1. RingOf(d, u, c, S0) /\ c \notin S0 /\ j \in S0
    BY <1>8, <1>9, <1>10
  <2>2. S0 \cup {c} \subseteq X
    BY <1>4, <1>8, <1>10
  <2>3. d1[u[j]] = d[j] /\ u1[d[j]] = u[j]
    BY <1>3, <1>4
  <2>4. /\ \A x \in S0 \cup {c} : x # u[j] => d1[x] = d[x]
        /\ \A x \in S0 \cup {c} : x # d[j] => u1[x] = u[x]
    BY <1>3, <1>4, <2>2
  <2>5. d = k.D /\ u = k.U /\ d1 = l.D /\ u1 = l.U /\ c = c0 /\ S0 = T(c0)
    OBVIOUS
  <2> HIDE DEF d, u, d1, u1, c, S0
  <2>6. RingOf(d1, u1, c, S0 \ {j})
    BY <2>1, <2>3, <2>4, LinkedRemove
  <2>7. /\ d[j] \in S0 \cup {c} /\ u[j] \in S0 \cup {c}
        /\ d[j] # j /\ u[j] # j
        /\ u[d[j]] = j /\ d[u[j]] = j
    BY ONLY <2>1, RingNeighbours
  <2> QED
    BY <2>5, <2>6, <2>7
<1>12. \A x \in C \cup S : HomeOf(k, C, x) # c0 => x # up /\ x # down
  <2>1. \A x \in T(c0) : x \in S /\ k.col[x] = c0 /\ x \notin C
    BY <1>0, NodesApart DEF T, InColumn
  <2> QED
    BY <1>10, <1>11, <2>1 DEF HomeOf
<1>13. \A x \in C \cup S : HomeOf(k, C, x) # c0 =>
          l.D[x] = k.D[x] /\ l.U[x] = k.U[x]
  <2> SUFFICES ASSUME NEW x \in C \cup S, x # up, x # down
               PROVE  l.D[x] = k.D[x] /\ l.U[x] = k.U[x]
    BY <1>12
  <2> QED
    BY <1>3, <1>4
<1>14. ASSUME NEW c \in C
       PROVE  /\ RingOf(l.D, l.U, c, InColumn(l, S \ {j}, c))
              /\ l.siz[c] = Cardinality(InColumn(l, S \ {j}, c))
  <2>1. CASE c = c0
    <3>1. InColumn(l, S \ {j}, c) = T(c) \ {j}
      BY <1>3 DEF InColumn, T
    <3>2. IsFiniteSet(T(c)) /\ j \in T(c)
      BY <1>9, <1>10, <2>1, EnumeratesAll DEF RingOf
    <3>3. Cardinality(T(c) \ {j}) = Cardinality(T(c)) - 1
      BY <3>2, FS_RemoveElement
    <3>4. l.siz[c] = k.siz[c] - 1
      BY <1>3, <1>4, <2>1
    <3> QED
      BY <1>3, <1>9, <1>11, <2>1, <3>1, <3>3, <3>4
  <2>2. CASE c # c0
    <3>1. InColumn(l, S \ {j}, c) = T(c)
      BY <1>3, <2>2 DEF InColumn, T
    <3>2. \A x \in T(c) \cup {c} : x \in C \cup S /\ HomeOf(k, C, x) # c0
      BY <1>0, <2>2, NodesApart DEF InColumn, T, HomeOf
    <3>3. \A x \in T(c) \cup {c} : l.D[x] = k.D[x] /\ l.U[x] = k.U[x]
      BY <1>13, <3>2
    <3>4. RingOf(l.D, l.U, c, T(c))
      BY <1>8, <1>9, <3>3, RingSame
    <3>5. l.siz[c] = k.siz[c]
      BY <1>3, <1>4, <2>2
    <3> QED
      BY <1>9, <3>1, <3>4, <3>5
  <2> QED
    BY <2>1, <2>2
<1>15. ColumnsHold(l, C, S \ {j})
  BY <1>14 DEF ColumnsHold
<1>16. Relink(l, j) = k
  <2>1. l.D[j] = down /\ l.U[j] = up
    BY <1>3, <1>4, <1>11
  <2>2. Relink(l, j) =
          [tot |-> l.tot, L |-> l.L, R |-> l.R,
           U |-> [l.U EXCEPT ![down] = j], D |-> [l.D EXCEPT ![up] = j],
           siz |-> [l.siz EXCEPT ![l.col[j]] = l.siz[l.col[j]] + 1],
           col |-> l.col, row |-> l.row]
    BY <1>7, <2>1, RelinkIs DEF Shape
  <2>3. [l.U EXCEPT ![down] = j] = k.U /\ [l.D EXCEPT ![up] = j] = k.D
    BY <1>3, <1>4, <1>11
  <2>4. [l.siz EXCEPT ![l.col[j]] = l.siz[l.col[j]] + 1] = k.siz
    <3>1. k.siz[c0] \in Int /\ l.siz[c0] = k.siz[c0] - 1
      BY <1>3, <1>4
    <3>2. l.siz[c0] + 1 = k.siz[c0]
      BY <3>1
    <3> QED
      BY <1>3, <1>4, <3>2
  <2> QED
    BY <1>1, <1>3, <2>2, <2>3, <2>4 DEF Fields
<1>17. Without(k, l, A, C, S, {j})
  <2>1. \A e \in A \ C : l.siz[e] = k.siz[e]
    BY <1>0, <1>3, <1>4
  <2> QED
    BY <1>6, <1>7, <1>13, <1>15, <2>1 DEF Without
<1> QED
  BY <1>16, <1>17 DEF l

(* A node, or a row, less and then more of them less. *)
LEMMA WithoutMore ==
    ASSUME NEW k, NEW l, NEW m, NEW A, NEW C, NEW S, NEW J, NEW K, Fit(k, A, C, S),
           Without(k, l, A, C, S, J), Without(l, m, A, C, S \ J, K), J \cup K \subseteq S
    PROVE  Fit(l, A, C, S \ J) /\ Without(k, m, A, C, S, J \cup K)
<1>1. SameAcross(k, l) /\ SameAcross(l, m) /\ Shape(l, A) /\ Shape(m, A)
  BY DEF Without
<1>2. SameAcross(k, m) /\ Nodes(l) = Nodes(k) /\ l.col = k.col
  BY <1>1 DEF SameAcross, Nodes
<1>3. S \ (J \cup K) = (S \ J) \ K
  OBVIOUS
<1>4. ColumnsHold(m, C, S \ (J \cup K))
  BY <1>3 DEF Without
<1>5. ASSUME NEW x \in C \cup S, \A n \in J \cup K : HomeOf(k, C, x) # k.col[n]
      PROVE  m.D[x] = k.D[x] /\ m.U[x] = k.U[x]
  <2>1. l.D[x] = k.D[x] /\ l.U[x] = k.U[x]
    BY <1>5 DEF Without
  <2>2. x \in C \cup (S \ J)
    BY <1>5 DEF HomeOf
  <2>3. \A n \in K : HomeOf(l, C, x) # l.col[n]
    BY <1>2, <1>5 DEF HomeOf
  <2>4. m.D[x] = l.D[x] /\ m.U[x] = l.U[x]
    BY <2>2, <2>3 DEF Without
  <2> QED
    BY <2>1, <2>4
<1>6. Fit(l, A, C, S \ J)
  BY <1>1, <1>2 DEF Fit, Without
<1>7. \A e \in A \ C : m.siz[e] = k.siz[e]
  BY DEF Without
<1> QED
  BY <1>1, <1>2, <1>4, <1>5, <1>6, <1>7 DEF Without

(* The loops over the other three nodes of a row. *)

(* Three nodes that leave their columns, *)
LEMMA UnlinkThree ==
    ASSUME NEW k, NEW i, NEW a, NEW b, NEW c, Ring(k.R, i) = <<a, b, c>>
    PROVE  UnlinkRow(k, i) = Unlink(Unlink(Unlink(k, a), b), c)
<1> DEFINE s == <<a, b, c>>
           P(f) == f = [x \in 0..3 |-> IF x = 0 THEN k ELSE Unlink(f[x - 1], s[x])]
           g == [x \in 0..3 |-> IF x = 0 THEN k ELSE IF x = 1 THEN Unlink(k, a)
                                ELSE IF x = 2 THEN Unlink(Unlink(k, a), b)
                                ELSE Unlink(Unlink(Unlink(k, a), b), c)]
           h == CHOOSE f : P(f)
<1>1. Len(s) = 3 /\ s[1] = a /\ s[2] = b /\ s[3] = c
  OBVIOUS
<1>2. P(g)
  <2> SUFFICES ASSUME NEW x \in 0..3
               PROVE  g[x] = IF x = 0 THEN k ELSE Unlink(g[x - 1], s[x])
    OBVIOUS
  <2> HIDE DEF s
  <2>1. x = 0 \/ x = 1 \/ x = 2 \/ x = 3
    OBVIOUS
  <2> QED
    BY <1>1, <2>1
<1>3. P(h)
  <2> HIDE DEF P, g
  <2> QED
    BY <1>2
<1>4. UnlinkRow(k, i) = h[3]
  BY <1>1 DEF DoAll, UnlinkRow
<1> HIDE DEF h, s
<1>5. h[3] = Unlink(h[2], c) /\ h[2] = Unlink(h[1], b) /\ h[1] = Unlink(h[0], a) /\ h[0] = k
  BY <1>1, <1>3
<1> QED
  BY <1>4, <1>5 DEF s

(* that return to them, *)
LEMMA RelinkThree ==
    ASSUME NEW k, NEW i, NEW a, NEW b, NEW c, Ring(k.L, i) = <<a, b, c>>
    PROVE  RelinkRow(k, i) = Relink(Relink(Relink(k, a), b), c)
<1> DEFINE s == <<a, b, c>>
           P(f) == f = [x \in 0..3 |-> IF x = 0 THEN k ELSE Relink(f[x - 1], s[x])]
           g == [x \in 0..3 |-> IF x = 0 THEN k ELSE IF x = 1 THEN Relink(k, a)
                                ELSE IF x = 2 THEN Relink(Relink(k, a), b)
                                ELSE Relink(Relink(Relink(k, a), b), c)]
           h == CHOOSE f : P(f)
<1>1. Len(s) = 3 /\ s[1] = a /\ s[2] = b /\ s[3] = c
  OBVIOUS
<1>2. P(g)
  <2> SUFFICES ASSUME NEW x \in 0..3
               PROVE  g[x] = IF x = 0 THEN k ELSE Relink(g[x - 1], s[x])
    OBVIOUS
  <2> HIDE DEF s
  <2>1. x = 0 \/ x = 1 \/ x = 2 \/ x = 3
    OBVIOUS
  <2> QED
    BY <1>1, <2>1
<1>3. P(h)
  <2> HIDE DEF P, g
  <2> QED
    BY <1>2
<1>4. RelinkRow(k, i) = h[3]
  BY <1>1 DEF DoAll, RelinkRow
<1> HIDE DEF h, s
<1>5. h[3] = Relink(h[2], c) /\ h[2] = Relink(h[1], b) /\ h[1] = Relink(h[0], a) /\ h[0] = k
  BY <1>1, <1>3
<1> QED
  BY <1>4, <1>5 DEF s

(* the three columns of those nodes that are covered, *)
LEMMA CoverThree ==
    ASSUME NEW k, NEW i, NEW a, NEW b, NEW c, ColumnsAlong(k, k.R, i) = <<a, b, c>>
    PROVE  CoverRow(k, i) = Cover(Cover(Cover(k, a), b), c)
<1> DEFINE s == <<a, b, c>>
           P(f) == f = [x \in 0..3 |-> IF x = 0 THEN k ELSE Cover(f[x - 1], s[x])]
           g == [x \in 0..3 |-> IF x = 0 THEN k ELSE IF x = 1 THEN Cover(k, a)
                                ELSE IF x = 2 THEN Cover(Cover(k, a), b)
                                ELSE Cover(Cover(Cover(k, a), b), c)]
           h == CHOOSE f : P(f)
<1>1. Len(s) = 3 /\ s[1] = a /\ s[2] = b /\ s[3] = c
  OBVIOUS
<1>2. P(g)
  <2> SUFFICES ASSUME NEW x \in 0..3
               PROVE  g[x] = IF x = 0 THEN k ELSE Cover(g[x - 1], s[x])
    OBVIOUS
  <2> HIDE DEF s
  <2>1. x = 0 \/ x = 1 \/ x = 2 \/ x = 3
    OBVIOUS
  <2> QED
    BY <1>1, <2>1
<1>3. P(h)
  <2> HIDE DEF P, g
  <2> QED
    BY <1>2
<1>4. CoverRow(k, i) = h[3]
  BY <1>1 DEF DoAll, CoverRow
<1> HIDE DEF h, s
<1>5. h[3] = Cover(h[2], c) /\ h[2] = Cover(h[1], b) /\ h[1] = Cover(h[0], a) /\ h[0] = k
  BY <1>1, <1>3
<1> QED
  BY <1>4, <1>5 DEF s

(* and that are uncovered. *)
LEMMA UncoverThree ==
    ASSUME NEW k, NEW i, NEW a, NEW b, NEW c, ColumnsAlong(k, k.L, i) = <<a, b, c>>
    PROVE  UncoverRow(k, i) = Uncover(Uncover(Uncover(k, a), b), c)
<1> DEFINE s == <<a, b, c>>
           P(f) == f = [x \in 0..3 |-> IF x = 0 THEN k ELSE Uncover(f[x - 1], s[x])]
           g == [x \in 0..3 |-> IF x = 0 THEN k ELSE IF x = 1 THEN Uncover(k, a)
                                ELSE IF x = 2 THEN Uncover(Uncover(k, a), b)
                                ELSE Uncover(Uncover(Uncover(k, a), b), c)]
           h == CHOOSE f : P(f)
<1>1. Len(s) = 3 /\ s[1] = a /\ s[2] = b /\ s[3] = c
  OBVIOUS
<1>2. P(g)
  <2> SUFFICES ASSUME NEW x \in 0..3
               PROVE  g[x] = IF x = 0 THEN k ELSE Uncover(g[x - 1], s[x])
    OBVIOUS
  <2> HIDE DEF s
  <2>1. x = 0 \/ x = 1 \/ x = 2 \/ x = 3
    OBVIOUS
  <2> QED
    BY <1>1, <2>1
<1>3. P(h)
  <2> HIDE DEF P, g
  <2> QED
    BY <1>2
<1>4. UncoverRow(k, i) = h[3]
  BY <1>1 DEF DoAll, UncoverRow
<1> HIDE DEF h, s
<1>5. h[3] = Uncover(h[2], c) /\ h[2] = Uncover(h[1], b) /\ h[1] = Uncover(h[0], a) /\ h[0] = k
  BY <1>1, <1>3
<1> QED
  BY <1>4, <1>5 DEF s

(* The other nodes of the row of n, along R, and the columns of the row. *)
Second(k, n) == k.R[n]
Third(k, n) == k.R[k.R[n]]
Fourth(k, n) == k.R[k.R[k.R[n]]]
Others(k, n) == {Second(k, n), Third(k, n), Fourth(k, n)}
RowColumns(k, n) == {k.col[n], k.col[Second(k, n)], k.col[Third(k, n)], k.col[Fourth(k, n)]}

(* Every node is one of four in a row, in four columns. *)
RowOfFour(k, n, a, b, c) ==
    /\ a \in Nodes(k) /\ b \in Nodes(k) /\ c \in Nodes(k)
    /\ n # a /\ n # b /\ n # c /\ a # b /\ a # c /\ b # c
    /\ k.R[n] = a /\ k.R[a] = b /\ k.R[b] = c /\ k.R[c] = n
    /\ k.L[a] = n /\ k.L[b] = a /\ k.L[c] = b /\ k.L[n] = c
    /\ k.col[n] # k.col[a] /\ k.col[n] # k.col[b] /\ k.col[n] # k.col[c]
    /\ k.col[a] # k.col[b] /\ k.col[a] # k.col[c] /\ k.col[b] # k.col[c]
    /\ k.row[a] = k.row[n] /\ k.row[b] = k.row[n] /\ k.row[c] = k.row[n]

Rows(k) == \A n \in Nodes(k) : RowOfFour(k, n, Second(k, n), Third(k, n), Fourth(k, n))

(* Others are the other nodes, whichever node of the row one begins with. *)
LEMMA OthersAre ==
    ASSUME NEW k, Rows(k), NEW n \in Nodes(k)
    PROVE  /\ RowOfFour(k, n, Second(k, n), Third(k, n), Fourth(k, n))
           /\ Others(k, n) \subseteq Nodes(k) /\ n \notin Others(k, n)
           /\ \A m \in Others(k, n) :
                 /\ Others(k, m) = (Others(k, n) \cup {n}) \ {m}
                 /\ RowColumns(k, m) = RowColumns(k, n)
                 /\ k.col[m] \in RowColumns(k, n) \ {k.col[n]}
                 /\ k.row[m] = k.row[n]
<1> DEFINE a == Second(k, n)
           b == Third(k, n)
           c == Fourth(k, n)
<1>1. RowOfFour(k, n, a, b, c)
  BY DEF Rows
<1>2. /\ Others(k, n) = {a, b, c}
      /\ RowColumns(k, n) = {k.col[n], k.col[a], k.col[b], k.col[c]}
  BY DEF Others, RowColumns
<1> HIDE DEF a, b, c
<1>3. Second(k, a) = b /\ Third(k, a) = c /\ Fourth(k, a) = n
  BY <1>1 DEF RowOfFour, Second, Third, Fourth
<1>4. Second(k, b) = c /\ Third(k, b) = n /\ Fourth(k, b) = a
  BY <1>1 DEF RowOfFour, Second, Third, Fourth
<1>5. Second(k, c) = n /\ Third(k, c) = a /\ Fourth(k, c) = b
  BY <1>1 DEF RowOfFour, Second, Third, Fourth
<1>6. /\ Others(k, a) = {b, c, n} /\ Others(k, b) = {c, n, a} /\ Others(k, c) = {n, a, b}
      /\ RowColumns(k, a) = {k.col[a], k.col[b], k.col[c], k.col[n]}
      /\ RowColumns(k, b) = {k.col[b], k.col[c], k.col[n], k.col[a]}
      /\ RowColumns(k, c) = {k.col[c], k.col[n], k.col[a], k.col[b]}
  BY <1>3, <1>4, <1>5 DEF Others, RowColumns
<1>7. a \in Nodes(k) /\ b \in Nodes(k) /\ c \in Nodes(k) /\ n # a /\ n # b /\ n # c
      /\ a # b /\ a # c /\ b # c
  BY <1>1 DEF RowOfFour
<1>8. /\ k.col[a] # k.col[n] /\ k.col[b] # k.col[n] /\ k.col[c] # k.col[n]
      /\ k.row[a] = k.row[n] /\ k.row[b] = k.row[n] /\ k.row[c] = k.row[n]
  BY <1>1 DEF RowOfFour
<1>9. ASSUME NEW m \in {a, b, c}
      PROVE  /\ Others(k, m) = ({a, b, c} \cup {n}) \ {m}
             /\ RowColumns(k, m) = RowColumns(k, n)
             /\ k.col[m] \in RowColumns(k, n) \ {k.col[n]}
             /\ k.row[m] = k.row[n]
  <2>1. CASE m = a
    BY <1>2, <1>6, <1>7, <1>8, <2>1
  <2>2. CASE m = b
    BY <1>2, <1>6, <1>7, <1>8, <2>2
  <2>3. CASE m = c
    BY <1>2, <1>6, <1>7, <1>8, <2>3
  <2> QED
    BY <2>1, <2>2, <2>3
<1>10. {a, b, c} \subseteq Nodes(k) /\ n \notin {a, b, c}
  BY <1>7
<1>11. RowOfFour(k, n, Second(k, n), Third(k, n), Fourth(k, n))
  BY DEF Rows
<1> QED
  BY <1>2, <1>9, <1>10, <1>11

(* The way along a row. *)
LEMMA RowRings ==
    ASSUME NEW k, NEW A, Shape(k, A), Rows(k), NEW n \in Nodes(k)
    PROVE  /\ Ring(k.R, n) = <<Second(k, n), Third(k, n), Fourth(k, n)>>
           /\ Ring(k.L, n) = <<Fourth(k, n), Third(k, n), Second(k, n)>>
<1> DEFINE a == Second(k, n)
           b == Third(k, n)
           c == Fourth(k, n)
           s == <<a, b, c>>
           r == <<c, b, a>>
           S == {a, b, c}
<1>1. RowOfFour(k, n, a, b, c)
  BY DEF Rows
<1>2. /\ S \cup {n} \subseteq DOMAIN k.R /\ S \cup {n} \subseteq DOMAIN k.L
      /\ IsFiniteSet(DOMAIN k.R) /\ IsFiniteSet(DOMAIN k.L)
  <2>1. /\ DOMAIN k.R = {root} \cup A \cup Nodes(k) /\ DOMAIN k.L = {root} \cup A \cup Nodes(k)
        /\ S \cup {n} \subseteq Nodes(k)
    BY <1>1 DEF Shape, RowOfFour
  <2>2. IsFiniteSet({root} \cup A \cup Nodes(k))
    <3>1. IsFiniteSet({root}) /\ IsFiniteSet(A) /\ IsFiniteSet(Nodes(k))
      BY NodesApart, FS_Singleton
    <3> QED
      BY <3>1, FS_Union
  <2> QED
    BY <2>1, <2>2
<1> HIDE DEF a, b, c
<1>3. n \notin S /\ a # b /\ a # c /\ b # c
  BY <1>1 DEF RowOfFour
<1>4. Enumerates(s, S) /\ Enumerates(r, S)
  BY <1>3 DEF Enumerates
<1>5. Along(k.R, n, s) /\ Along(k.L, n, r)
  <2>1. /\ At(s, n, 0) = n /\ At(s, n, 1) = a /\ At(s, n, 2) = b /\ At(s, n, 3) = c
        /\ At(s, n, 4) = n
        /\ At(r, n, 0) = n /\ At(r, n, 1) = c /\ At(r, n, 2) = b /\ At(r, n, 3) = a
        /\ At(r, n, 4) = n
        /\ Len(s) = 3 /\ Len(r) = 3
    BY DEF At
  <2>2. \A i \in 0..3 : i = 0 \/ i = 1 \/ i = 2 \/ i = 3
    OBVIOUS
  <2>3. /\ k.R[n] = a /\ k.R[a] = b /\ k.R[b] = c /\ k.R[c] = n
        /\ k.L[a] = n /\ k.L[b] = a /\ k.L[c] = b /\ k.L[n] = c
    BY <1>1 DEF RowOfFour
  <2> DEFINE R == k.R
             L == k.L
  <2> HIDE DEF R, L, s, r
  <2>4. Along(R, n, s)
    <3> SUFFICES ASSUME NEW i \in 0..3 PROVE R[At(s, n, i)] = At(s, n, i + 1)
      BY <2>1 DEF Along
    <3> QED
      BY <2>1, <2>2, <2>3 DEF R
  <2>5. Along(L, n, r)
    <3> SUFFICES ASSUME NEW i \in 0..3 PROVE L[At(r, n, i)] = At(r, n, i + 1)
      BY <2>1 DEF Along
    <3> QED
      BY <2>1, <2>2, <2>3 DEF L
  <2> QED
    BY <2>4, <2>5 DEF R, L
<1> HIDE DEF s, r, S
<1>6. Ring(k.R, n) = s
  BY <1>2, <1>3, <1>4, <1>5, RingIs
<1>7. Ring(k.L, n) = r
  BY <1>2, <1>3, <1>4, <1>5, RingIs
<1> QED
  BY <1>6, <1>7 DEF s, r, a, b, c

(* The loops over the rows of a column. *)

(* The header of column c without its links from the sides, and with them again. *)
HeaderOut(k, c) == [k EXCEPT !.L[k.R[c]] = k.L[c], !.R[k.L[c]] = k.R[c]]
HeaderBack(k, l, c) == [l EXCEPT !.L[k.R[c]] = c, !.R[k.L[c]] = c]

(* The rows that are taken out, one after the other, *)
LEMMA UnlinkRowRun ==
    ASSUME NEW k, NEW c, NEW s, s = Ring(k.D, c), Len(s) \in Nat
    PROVE  \E f : /\ f[0] = HeaderOut(k, c)
                  /\ \A i \in 1..Len(s) : f[i] = UnlinkRow(f[i - 1], s[i])
                  /\ Cover(k, c) = f[Len(s)]
<1> DEFINE l == Len(s)
           start == HeaderOut(k, c)
           P(f, n) == f = [i \in 0..n |-> IF i = 0 THEN start ELSE UnlinkRow(f[i - 1], s[i])]
           S == {n \in Nat : \E f : P(f, n)}
           h == CHOOSE f : P(f, l)
<1> HIDE DEF l, start
<1>1. 0 \in S
  <2> DEFINE g == [i \in 0..0 |-> start]
  <2>1. P(g, 0)
    OBVIOUS
  <2> HIDE DEF P, g
  <2> QED
    BY <2>1
<1>2. ASSUME NEW n \in Nat, n \in S PROVE n + 1 \in S
  <2>1. PICK f : P(f, n)
    BY <1>2
  <2> DEFINE g == [i \in 0..(n + 1) |-> IF i = n + 1 THEN UnlinkRow(f[n], s[n + 1]) ELSE f[i]]
  <2>2. ASSUME NEW i \in 0..(n + 1)
        PROVE  g[i] = IF i = 0 THEN start ELSE UnlinkRow(g[i - 1], s[i])
    <3>1. CASE i = n + 1
      <4>1. i # 0 /\ g[i - 1] = f[n] /\ g[i] = UnlinkRow(f[n], s[n + 1])
        BY <3>1
      <4> QED
        BY <3>1, <4>1
    <3>2. CASE i \in 1..n
      <4>1. i # 0 /\ g[i - 1] = f[i - 1] /\ g[i] = f[i]
        BY <3>2
      <4> QED
        BY <2>1, <3>2, <4>1
    <3>3. CASE i = 0
      BY <2>1, <3>3
    <3> QED
      BY <3>1, <3>2, <3>3
  <2>3. P(g, n + 1)
    BY <2>2
  <2> HIDE DEF P, g
  <2> QED
    BY <2>3
<1> HIDE DEF S
<1>3. l \in S
  BY <1>1, <1>2, NatSetInduction DEF l
<1>4. P(h, l)
  <2>1. \E f : P(f, l)
    BY <1>3 DEF S
  <2> HIDE DEF P
  <2> QED
    BY <2>1
<1>5. Cover(k, c) = h[l]
  BY DEF DoAll, Cover, l, start, HeaderOut
<1> HIDE DEF h
<1>6. h[0] = start /\ \A i \in 1..l : h[i] = UnlinkRow(h[i - 1], s[i])
  <2>1. l \in Nat
    BY DEF l
  <2> QED
    BY <1>4, <2>1
<1> QED
  BY <1>5, <1>6 DEF l, start

(* and put back. *)
LEMMA RelinkRowRun ==
    ASSUME NEW k, NEW c, NEW s, s = Ring(k.U, c), Len(s) \in Nat
    PROVE  \E f : /\ f[0] = k /\ \A i \in 1..Len(s) : f[i] = RelinkRow(f[i - 1], s[i])
                  /\ Uncover(k, c) = HeaderBack(k, f[Len(s)], c)
<1> DEFINE l == Len(s)
           P(f, n) == f = [i \in 0..n |-> IF i = 0 THEN k ELSE RelinkRow(f[i - 1], s[i])]
           S == {n \in Nat : \E f : P(f, n)}
           h == CHOOSE f : P(f, l)
<1> HIDE DEF l
<1>1. 0 \in S
  <2> DEFINE g == [i \in 0..0 |-> k]
  <2>1. P(g, 0)
    OBVIOUS
  <2> HIDE DEF P, g
  <2> QED
    BY <2>1
<1>2. ASSUME NEW n \in Nat, n \in S PROVE n + 1 \in S
  <2>1. PICK f : P(f, n)
    BY <1>2
  <2> DEFINE g == [i \in 0..(n + 1) |-> IF i = n + 1 THEN RelinkRow(f[n], s[n + 1]) ELSE f[i]]
  <2>2. ASSUME NEW i \in 0..(n + 1)
        PROVE  g[i] = IF i = 0 THEN k ELSE RelinkRow(g[i - 1], s[i])
    <3>1. CASE i = n + 1
      <4>1. i # 0 /\ g[i - 1] = f[n] /\ g[i] = RelinkRow(f[n], s[n + 1])
        BY <3>1
      <4> QED
        BY <3>1, <4>1
    <3>2. CASE i \in 1..n
      <4>1. i # 0 /\ g[i - 1] = f[i - 1] /\ g[i] = f[i]
        BY <3>2
      <4> QED
        BY <2>1, <3>2, <4>1
    <3>3. CASE i = 0
      BY <2>1, <3>3
    <3> QED
      BY <3>1, <3>2, <3>3
  <2>3. P(g, n + 1)
    BY <2>2
  <2> HIDE DEF P, g
  <2> QED
    BY <2>3
<1> HIDE DEF S
<1>3. l \in S
  BY <1>1, <1>2, NatSetInduction DEF l
<1>4. P(h, l)
  <2>1. \E f : P(f, l)
    BY <1>3 DEF S
  <2> HIDE DEF P
  <2> QED
    BY <2>1
<1>5. Uncover(k, c) = HeaderBack(k, h[l], c)
  BY DEF DoAll, Uncover, l, HeaderBack
<1> HIDE DEF h
<1>6. h[0] = k /\ \A i \in 1..l : h[i] = RelinkRow(h[i - 1], s[i])
  <2>1. l \in Nat
    BY DEF l
  <2> QED
    BY <1>4, <2>1
<1> QED
  BY <1>5, <1>6 DEF l

(* Two rows that meet in a column have no other node in common. *)
LEMMA RowsMeetOnce ==
    ASSUME NEW k, Rows(k), NEW n \in Nodes(k), NEW m \in Nodes(k), k.col[n] = k.col[m],
           NEW x \in Others(k, n), x \in Others(k, m)
    PROVE  n = m
<1>1. Others(k, x) = (Others(k, n) \cup {n}) \ {x} /\ Others(k, x) = (Others(k, m) \cup {m}) \ {x}
  BY OthersAre
<1>2. m \notin Others(k, m)
  BY OthersAre
<1>3. m \in Others(k, n) \cup {n}
  BY <1>1, <1>2
<1>4. \A y \in Others(k, n) : k.col[y] # k.col[n]
  BY OthersAre
<1> QED
  BY <1>3, <1>4

(* What does not change along the rows. *)
LEMMA SameRows ==
    ASSUME NEW k, NEW l, SameAcross(k, l)
    PROVE  /\ Nodes(l) = Nodes(k) /\ (Rows(k) => Rows(l))
           /\ \A n : Others(l, n) = Others(k, n) /\ RowColumns(l, n) = RowColumns(k, n)
           /\ \A S, c : InColumn(l, S, c) = InColumn(k, S, c)
           /\ \A C, x : HomeOf(l, C, x) = HomeOf(k, C, x)
<1>1. /\ Nodes(l) = Nodes(k)
      /\ \A n : /\ Second(l, n) = Second(k, n) /\ Third(l, n) = Third(k, n)
                /\ Fourth(l, n) = Fourth(k, n)
  BY DEF SameAcross, Nodes, Second, Third, Fourth
<1>2. \A n, a, b, c : RowOfFour(k, n, a, b, c) => RowOfFour(l, n, a, b, c)
  BY <1>1 DEF SameAcross, RowOfFour
<1>3. Rows(k) => Rows(l)
  BY <1>1, <1>2 DEF Rows
<1>4. \A n : Others(l, n) = Others(k, n) /\ RowColumns(l, n) = RowColumns(k, n)
  BY <1>1 DEF SameAcross, Others, RowColumns
<1>5. \A S, c : InColumn(l, S, c) = InColumn(k, S, c)
  BY DEF SameAcross, InColumn
<1>6. \A C, x : HomeOf(l, C, x) = HomeOf(k, C, x)
  BY DEF SameAcross, HomeOf
<1> QED
  BY <1>1, <1>3, <1>4, <1>5, <1>6

(* A row that leaves its columns but one, and comes back. *)
LEMMA UnlinkRowIs ==
    ASSUME NEW k, NEW A, NEW C, NEW S, NEW i \in Nodes(k), Fit(k, A, C, S), Rows(k),
           Others(k, i) \subseteq S, \A m \in Others(k, i) : k.col[m] \in C
    PROVE  /\ Without(k, UnlinkRow(k, i), A, C, S, Others(k, i))
           /\ RelinkRow(UnlinkRow(k, i), i) = k
<1> DEFINE a == Second(k, i)
           b == Third(k, i)
           c == Fourth(k, i)
           k1 == Unlink(k, a)
           k2 == Unlink(k1, b)
           k3 == Unlink(k2, c)
<1>1. /\ Ring(k.R, i) = <<a, b, c>> /\ Ring(k.L, i) = <<c, b, a>>
      /\ Others(k, i) = {a, b, c}
  BY RowRings DEF Others, Fit
<1>2. a # b /\ a # c /\ b # c
  BY OthersAre DEF RowOfFour
<1> HIDE DEF a, b, c
<1>3. UnlinkRow(k, i) = k3
  BY <1>1, UnlinkThree
<1>4. /\ a \in S /\ b \in S \ {a} /\ c \in S \ {a, b}
      /\ k.col[a] \in C /\ k.col[b] \in C /\ k.col[c] \in C
  BY <1>1, <1>2
<1> HIDE DEF k1, k2, k3
<1>5. Without(k, k1, A, C, S, {a}) /\ Relink(k1, a) = k
  BY <1>4, UnlinkColumn DEF k1
<1>6. Fit(k1, A, C, S \ {a}) /\ k1.col = k.col
  BY <1>5 DEF Fit, Without, SameAcross, Nodes
<1>7. Without(k1, k2, A, C, S \ {a}, {b}) /\ Relink(k2, b) = k1
  BY <1>4, <1>6, UnlinkColumn DEF k2
<1>8. Without(k, k2, A, C, S, {a, b})
  <2>1. {a} \cup {b} = {a, b} /\ {a} \cup {b} \subseteq S
    BY <1>4
  <2> QED
    BY <1>5, <1>7, <2>1, WithoutMore
<1>9. Fit(k2, A, C, S \ {a, b}) /\ k2.col = k.col
  BY <1>8 DEF Fit, Without, SameAcross, Nodes
<1>10. Without(k2, k3, A, C, S \ {a, b}, {c}) /\ Relink(k3, c) = k2
  BY <1>4, <1>9, UnlinkColumn DEF k3
<1>11. Without(k, k3, A, C, S, Others(k, i))
  <2>1. {a, b} \cup {c} = Others(k, i) /\ {a, b} \cup {c} \subseteq S
    BY <1>1, <1>4
  <2> QED
    BY <1>8, <1>10, <2>1, WithoutMore
<1>12. Ring(k3.L, i) = <<c, b, a>>
  BY <1>1, <1>11 DEF Without, SameAcross
<1>13. RelinkRow(k3, i) = k
  BY <1>5, <1>7, <1>10, <1>12, RelinkThree
<1> QED
  BY <1>3, <1>11, <1>13

(* The nodes whose rows meet none of the columns M. *)
Live(k, M) == {n \in Nodes(k) : RowColumns(k, n) \cap M = {}}

(* The links when the columns M have been taken out. *)
Counted(k, A) ==
    \A e \in A : \E X : /\ X \subseteq Nodes(k) /\ \A x \in X : k.col[x] = e
                       /\ k.siz[e] = Cardinality(X)
Holds(k, A, M) ==
    /\ Shape(k, A) /\ Rows(k) /\ M \subseteq A /\ Counted(k, A)
    /\ RingOf(k.R, k.L, root, A \ M) /\ ColumnsHold(k, A \ M, Live(k, M))

(* Nothing but the columns, and the headers in their row, may differ. *)
SameNodes(k, l) ==
    /\ l.tot = k.tot /\ l.col = k.col /\ l.row = k.row
    /\ \A n \in Nodes(k) : l.L[n] = k.L[n] /\ l.R[n] = k.R[n]

(* A header that leaves the row of the headers, and comes back. *)
LEMMA HeaderLeaves ==
    ASSUME NEW k, NEW A, NEW C, NEW c \in C, Shape(k, A), C \subseteq A, RingOf(k.R, k.L, root, C),
           NEW l, l = HeaderOut(k, c)
    PROVE  /\ Shape(l, A) /\ SameNodes(k, l) /\ l.U = k.U /\ l.D = k.D /\ l.siz = k.siz
           /\ RingOf(l.R, l.L, root, C \ {c})
           /\ l.R[c] = k.R[c] /\ l.L[c] = k.L[c]
           /\ HeaderBack(l, l, c) = k
<1> DEFINE X == {root} \cup A \cup Nodes(k)
           left == k.L[c]
           right == k.R[c]
           a == [k EXCEPT !.L[right] = left]
           R0 == k.R
           L0 == k.L
           R1 == l.R
           L1 == l.L
<1>1. Fields(k) /\ k.L \in [X -> X] /\ k.R \in [X -> X]
  BY DEF Shape
<1>2. root \notin C /\ C \cup {root} \subseteq X /\ (C \cup {root}) \cap Nodes(k) = {}
  BY NodesApart
<1>3. a = [tot |-> k.tot, L |-> [k.L EXCEPT ![right] = left], R |-> k.R, U |-> k.U, D |-> k.D,
           siz |-> k.siz, col |-> k.col, row |-> k.row]
  BY <1>1 DEF Fields
<1> HIDE DEF a
<1>4. l = [a EXCEPT !.R[left] = right]
  BY DEF a, HeaderOut
<1> HIDE DEF left, right
<1>5. l = [tot |-> k.tot, L |-> [k.L EXCEPT ![right] = left], R |-> [k.R EXCEPT ![left] = right],
           U |-> k.U, D |-> k.D, siz |-> k.siz, col |-> k.col, row |-> k.row]
  BY <1>3, <1>4
<1>6. /\ l.tot = k.tot /\ l.U = k.U /\ l.D = k.D /\ l.siz = k.siz
      /\ l.col = k.col /\ l.row = k.row
      /\ l.L = [k.L EXCEPT ![right] = left] /\ l.R = [k.R EXCEPT ![left] = right]
  BY ONLY <1>5
<1>7. R0 \in [X -> X] /\ L0 \in [X -> X] /\ left = L0[c] /\ right = R0[c] /\ RingOf(R0, L0, root, C)
  BY <1>1 DEF left, right
<1>8. R0 = k.R /\ L0 = k.L /\ R1 = l.R /\ L1 = l.L
  OBVIOUS
<1> HIDE DEF R0, L0, R1, L1
<1>9. /\ right \in C \cup {root} /\ left \in C \cup {root} /\ right # c /\ left # c
      /\ L0[right] = c /\ R0[left] = c
  BY ONLY <1>2, <1>7, c \in C, RingNeighbours
<1>10. /\ R1 \in [X -> X] /\ L1 \in [X -> X]
       /\ \A x \in X : (x # left => R1[x] = R0[x]) /\ (x # right => L1[x] = L0[x])
       /\ R1[left] = right /\ L1[right] = left
  <2>1. L1 = [L0 EXCEPT ![right] = left] /\ R1 = [R0 EXCEPT ![left] = right]
    BY <1>6, <1>8
  <2> QED
    BY <1>2, <1>7, <1>9, <2>1
<1>11. RingOf(R1, L1, root, C \ {c})
  <2>1. /\ R1[L0[c]] = R0[c] /\ L1[R0[c]] = L0[c]
        /\ \A x \in C \cup {root} : x # L0[c] => R1[x] = R0[x]
        /\ \A x \in C \cup {root} : x # R0[c] => L1[x] = L0[x]
    BY <1>2, <1>7, <1>10
  <2> QED
    BY ONLY <1>2, <1>7, <2>1, c \in C, LinkedRemove
<1>12. SameNodes(k, l)
  <2>1. \A n \in Nodes(k) : L1[n] = L0[n] /\ R1[n] = R0[n]
    BY <1>2, <1>9, <1>10
  <2> QED
    BY <1>6, <1>8, <2>1 DEF SameNodes
<1>13. Shape(l, A)
  <2>1. Nodes(l) = Nodes(k) /\ Fields(l)
    BY <1>5, <1>6 DEF Nodes, Fields
  <2> QED
    BY <1>6, <1>8, <1>10, <2>1 DEF Shape
<1>14. l.R[c] = k.R[c] /\ l.L[c] = k.L[c]
  BY <1>2, <1>8, <1>9, <1>10
<1>15. [l EXCEPT !.L[right] = c, !.R[left] = c] = k
  <2> DEFINE b == [l EXCEPT !.L[right] = c]
             e == [b EXCEPT !.R[left] = c]
  <2>1. b = [tot |-> l.tot, L |-> [L1 EXCEPT ![right] = c], R |-> R1, U |-> l.U, D |-> l.D,
             siz |-> l.siz, col |-> l.col, row |-> l.row]
    <3>1. l = [tot |-> l.tot, L |-> l.L, R |-> l.R, U |-> l.U, D |-> l.D,
               siz |-> l.siz, col |-> l.col, row |-> l.row]
      BY <1>5
    <3>2. b = [tot |-> l.tot, L |-> [l.L EXCEPT ![right] = c], R |-> l.R, U |-> l.U, D |-> l.D,
               siz |-> l.siz, col |-> l.col, row |-> l.row]
      BY ONLY <3>1
    <3> QED
      BY <1>8, <3>2
  <2> HIDE DEF b
  <2>2. e = [tot |-> l.tot, L |-> [L1 EXCEPT ![right] = c], R |-> [R1 EXCEPT ![left] = c],
             U |-> l.U, D |-> l.D, siz |-> l.siz, col |-> l.col, row |-> l.row]
    BY <2>1
  <2>3. [L1 EXCEPT ![right] = c] = L0
    <3> DEFINE g == [L1 EXCEPT ![right] = c]
    <3>1. g \in [X -> X] /\ \A x \in X : g[x] = L0[x]
      BY <1>2, <1>9, <1>10
    <3> HIDE DEF g
    <3>2. g = L0
      BY <1>7, <3>1
    <3> QED
      BY <3>2 DEF g
  <2>4. [R1 EXCEPT ![left] = c] = R0
    <3> DEFINE g == [R1 EXCEPT ![left] = c]
    <3>1. g \in [X -> X] /\ \A x \in X : g[x] = R0[x]
      BY <1>2, <1>9, <1>10
    <3> HIDE DEF g
    <3>2. g = R0
      BY <1>7, <3>1
    <3> QED
      BY <3>2 DEF g
  <2>5. e = k
    BY <1>1, <1>6, <1>8, <2>2, <2>3, <2>4 DEF Fields
  <2>6. [l EXCEPT !.L[right] = c, !.R[left] = c] = e
    BY DEF b
  <2> QED
    BY <2>5, <2>6
<1>16. HeaderBack(l, l, c) = k
  <2>1. l.R[c] = right /\ l.L[c] = left
    BY <1>14 DEF left, right
  <2> QED
    BY <1>15, <2>1 DEF HeaderBack
<1> QED
  BY <1>6, <1>8, <1>11, <1>12, <1>13, <1>14, <1>16

(* The other nodes of the first i rows of s. *)
OthersUpTo(k, s, i) == UNION {Others(k, s[q]) : q \in 1..i}

(* The rows of a column leave the other columns, each as it was found. *)
LEMMA CoverRun ==
    ASSUME NEW k, NEW A, NEW C, NEW S, NEW c \in C, Fit(k, A, C, S), Rows(k),
           NEW s, Enumerates(s, InColumn(k, S, c)), NEW f, f[0] = k,
           \A i \in 1..Len(s) : f[i] = UnlinkRow(f[i - 1], s[i]),
           \A n \in InColumn(k, S, c) :
               Others(k, n) \subseteq S /\ \A m \in Others(k, n) : k.col[m] \in C
    PROVE  \A i \in 0..Len(s) : /\ Without(k, f[i], A, C, S, OthersUpTo(k, s, i))
                                /\ i > 0 => RelinkRow(f[i], s[i]) = f[i - 1]
<1> DEFINE T == InColumn(k, S, c)
           l == Len(s)
           P(i) == /\ Without(k, f[i], A, C, S, OthersUpTo(k, s, i))
                   /\ i > 0 => RelinkRow(f[i], s[i]) = f[i - 1]
           I == {i \in Nat : i <= l => P(i)}
<1>1. /\ l \in Nat /\ \A i \in 1..l : s[i] \in T
      /\ \A i, j \in 1..l : s[i] = s[j] => i = j
      /\ T \subseteq S /\ T \subseteq Nodes(k) /\ \A n \in T : k.col[n] = c
  BY DEF Enumerates, InColumn, Fit
<1>2. \A i \in 1..l : f[i] = UnlinkRow(f[i - 1], s[i])
  BY DEF l
<1>3. \A n \in T : Others(k, n) \subseteq S /\ \A m \in Others(k, n) : k.col[m] \in C
  BY DEF T
<1> HIDE DEF T, l
<1>4. P(0)
  <2>1. OthersUpTo(k, s, 0) = {} /\ S \ {} = S
    BY DEF OthersUpTo
  <2>2. Without(k, k, A, C, S, {})
    BY <2>1 DEF Fit, Without, SameAcross
  <2> QED
    BY <2>1, <2>2
<1>5. ASSUME NEW i \in Nat, i + 1 <= l, P(i)
      PROVE  P(i + 1)
  <2> DEFINE J == OthersUpTo(k, s, i)
             n == s[i + 1]
             g == f[i]
             h == f[i + 1]
  <2>1. Without(k, g, A, C, S, J)
    BY <1>5
  <2>2. i + 1 \in 1..l /\ (i + 1) - 1 = i /\ n \in T
    BY <1>1, <1>5
  <2>3. h = UnlinkRow(g, n)
    BY <1>2, <2>2
  <2>4. OthersUpTo(k, s, i + 1) = J \cup Others(k, n)
    <3>1. 1..(i + 1) = (1..i) \cup {i + 1}
      BY <1>5
    <3> QED
      BY <3>1 DEF OthersUpTo
  <2>5. ASSUME NEW x \in Others(k, n), x \in J
        PROVE  FALSE
    <3>1. PICK q \in 1..i : x \in Others(k, s[q])
      BY <2>5 DEF OthersUpTo
    <3>2. q \in 1..l /\ q # i + 1
      BY <1>1, <1>5, <3>1
    <3>3. s[q] \in Nodes(k) /\ n \in Nodes(k) /\ k.col[s[q]] = k.col[n]
      BY <1>1, <2>2, <3>2
    <3>4. s[q] = n
      BY <3>1, <3>3, RowsMeetOnce
    <3> QED
      BY <1>1, <2>2, <3>2, <3>4
  <2>6. J \subseteq S
    <3>1. \A q \in 1..i : q \in 1..l
      BY <1>1, <1>5
    <3>2. \A q \in 1..i : Others(k, s[q]) \subseteq S
      BY <1>1, <1>3, <3>1
    <3> QED
      BY <3>2 DEF OthersUpTo
  <2> HIDE DEF J, n, g, h
  <2>7. SameAcross(k, g) /\ Shape(g, A) /\ ColumnsHold(g, C, S \ J)
    BY <2>1 DEF Without
  <2>8. Nodes(g) = Nodes(k) /\ Rows(g) /\ Others(g, n) = Others(k, n) /\ g.col = k.col
    BY <2>7, SameRows DEF SameAcross
  <2>9. Fit(g, A, C, S \ J)
    BY <2>7, <2>8 DEF Fit
  <2>10. Others(k, n) \subseteq S \ J /\ \A m \in Others(k, n) : k.col[m] \in C
    BY <1>3, <2>2, <2>5
  <2>11. n \in Nodes(g)
    BY <1>1, <2>2, <2>8
  <2>12. Without(g, h, A, C, S \ J, Others(k, n)) /\ RelinkRow(h, n) = g
    <3>1. Without(g, UnlinkRow(g, n), A, C, S \ J, Others(g, n))
          /\ RelinkRow(UnlinkRow(g, n), n) = g
      BY <2>8, <2>9, <2>10, <2>11, UnlinkRowIs
    <3> QED
      BY <2>3, <2>8, <3>1
  <2>13. Without(k, h, A, C, S, J \cup Others(k, n))
    BY <1>3, <2>1, <2>2, <2>6, <2>12, WithoutMore
  <2> QED
    BY <2>2, <2>4, <2>12, <2>13 DEF h, g, n
<1>6. I = Nat
  <2>1. 0 \in I
    BY <1>4
  <2>2. ASSUME NEW i \in Nat, i \in I
        PROVE  i + 1 \in I
    <3>1. SUFFICES ASSUME i + 1 <= l PROVE P(i + 1)
      OBVIOUS
    <3>2. P(i)
      BY <1>1, <2>2, <3>1
    <3> HIDE DEF P
    <3> QED
      BY <1>5, <3>1, <3>2
  <2> HIDE DEF I
  <2>3. Nat \subseteq I
    BY <2>1, <2>2, NatSetInduction
  <2> QED
    BY <2>3 DEF I
<1> QED
  BY <1>1, <1>6 DEF l

(* What is along the rows depends on the nodes alone. *)
LEMMA SameNodesSame ==
    ASSUME NEW k, NEW l, SameNodes(k, l), Rows(k)
    PROVE  /\ Nodes(l) = Nodes(k) /\ Rows(l)
           /\ \A n \in Nodes(k) : Others(l, n) = Others(k, n) /\ RowColumns(l, n) = RowColumns(k, n)
           /\ \A S, c : InColumn(l, S, c) = InColumn(k, S, c)
           /\ \A M : Live(l, M) = Live(k, M)
           /\ \A n \in Nodes(k) : /\ Second(l, n) = Second(k, n) /\ Third(l, n) = Third(k, n)
                                   /\ Fourth(l, n) = Fourth(k, n)
<1>1. Nodes(l) = Nodes(k)
  BY DEF SameNodes, Nodes
<1>2. ASSUME NEW n \in Nodes(k)
      PROVE  /\ Second(l, n) = Second(k, n) /\ Third(l, n) = Third(k, n)
             /\ Fourth(l, n) = Fourth(k, n)
             /\ Second(k, n) \in Nodes(k) /\ Third(k, n) \in Nodes(k) /\ Fourth(k, n) \in Nodes(k)
  <2>1. Second(k, n) \in Nodes(k) /\ Third(k, n) \in Nodes(k) /\ Fourth(k, n) \in Nodes(k)
    BY DEF Rows, RowOfFour
  <2>2. \A x \in Nodes(k) : l.R[x] = k.R[x]
    BY DEF SameNodes
  <2> QED
    BY <2>1, <2>2 DEF Second, Third, Fourth
<1>3. ASSUME NEW n \in Nodes(k), NEW a \in Nodes(k), NEW b \in Nodes(k), NEW c \in Nodes(k),
             RowOfFour(k, n, a, b, c)
      PROVE  RowOfFour(l, n, a, b, c)
  BY <1>1, <1>3 DEF SameNodes, RowOfFour
<1>4. Rows(l)
  BY <1>1, <1>2, <1>3 DEF Rows
<1>5. \A n \in Nodes(k) : Others(l, n) = Others(k, n) /\ RowColumns(l, n) = RowColumns(k, n)
  BY <1>2 DEF SameNodes, Others, RowColumns
<1>6. \A S, c : InColumn(l, S, c) = InColumn(k, S, c)
  BY DEF SameNodes, InColumn
<1>7. \A M : Live(l, M) = Live(k, M)
  BY <1>1, <1>5 DEF Live
<1> QED
  BY <1>1, <1>2, <1>4, <1>5, <1>6, <1>7

(* Again and again. *)
LEMMA SameNodesMore ==
    ASSUME NEW k, NEW l, NEW m, SameNodes(k, l), SameNodes(l, m)
    PROVE  SameNodes(k, m)
BY DEF SameNodes, Nodes

(* The row of a live node is live and in columns that are there. *)
LEMMA LiveRow ==
    ASSUME NEW k, NEW A, NEW M, Shape(k, A), Rows(k), NEW n \in Live(k, M)
    PROVE  /\ n \in Nodes(k) /\ k.col[n] \in A \ M /\ Others(k, n) \subseteq Live(k, M)
           /\ \A m \in Others(k, n) : k.col[m] \in A \ M /\ k.col[m] # k.col[n]
           /\ RowColumns(k, n) \subseteq A \ M
<1>1. n \in Nodes(k) /\ RowColumns(k, n) \cap M = {}
  BY DEF Live
<1>2. \A m \in Nodes(k) : k.col[m] \in A
  BY DEF Shape
<1>3. /\ Others(k, n) \subseteq Nodes(k)
      /\ \A m \in Others(k, n) : RowColumns(k, m) = RowColumns(k, n)
                                 /\ k.col[m] \in RowColumns(k, n) \ {k.col[n]}
  BY <1>1, OthersAre
<1>4. k.col[n] \in RowColumns(k, n)
  BY DEF RowColumns
<1>5. RowColumns(k, n) \subseteq A
  BY <1>1, <1>2, <1>3 DEF RowColumns, Others
<1> QED
  BY <1>1, <1>2, <1>3, <1>4, <1>5 DEF Live

(* The nodes that leave the other columns when column c is covered. *)
Leaving(k, M, c) == UNION {Others(k, n) : n \in InColumn(k, Live(k, M), c)}

(* The rows that a column takes out are the live ones that meet it. *)
LEMMA LiveLess ==
    ASSUME NEW k, NEW A, NEW M, Shape(k, A), Rows(k), NEW c, NEW J, J = Leaving(k, M, c)
    PROVE  \A e : e # c => InColumn(k, Live(k, M) \ J, e) = InColumn(k, Live(k, M \cup {c}), e)
<1> SUFFICES ASSUME NEW e, e # c, NEW n \in Nodes(k), k.col[n] = e
             PROVE  n \in Live(k, M) \ J <=> n \in Live(k, M \cup {c})
  BY DEF InColumn, Live
<1>1. n \in Live(k, M \cup {c}) <=> n \in Live(k, M) /\ c \notin RowColumns(k, n)
  BY DEF Live
<1>2. ASSUME n \in J
      PROVE  c \in RowColumns(k, n)
  <2>1. PICK t \in Live(k, M) : k.col[t] = c /\ n \in Others(k, t)
    BY <1>2 DEF InColumn, Leaving
  <2>2. t \in Nodes(k) /\ RowColumns(k, n) = RowColumns(k, t)
    BY <2>1, OthersAre DEF Live
  <2> QED
    BY <2>1, <2>2 DEF RowColumns
<1>3. ASSUME n \in Live(k, M), c \in RowColumns(k, n)
      PROVE  n \in J
  <2>1. PICK m \in Others(k, n) : k.col[m] = c
    BY <1>3 DEF RowColumns, Others
  <2>2. m \in Live(k, M)
    BY <1>3, LiveRow
  <2>3. Others(k, m) = (Others(k, n) \cup {n}) \ {m} /\ n # m
    BY <2>1, OthersAre
  <2> QED
    BY <2>1, <2>2, <2>3 DEF InColumn, Leaving
<1> QED
  BY <1>1, <1>2, <1>3

(* A column, as one that is being covered sees it. *)
Column(k, M, c) == InColumn(k, Live(k, M), c)

(* Nothing has changed along column c, whose nodes are C. *)
SameColumn(k, l, C, c) == \A x \in C \cup {c} : l.D[x] = k.D[x] /\ l.U[x] = k.U[x]

(* What covering column c makes of the links k: l has the rows of c no more, except in c
   itself, and gives k back. *)
Covers(k, l, A, M, c) ==
    /\ Holds(l, A, M \cup {c}) /\ SameNodes(k, l)
    /\ SameColumn(k, l, Column(k, M, c), c)
    /\ Uncover(l, c) = k

(* g puts the rows s back, one after the other; each is put back into what f was before it. *)
PutsBack(g, s) == \A i \in 1..Len(s) : g[i] = RelinkRow(g[i - 1], s[i])
IsPutBack(f, s) == \A i \in 1..Len(s) : RelinkRow(f[i], s[i]) = f[i - 1]

(* The links while the rows of a column are being taken out, and put back. *)
LEMMA RowsReturn ==
    ASSUME NEW k, NEW f, NEW g, NEW s, NEW r, Len(s) \in Nat, r = Reverse(s),
           g[0] = f[Len(s)], PutsBack(g, r), IsPutBack(f, s)
    PROVE  Len(r) = Len(s) /\ g[Len(r)] = f[0]
<1> DEFINE l == Len(s)
           I == {i \in Nat : i <= l => g[i] = f[l - i]}
<1>1. l \in Nat /\ Len(r) = l /\ \A i \in 1..l : r[i] = s[l - i + 1]
  BY DEF Reverse
<1>2. /\ \A i \in 1..l : g[i] = RelinkRow(g[i - 1], r[i])
      /\ \A i \in 1..l : RelinkRow(f[i], s[i]) = f[i - 1]
      /\ g[0] = f[l]
  BY <1>1 DEF PutsBack, IsPutBack
<1> HIDE DEF l
<1>3. 0 \in I
  BY <1>1, <1>2
<1>4. ASSUME NEW i \in Nat, i \in I
      PROVE  i + 1 \in I
  <2>1. SUFFICES ASSUME i + 1 <= l PROVE g[i + 1] = f[l - (i + 1)]
    OBVIOUS
  <2>2. /\ i + 1 \in 1..l /\ l - i \in 1..l /\ (i + 1) - 1 = i /\ l - (i + 1) + 1 = l - i
        /\ l - (i + 1) = (l - i) - 1
    BY <1>1, <2>1
  <2>3. g[i] = f[l - i]
    BY <1>1, <1>4, <2>1
  <2>4. g[i + 1] = RelinkRow(g[i], r[i + 1]) /\ r[i + 1] = s[l - i]
    BY <1>1, <1>2, <2>2
  <2>5. RelinkRow(f[l - i], s[l - i]) = f[(l - i) - 1]
    BY <1>2, <2>2
  <2> QED
    BY <2>2, <2>3, <2>4, <2>5
<1> HIDE DEF I
<1>5. Nat \subseteq I
  BY <1>3, <1>4, NatSetInduction
<1>6. g[l] = f[0]
  <2>1. l \in I /\ l - l = 0
    BY <1>1, <1>5
  <2> QED
    BY <1>1, <2>1 DEF I
<1> QED
  BY <1>1, <1>6 DEF l

(* Cover, and Uncover after it. *)
LEMMA CoverIs ==
    ASSUME NEW k, NEW A, NEW M, NEW c \in A \ M, Holds(k, A, M)
    PROVE  Covers(k, Cover(k, c), A, M, c)
<1> DEFINE C == A \ M
           S == Live(k, M)
           T == InColumn(k, S, c)
           h == HeaderOut(k, c)
           l == Cover(k, c)
<1>1. Shape(k, A) /\ Rows(k) /\ M \subseteq A /\ RingOf(k.R, k.L, root, C) /\ ColumnsHold(k, C, S)
  BY DEF Holds
<1>2. S \subseteq Nodes(k) /\ C \subseteq A /\ c \in C /\ c \notin M
  BY DEF Live
<1> HIDE DEF C, h
<1>3. /\ Shape(h, A) /\ SameNodes(k, h) /\ h.U = k.U /\ h.D = k.D /\ h.siz = k.siz
      /\ RingOf(h.R, h.L, root, C \ {c})
      /\ h.R[c] = k.R[c] /\ h.L[c] = k.L[c]
      /\ HeaderBack(h, h, c) = k
  <2>1. h = HeaderOut(k, c)
    BY DEF h
  <2>2. Shape(k, A) /\ RingOf(k.R, k.L, root, C) /\ C \subseteq A /\ c \in C
    BY <1>1, <1>2
  <2> QED
    BY ONLY <1>1, <1>2, <2>1, HeaderLeaves, SMTT(60)
<1>4. /\ Nodes(h) = Nodes(k) /\ Rows(h) /\ h.col = k.col /\ h.tot = k.tot /\ h.row = k.row
      /\ \A n \in Nodes(k) : Others(h, n) = Others(k, n)
      /\ \A X, e : InColumn(h, X, e) = InColumn(k, X, e)
  BY <1>1, <1>3, SameNodesSame DEF SameNodes
<1>5. Fit(h, A, C, S)
  <2>1. ColumnsHold(h, C, S)
    BY <1>1, <1>3, <1>4 DEF ColumnsHold
  <2> QED
    BY <1>2, <1>3, <1>4, <2>1 DEF Fit
<1>6. c \notin T /\ T \subseteq S /\ \A n \in T : k.col[n] = c
  BY <1>1, <1>2, NodesApart DEF InColumn
<1> HIDE DEF S
<1>7. PICK s : Enumerates(s, T) /\ Linked(k.D, k.U, c, s)
  BY <1>1, <1>2 DEF ColumnsHold, RingOf
<1> HIDE DEF T
<1>8. Along(k.D, c, s) /\ Len(s) \in Nat
  BY <1>7 DEF Linked, Along, Enumerates
<1>9. T \cup {c} \subseteq A \cup Nodes(k) /\ IsFiniteSet(A \cup Nodes(k))
  BY <1>1, <1>2, <1>6, NodesApart, FS_Union
<1>10. Ring(k.D, c) = s
  <2> DEFINE dir == k.D
  <2>1. Along(dir, c, s) /\ DOMAIN dir = A \cup Nodes(k)
    BY <1>1, <1>8 DEF Shape
  <2> HIDE DEF dir
  <2>2. Ring(dir, c) = s
    BY <1>6, <1>7, <1>9, <2>1, RingIs
  <2> QED
    BY <2>2 DEF dir
<1>11. PICK f : /\ f[0] = h /\ \A i \in 1..Len(s) : f[i] = UnlinkRow(f[i - 1], s[i])
                /\ l = f[Len(s)]
  <2>1. s = Ring(k.D, c) /\ Len(s) \in Nat
    BY <1>8, <1>10
  <2> QED
    BY <2>1, UnlinkRowRun DEF h
<1> HIDE DEF l
<1>12. \A n \in T : /\ n \in Nodes(k) /\ Others(k, n) \subseteq S
                    /\ \A m \in Others(k, n) : k.col[m] \in C /\ k.col[m] # c
  BY <1>1, <1>6, LiveRow DEF S, C
<1>13. \A i \in 0..Len(s) : /\ Without(h, f[i], A, C, S, OthersUpTo(h, s, i))
                            /\ i > 0 => RelinkRow(f[i], s[i]) = f[i - 1]
  <2>1. InColumn(h, S, c) = T /\ Enumerates(s, InColumn(h, S, c))
    BY <1>4, <1>7 DEF T
  <2>2. \A n \in InColumn(h, S, c) :
            Others(h, n) \subseteq S /\ \A m \in Others(h, n) : h.col[m] \in C
    BY <1>4, <1>12, <2>1
  <2> QED
    BY <1>2, <1>4, <1>5, <1>11, <2>1, <2>2, CoverRun
<1> DEFINE J == UNION {Others(k, n) : n \in T}
<1>14. Without(h, l, A, C, S, J)
  <2>1. Len(s) \in 0..Len(s)
    BY <1>8
  <2>2. OthersUpTo(h, s, Len(s)) = J
    <3>1. /\ \A q \in 1..Len(s) : s[q] \in T
          /\ \A n \in T : \E q \in 1..Len(s) : s[q] = n
      BY <1>7 DEF Enumerates
    <3>2. \A n \in T : Others(h, n) = Others(k, n)
      BY <1>4, <1>12
    <3> QED
      BY <3>1, <3>2 DEF OthersUpTo
  <2> QED
    BY <1>11, <1>13, <2>1, <2>2
<1>15. SameAcross(h, l) /\ Shape(l, A) /\ ColumnsHold(l, C, S \ J)
  BY <1>14 DEF Without
<1>16. SameNodes(k, l)
  BY <1>3, <1>4, <1>15 DEF SameAcross, SameNodes
<1>17. /\ Nodes(l) = Nodes(k) /\ Rows(l)
       /\ \A X : Live(l, X) = Live(k, X)
       /\ \A X, e : InColumn(l, X, e) = InColumn(k, X, e)
  BY <1>1, <1>16, SameNodesSame
<1>18. \A x \in T \cup {c} : l.D[x] = k.D[x] /\ l.U[x] = k.U[x]
  <2>1. \A m \in J : h.col[m] # c
    BY <1>4, <1>12
  <2>2. \A x \in T \cup {c} : HomeOf(h, C, x) = c
    <3>1. \A x \in T : x \notin C
      BY <1>1, <1>2, <1>6, NodesApart
    <3> QED
      BY <1>4, <1>6, <1>2, <3>1 DEF HomeOf
  <2>3. \A x \in T \cup {c} : x \in C \cup S
    BY <1>2, <1>6
  <2> QED
    BY <1>3, <1>14, <2>1, <2>2, <2>3 DEF Without
<1>19. Holds(l, A, M \cup {c})
  <2>1. A \ (M \cup {c}) = C \ {c} /\ M \cup {c} \subseteq A
    BY <1>1, <1>2 DEF C
  <2>2. RingOf(l.R, l.L, root, A \ (M \cup {c}))
    BY <1>3, <1>15, <2>1 DEF SameAcross
  <2>3. \A e : e # c => InColumn(k, S \ J, e) = InColumn(k, Live(k, M \cup {c}), e)
    <3>1. J = Leaving(k, M, c)
      BY DEF T, S, Leaving
    <3> HIDE DEF J
    <3>2. \A e : e # c => InColumn(k, Live(k, M) \ J, e) = InColumn(k, Live(k, M \cup {c}), e)
      BY ONLY <1>1, <3>1, LiveLess
    <3> QED
      BY <3>2 DEF S
  <2>4. \A e \in C \ {c} : InColumn(l, S \ J, e) = InColumn(l, Live(l, M \cup {c}), e)
    BY <1>17, <2>3
  <2> HIDE DEF J
  <2>6. Counted(l, A)
    <3> SUFFICES ASSUME NEW e \in A
                 PROVE  \E X : /\ X \subseteq Nodes(l) /\ \A x \in X : l.col[x] = e
                               /\ l.siz[e] = Cardinality(X)
      BY DEF Counted
    <3>1. CASE e \in C
      <4>1. l.siz[e] = Cardinality(InColumn(l, S \ J, e))
        BY <1>15, <3>1 DEF ColumnsHold
      <4>2. /\ InColumn(l, S \ J, e) \subseteq Nodes(l)
            /\ \A x \in InColumn(l, S \ J, e) : l.col[x] = e
        BY <1>2, <1>17 DEF InColumn
      <4> QED
        BY <4>1, <4>2
    <3>2. CASE e \notin C
      <4>1. l.siz[e] = k.siz[e]
        BY <1>3, <1>14, <3>2 DEF Without
      <4>2. PICK X : /\ X \subseteq Nodes(k) /\ \A x \in X : k.col[x] = e
                     /\ k.siz[e] = Cardinality(X)
        BY DEF Holds, Counted
      <4>3. l.col = k.col
        BY <1>16 DEF SameNodes
      <4> QED
        BY <1>17, <4>1, <4>2, <4>3
    <3> QED
      BY <3>1, <3>2
  <2>5. ColumnsHold(l, C \ {c}, Live(l, M \cup {c}))
    BY <1>15, <2>4 DEF ColumnsHold
  <2> QED
    BY <1>15, <1>17, <2>1, <2>2, <2>5, <2>6 DEF Holds
<1> HIDE DEF J
<1>20. Linked(l.D, l.U, c, s)
  <2> DEFINE d == k.D
             u == k.U
             d1 == l.D
             u1 == l.U
  <2>1. Linked(d, u, c, s) /\ \A x \in T \cup {c} : d1[x] = d[x] /\ u1[x] = u[x]
    BY <1>7, <1>18
  <2> HIDE DEF d, u, d1, u1
  <2>2. Linked(d1, u1, c, s)
    BY <1>6, <1>7, <2>1, LinkedSame
  <2> QED
    BY <2>2 DEF d1, u1
<1>21. Uncover(l, c) = k
  <2> DEFINE r == Reverse(s)
             d == l.D
             u == l.U
  <2>1. Linked(d, u, c, s) /\ DOMAIN u = A \cup Nodes(k)
    BY <1>15, <1>17, <1>20 DEF Shape
  <2> HIDE DEF d, u
  <2>2. Enumerates(r, T) /\ Len(r) = Len(s) /\ Along(u, c, r)
    BY <1>6, <1>7, <2>1, LinkedReverse
  <2> HIDE DEF r
  <2>3. Ring(u, c) = r
    BY <1>6, <1>9, <2>1, <2>2, RingIs
  <2>4. r = Ring(l.U, c) /\ Len(r) \in Nat
    BY <1>8, <2>2, <2>3 DEF u
  <2>5. PICK g : /\ g[0] = l /\ \A i \in 1..Len(r) : g[i] = RelinkRow(g[i - 1], r[i])
                 /\ Uncover(l, c) = HeaderBack(l, g[Len(r)], c)
    BY ONLY <2>4, <2>2, <1>8, RelinkRowRun
  <2>6. IsPutBack(f, s)
    BY <1>8, <1>13 DEF IsPutBack
  <2>7. g[Len(r)] = h
    <3>1. r = Reverse(s) /\ f[0] = h /\ Len(s) \in Nat
      BY <1>8, <1>11 DEF r
    <3>2. g[0] = f[Len(s)]
      BY <1>11, <2>5
    <3>3. PutsBack(g, r)
      BY <2>5 DEF PutsBack
    <3> QED
      BY ONLY <2>6, <3>1, <3>2, <3>3, RowsReturn
  <2>8. l.R[c] = h.R[c] /\ l.L[c] = h.L[c]
    BY <1>15 DEF SameAcross
  <2>9. HeaderBack(l, h, c) = HeaderBack(h, h, c)
    BY <2>8 DEF HeaderBack
  <2> QED
    BY <1>3, <2>5, <2>7, <2>9
<1> QED
  BY <1>16, <1>18, <1>19, <1>21 DEF Covers, SameColumn, Column, T, S, l

(* The columns that CoverRow and UncoverRow go through. *)
LEMMA ColumnsAre ==
    ASSUME NEW k, NEW A, Shape(k, A), Rows(k), NEW n \in Nodes(k)
    PROVE  /\ ColumnsAlong(k, k.R, n) =
                  <<k.col[Second(k, n)], k.col[Third(k, n)], k.col[Fourth(k, n)]>>
           /\ ColumnsAlong(k, k.L, n) =
                  <<k.col[Fourth(k, n)], k.col[Third(k, n)], k.col[Second(k, n)]>>
<1>1. /\ Ring(k.R, n) = <<Second(k, n), Third(k, n), Fourth(k, n)>>
      /\ Ring(k.L, n) = <<Fourth(k, n), Third(k, n), Second(k, n)>>
  BY RowRings
<1>2. \A x, y, z : [i \in DOMAIN <<x, y, z>> |-> k.col[<<x, y, z>>[i]]] =
                       <<k.col[x], k.col[y], k.col[z]>>
  OBVIOUS
<1> QED
  BY <1>1, <1>2 DEF ColumnsAlong

(* A row that is tried takes its columns out, and puts them back. *)
LEMMA CoverRowIs ==
    ASSUME NEW k, NEW A, NEW M, NEW n \in Nodes(k), Holds(k, A, M),
           RowColumns(k, n) \cap M = {k.col[n]}
    PROVE  /\ Holds(CoverRow(k, n), A, M \cup RowColumns(k, n))
           /\ SameNodes(k, CoverRow(k, n)) /\ UncoverRow(CoverRow(k, n), n) = k
<1> DEFINE a == k.col[Second(k, n)]
           b == k.col[Third(k, n)]
           d == k.col[Fourth(k, n)]
           k1 == Cover(k, a)
           k2 == Cover(k1, b)
           k3 == Cover(k2, d)
           Ma == M \cup {a}
           Mb == Ma \cup {b}
           Md == Mb \cup {d}
<1>1. Shape(k, A) /\ Rows(k)
  BY DEF Holds
<1>2. /\ a \in A /\ b \in A /\ d \in A
      /\ a # b /\ a # d /\ b # d /\ a # k.col[n] /\ b # k.col[n] /\ d # k.col[n]
      /\ Second(k, n) \in Nodes(k) /\ Third(k, n) \in Nodes(k) /\ Fourth(k, n) \in Nodes(k)
  <2>1. RowOfFour(k, n, Second(k, n), Third(k, n), Fourth(k, n))
    BY <1>1 DEF Rows
  <2>2. \A x \in Nodes(k) : k.col[x] \in A
    BY <1>1 DEF Shape
  <2> QED
    BY <2>1, <2>2 DEF RowOfFour
<1>3. ColumnsAlong(k, k.R, n) = <<a, b, d>>
  BY <1>1, ColumnsAre
<1>4. CoverRow(k, n) = k3
  <2> HIDE DEF a, b, d
  <2> QED
    BY <1>3, CoverThree
<1>5. a \in A \ M /\ b \in A \ Ma /\ d \in A \ Mb /\ Md = M \cup RowColumns(k, n)
  <2>1. RowColumns(k, n) = {k.col[n], a, b, d}
    BY DEF RowColumns
  <2> QED
    BY <1>2, <2>1
<1> HIDE DEF a, b, d, k1, k2, k3, Ma, Mb, Md
<1>6. Holds(k1, A, Ma) /\ SameNodes(k, k1) /\ Uncover(k1, a) = k
  BY <1>5, CoverIs DEF Covers, k1, Ma
<1>7. Holds(k2, A, Mb) /\ SameNodes(k1, k2) /\ Uncover(k2, b) = k1
  BY <1>5, <1>6, CoverIs DEF Covers, k2, Mb
<1>8. Holds(k3, A, Md) /\ SameNodes(k2, k3) /\ Uncover(k3, d) = k2
  BY <1>5, <1>7, CoverIs DEF Covers, k3, Md
<1>9. SameNodes(k, k3)
  BY <1>6, <1>7, <1>8, SameNodesMore
<1>10. ColumnsAlong(k3, k3.L, n) = <<d, b, a>>
  <2>1. Shape(k3, A) /\ Rows(k3) /\ n \in Nodes(k3) /\ k3.col = k.col
    BY <1>1, <1>8, <1>9, SameNodesSame DEF Holds, SameNodes
  <2>2. /\ Second(k3, n) = Second(k, n) /\ Third(k3, n) = Third(k, n)
        /\ Fourth(k3, n) = Fourth(k, n)
    BY <1>1, <1>9, SameNodesSame
  <2> QED
    BY <2>1, <2>2, ColumnsAre DEF a, b, d
<1>11. UncoverRow(k3, n) = k
  BY <1>6, <1>7, <1>8, <1>10, UncoverThree
<1> QED
  BY <1>4, <1>5, <1>8, <1>9, <1>11
-----------------------------------------------------------------------------
(* The search.  A frame leads from the links k, without the columns M, to the links l. *)
Level(k, l, A, M, frame) ==
    /\ frame.col \in A \ M /\ frame.node \in Column(k, M, frame.col)
    /\ l = CoverRow(Cover(k, frame.col), frame.node)

(* The columns that the rows of the first i frames meet. *)
MetUpTo(k, fr, i) == UNION {RowColumns(k, fr[j].node) : j \in 1..i}

(* The links at each of the first d frames, from b on. *)
Levels(ks, b, A, fr, d) ==
    ks[0] = b /\ \A i \in 1..d : Level(ks[i - 1], ks[i], A, MetUpTo(b, fr, i - 1), fr[i])

(* A column and a row of it are covered, and the row is taken back. *)
LEMMA LevelIs ==
    ASSUME NEW k, NEW l, NEW A, NEW M, NEW frame, Holds(k, A, M), Level(k, l, A, M, frame)
    PROVE  /\ frame.node \in Nodes(k) /\ RowColumns(k, frame.node) \cap M = {}
           /\ Covers(k, Cover(k, frame.col), A, M, frame.col)
           /\ Holds(l, A, M \cup RowColumns(k, frame.node)) /\ SameNodes(k, l)
           /\ UncoverRow(l, frame.node) = Cover(k, frame.col)
<1> DEFINE c == frame.col
           n == frame.node
           h == Cover(k, c)
<1>1. Shape(k, A) /\ Rows(k) /\ c \in A \ M
  BY DEF Holds, Level
<1>2. n \in Nodes(k) /\ k.col[n] = c /\ RowColumns(k, n) \cap M = {}
  BY DEF Level, Column, InColumn, Live
<1>3. l = CoverRow(h, n)
  BY DEF Level
<1> HIDE DEF c, n, h
<1>4. Covers(k, h, A, M, c)
  BY <1>1, CoverIs DEF h
<1>5. Holds(h, A, M \cup {c}) /\ SameNodes(k, h)
  BY <1>4 DEF Covers
<1>6. /\ n \in Nodes(h) /\ RowColumns(h, n) = RowColumns(k, n) /\ h.col[n] = c
  BY <1>1, <1>2, <1>5, SameNodesSame DEF SameNodes
<1>7. RowColumns(h, n) \cap (M \cup {c}) = {h.col[n]}
  BY <1>2, <1>6 DEF RowColumns
<1>8. /\ Holds(l, A, (M \cup {c}) \cup RowColumns(h, n)) /\ SameNodes(h, l)
      /\ UncoverRow(l, n) = h
  <2> DEFINE Mc == M \cup {c}
  <2>1. Holds(h, A, Mc) /\ RowColumns(h, n) \cap Mc = {h.col[n]}
    BY <1>5, <1>7
  <2> HIDE DEF Mc
  <2>2. Holds(l, A, Mc \cup RowColumns(h, n)) /\ SameNodes(h, l) /\ UncoverRow(l, n) = h
    BY <1>3, <1>6, <2>1, CoverRowIs
  <2> QED
    BY <2>2 DEF Mc
<1>9. (M \cup {c}) \cup RowColumns(h, n) = M \cup RowColumns(k, n)
  BY <1>2, <1>6 DEF RowColumns
<1>10. SameNodes(k, l)
  BY <1>5, <1>8, SameNodesMore
<1> QED
  BY <1>2, <1>4, <1>8, <1>9, <1>10 DEF c, n, h

(* At every frame the links are what the rows of the frames before leave. *)
LEMMA LevelsHold ==
    ASSUME NEW ks, NEW b, NEW A, NEW fr, NEW d \in Nat, Holds(b, A, {}), Levels(ks, b, A, fr, d)
    PROVE  \A i \in 0..d : Holds(ks[i], A, MetUpTo(b, fr, i)) /\ SameNodes(b, ks[i])
<1> DEFINE P(i) == Holds(ks[i], A, MetUpTo(b, fr, i)) /\ SameNodes(b, ks[i])
           I == {i \in Nat : i <= d => P(i)}
<1>1. P(0)
  <2>1. MetUpTo(b, fr, 0) = {} /\ ks[0] = b
    BY DEF MetUpTo, Levels
  <2> QED
    BY <2>1 DEF SameNodes
<1>2. ASSUME NEW i \in Nat, i + 1 <= d, P(i)
      PROVE  P(i + 1)
  <2> DEFINE k == ks[i]
             l == ks[i + 1]
             M == MetUpTo(b, fr, i)
             n == fr[i + 1].node
  <2>1. Level(k, l, A, M, fr[i + 1]) /\ Holds(k, A, M) /\ SameNodes(b, k)
    <3>1. i + 1 \in 1..d /\ (i + 1) - 1 = i
      BY <1>2
    <3> QED
      BY <1>2, <3>1 DEF Levels
  <2>2. MetUpTo(b, fr, i + 1) = M \cup RowColumns(b, n)
    <3>1. 1..(i + 1) = (1..i) \cup {i + 1}
      BY <1>2
    <3> QED
      BY <3>1 DEF MetUpTo
  <2> HIDE DEF k, l, M
  <2>3. /\ n \in Nodes(k) /\ Holds(l, A, M \cup RowColumns(k, n)) /\ SameNodes(k, l)
    BY <2>1, LevelIs
  <2>4. Nodes(k) = Nodes(b) /\ RowColumns(k, n) = RowColumns(b, n)
    <3>1. Rows(b)
      BY DEF Holds
    <3> QED
      BY <2>1, <2>3, <3>1, SameNodesSame
  <2>5. SameNodes(b, l)
    BY <2>1, <2>3, SameNodesMore
  <2> QED
    BY <2>2, <2>3, <2>4, <2>5 DEF l
<1>3. I = Nat
  <2>1. 0 \in I
    BY <1>1
  <2>2. ASSUME NEW i \in Nat, i \in I
        PROVE  i + 1 \in I
    <3>1. SUFFICES ASSUME i + 1 <= d PROVE P(i + 1)
      OBVIOUS
    <3>2. P(i)
      BY <2>2, <3>1
    <3> HIDE DEF P
    <3> QED
      BY <1>2, <3>1, <3>2
  <2> HIDE DEF I
  <2>3. Nat \subseteq I
    BY <2>1, <2>2, NatSetInduction
  <2> QED
    BY <2>3 DEF I
<1> QED
  BY <1>3

(* What is looked for: nodes, with the others of their rows, one in every column. *)
ExactCover(k, A, T) ==
    /\ T \subseteq Nodes(k) /\ \A n \in T : Others(k, n) \subseteq T
    /\ \A c \in A : \E n \in T : k.col[n] = c
    /\ \A n, m \in T : k.col[n] = k.col[m] => n = m

(* None of T is among the nodes C of column c from its header to node. *)
Tried(k, C, c, node, T) ==
    \E s : /\ Enumerates(s, C) /\ Linked(k.D, k.U, c, s)
           /\ \E p \in 0..Len(s) : At(s, c, p) = node /\ \A q \in 1..p : s[q] \notin T

(* An exact cover with the rows of the first d frames has a row in each other column. *)
LEMMA CoverMeets ==
    ASSUME NEW k, NEW A, Shape(k, A), Rows(k), NEW T, ExactCover(k, A, T),
           NEW fr, NEW d, \A j \in 1..d : fr[j].node \in T, NEW c \in A \ MetUpTo(k, fr, d)
    PROVE  \E n \in T : n \in Column(k, MetUpTo(k, fr, d), c)
<1>1. PICK n \in T : k.col[n] = c /\ n \in Nodes(k)
  BY DEF ExactCover
<1>2. ASSUME NEW e \in RowColumns(k, n), e \in MetUpTo(k, fr, d)
      PROVE  FALSE
  <2>1. PICK j \in 1..d : e \in RowColumns(k, fr[j].node)
    BY <1>2 DEF MetUpTo
  <2> DEFINE o == fr[j].node
  <2>2. o \in T /\ o \in Nodes(k)
    BY DEF ExactCover
  <2> HIDE DEF o
  <2>3. PICK x \in {n} \cup Others(k, n) : k.col[x] = e
    BY DEF RowColumns, Others
  <2>4. PICK y \in {o} \cup Others(k, o) : k.col[y] = e
    BY <2>1 DEF RowColumns, Others, o
  <2>5. x \in T /\ y \in T
    BY <1>1, <2>2, <2>3, <2>4 DEF ExactCover
  <2>6. x = y
    BY <2>3, <2>4, <2>5 DEF ExactCover
  <2>7. RowColumns(k, x) = RowColumns(k, n) /\ RowColumns(k, y) = RowColumns(k, o)
    BY <1>1, <2>2, <2>3, <2>4, OthersAre
  <2>8. c \in RowColumns(k, o)
    BY <1>1, <2>6, <2>7 DEF RowColumns
  <2> QED
    BY <2>8 DEF MetUpTo, o
<1> QED
  BY <1>1, <1>2 DEF Column, InColumn, Live

(* From the header nothing has been tried yet. *)
LEMMA TriedNone ==
    ASSUME NEW k, NEW C, NEW c, NEW T, RingOf(k.D, k.U, c, C)
    PROVE  Tried(k, C, c, c, T)
<1>1. PICK s : Enumerates(s, C) /\ Linked(k.D, k.U, c, s)
  BY DEF RingOf
<1>2. 0 \in 0..Len(s) /\ At(s, c, 0) = c /\ \A q \in 1..0 : s[q] \notin T
  BY <1>1 DEF Enumerates, At
<1> QED
  BY <1>1, <1>2 DEF Tried

(* The next node is one of the column, and those before it are the ones so far. *)
LEMMA TriedNext ==
    ASSUME NEW k, NEW C, NEW c, NEW node, NEW T, Tried(k, C, c, node, T), c \notin C,
           NEW next, next = k.D[node], next # c
    PROVE  next \in C /\ Tried(k, C, c, next, T \ {next})
<1>1. PICK s : /\ Enumerates(s, C) /\ Linked(k.D, k.U, c, s)
               /\ \E p \in 0..Len(s) : At(s, c, p) = node /\ \A q \in 1..p : s[q] \notin T
  BY DEF Tried
<1>2. PICK p \in 0..Len(s) : At(s, c, p) = node /\ \A q \in 1..p : s[q] \notin T
  BY <1>1
<1>3. next = At(s, c, p + 1)
  BY <1>1, <1>2 DEF Linked
<1>4. Len(s) \in Nat /\ \A i \in 1..Len(s) : s[i] \in C
  BY <1>1 DEF Enumerates
<1>5. p + 1 \in 1..Len(s) /\ next = s[p + 1]
  BY <1>3, <1>4 DEF At
<1>6. \A q \in 1..(p + 1) : s[q] \notin T \ {next}
  BY <1>2, <1>4, <1>5
<1>7. p + 1 \in 0..Len(s)
  BY <1>5
<1> QED
  BY <1>1, <1>3, <1>4, <1>5, <1>6, <1>7 DEF Tried

(* Once the header is met again, all have been tried. *)
LEMMA TriedAll ==
    ASSUME NEW k, NEW C, NEW c, NEW node, NEW T, Tried(k, C, c, node, T), c \notin C,
           k.D[node] = c
    PROVE  \A n \in C : n \notin T
<1>1. PICK s : /\ Enumerates(s, C) /\ Linked(k.D, k.U, c, s)
               /\ \E p \in 0..Len(s) : At(s, c, p) = node /\ \A q \in 1..p : s[q] \notin T
  BY DEF Tried
<1>2. PICK p \in 0..Len(s) : At(s, c, p) = node /\ \A q \in 1..p : s[q] \notin T
  BY <1>1
<1>3. c = At(s, c, p + 1)
  BY <1>1, <1>2 DEF Linked
<1>4. /\ Len(s) \in Nat /\ \A i \in 1..Len(s) : s[i] \in C
      /\ \A n \in C : \E i \in 1..Len(s) : s[i] = n
  BY <1>1 DEF Enumerates
<1>5. p = Len(s)
  BY <1>3, <1>4 DEF At
<1> QED
  BY <1>2, <1>4, <1>5

(* What has been tried last is in the column. *)
LEMMA TriedIsThere ==
    ASSUME NEW k, NEW C, NEW c, NEW node, NEW T, Tried(k, C, c, node, T)
    PROVE  node \in C \cup {c}
<1>1. PICK s : /\ Enumerates(s, C)
               /\ \E p \in 0..Len(s) : At(s, c, p) = node /\ \A q \in 1..p : s[q] \notin T
  BY DEF Tried
<1>2. \A i \in 1..Len(s) : s[i] \in C
  BY <1>1 DEF Enumerates
<1> QED
  BY <1>1, <1>2 DEF At

(* The rows of the frames before the i-th are in T. *)
HasRows(T, fr, i) == \A j \in 1..(i - 1) : fr[j].node \in T

(* What frame i has tried before the row that it has now: none of it is in the cover T,
   if the rows of the frames before are. *)
TriedAt(k, b, fr, i, T) ==
    Tried(k, Column(b, MetUpTo(b, fr, i - 1), fr[i].col), fr[i].col, fr[i].node, T)

Missed(ks, b, A, fr, d) ==
    \A T : ExactCover(b, A, T) =>
        \A i \in 1..d : HasRows(T, fr, i) => TriedAt(ks[i - 1], b, fr, i, T \ {fr[i].node})

(* No exact cover has the rows of all frames. *)
Hopeless(b, A, fr) == \A T : ExactCover(b, A, T) => ~HasRows(T, fr, Len(fr) + 1)

FrameTypes(b, A, fr) == fr \in Seq([col : A, node : A \cup Nodes(b)])

(* The search when it is entered with the links l, *)
Entered(ks, l, b, A, fr) ==
    /\ FrameTypes(b, A, fr) /\ l = ks[Len(fr)]
    /\ Levels(ks, b, A, fr, Len(fr)) /\ Missed(ks, b, A, fr, Len(fr))

(* and when the next row of the innermost column is to be tried. *)
Trying(ks, l, b, A, fr) ==
    LET d == Len(fr)
        c == fr[d].col
    IN /\ FrameTypes(b, A, fr) /\ d > 0
       /\ Levels(ks, b, A, fr, d - 1) /\ Missed(ks, b, A, fr, d - 1)
       /\ c \in A \ MetUpTo(b, fr, d - 1) /\ l = Cover(ks[d - 1], c)
       /\ TriedAt(ks[d - 1], b, fr, d, {})
       /\ \A T : ExactCover(b, A, T) /\ HasRows(T, fr, d) => TriedAt(ks[d - 1], b, fr, d, T)

(* All this is about the frames that there are. *)
SameUpTo(fr, gr, d) == \A i \in 1..d : gr[i] = fr[i]

(* It stays the same when only later frames differ. *)
LEMMA SameFrames ==
    ASSUME NEW fr, NEW gr, NEW d \in Nat, SameUpTo(fr, gr, d)
    PROVE  /\ \A b : \A i \in 0..d : MetUpTo(b, gr, i) = MetUpTo(b, fr, i)
           /\ \A T : \A i \in 1..(d + 1) : HasRows(T, gr, i) <=> HasRows(T, fr, i)
           /\ \A k, b, T : \A i \in 1..d : TriedAt(k, b, gr, i, T) <=> TriedAt(k, b, fr, i, T)
           /\ \A ks, b, A : Levels(ks, b, A, fr, d) => Levels(ks, b, A, gr, d)
           /\ \A ks, b, A : Missed(ks, b, A, fr, d) => Missed(ks, b, A, gr, d)
<1>1. \A b : \A i \in 0..d : MetUpTo(b, gr, i) = MetUpTo(b, fr, i)
  BY DEF MetUpTo, SameUpTo
<1>2. \A T : \A i \in 1..(d + 1) : HasRows(T, gr, i) <=> HasRows(T, fr, i)
  BY DEF HasRows, SameUpTo
<1>3. \A i \in 1..d : i - 1 \in 0..d /\ i \in 1..(d + 1)
  OBVIOUS
<1>4. \A k, b, T : \A i \in 1..d : TriedAt(k, b, gr, i, T) <=> TriedAt(k, b, fr, i, T)
  BY <1>1, <1>3 DEF TriedAt, SameUpTo
<1>5. \A ks, b, A : Levels(ks, b, A, fr, d) => Levels(ks, b, A, gr, d)
  BY <1>1, <1>3 DEF Levels, SameUpTo
<1>6. \A ks, b, A : Missed(ks, b, A, fr, d) => Missed(ks, b, A, gr, d)
  BY <1>2, <1>3, <1>4 DEF Missed, SameUpTo
<1> QED
  BY <1>1, <1>2, <1>4, <1>5, <1>6

(* The column of a node is not itself one of its nodes. *)
LEMMA ColumnIs ==
    ASSUME NEW b, NEW A, Holds(b, A, {}), NEW k, SameNodes(b, k), NEW M, NEW c \in A
    PROVE  /\ Column(k, M, c) = Column(b, M, c) /\ Column(b, M, c) \subseteq Nodes(b)
           /\ c \notin Column(b, M, c)
<1>1. Shape(b, A) /\ Rows(b)
  BY DEF Holds
<1>2. Column(k, M, c) = Column(b, M, c)
  BY <1>1, SameNodesSame DEF Column
<1>3. Column(b, M, c) \subseteq Nodes(b)
  BY DEF Column, InColumn, Live
<1> QED
  BY <1>1, <1>2, <1>3, NodesApart

(* A column is chosen. *)
LEMMA ChooseIsRight ==
    ASSUME NEW ks, NEW l, NEW b, NEW A, NEW fr, Holds(b, A, {}), Entered(ks, l, b, A, fr),
           NEW c \in A \ MetUpTo(b, fr, Len(fr)),
           NEW gr, gr = Append(fr, [col |-> c, node |-> c])
    PROVE  Trying(ks, Cover(l, c), b, A, gr)
<1> DEFINE d == Len(fr)
           k == ks[d]
           M == MetUpTo(b, fr, d)
           C == Column(b, M, c)
<1>1. /\ fr \in Seq([col : A, node : A \cup Nodes(b)]) /\ l = ks[d]
      /\ Levels(ks, b, A, fr, d) /\ Missed(ks, b, A, fr, d)
  BY DEF Entered, FrameTypes
<1>2. /\ d \in Nat /\ Len(gr) = d + 1 /\ gr[d + 1] = [col |-> c, node |-> c]
      /\ \A i \in 1..d : gr[i] = fr[i]
      /\ gr \in Seq([col : A, node : A \cup Nodes(b)])
  BY <1>1
<1> HIDE DEF d
<1>3. /\ Levels(ks, b, A, gr, d) /\ Missed(ks, b, A, gr, d) /\ MetUpTo(b, gr, d) = M
  <2>1. SameUpTo(fr, gr, d) /\ d \in 0..d
    BY <1>2 DEF SameUpTo
  <2> QED
    BY <1>1, <1>2, <2>1, SameFrames DEF M
<1>4. Holds(k, A, M) /\ SameNodes(b, k)
  BY <1>1, <1>2, LevelsHold
<1>5. RingOf(k.D, k.U, c, C)
  <2>1. RingOf(k.D, k.U, c, Column(k, M, c))
    BY <1>4 DEF Holds, ColumnsHold, Column, d
  <2>2. Column(k, M, c) = C
    BY <1>4, ColumnIs
  <2> QED
    BY <2>1, <2>2
<1> HIDE DEF k, M, C
<1>6. \A T : TriedAt(k, b, gr, d + 1, T)
  <2>1. (d + 1) - 1 = d /\ gr[d + 1].col = c /\ gr[d + 1].node = c
    BY <1>2
  <2>2. \A T : Tried(k, C, c, c, T)
    BY <1>5, TriedNone
  <2> QED
    BY <1>3, <2>1, <2>2 DEF TriedAt, C
<1>7. (d + 1) - 1 = d /\ d + 1 > 0 /\ gr[d + 1].col = c /\ c \in A \ M /\ l = k
  BY <1>1, <1>2 DEF M, d, k
<1> QED
  BY <1>2, <1>3, <1>6, <1>7 DEF Trying, FrameTypes, k

(* What Trying says of the column, and the links that it was covered in. *)
WhileTrying(ks, l, b, A, fr, d, k, M, c, n, C) ==
    /\ d \in Nat \ {0} /\ fr \in Seq([col : A, node : A \cup Nodes(b)])
    /\ fr[d] \in [col : A, node : A \cup Nodes(b)]
    /\ Levels(ks, b, A, fr, d - 1) /\ Missed(ks, b, A, fr, d - 1)
    /\ Holds(k, A, M) /\ SameNodes(b, k) /\ l = Cover(k, c) /\ Covers(k, l, A, M, c)
    /\ c \in A \ M /\ c \notin C /\ C = Column(k, M, c) /\ C \subseteq Nodes(b)
    /\ Tried(k, C, c, n, {}) /\ l.D[n] = k.D[n]
    /\ \A T : ExactCover(b, A, T) /\ HasRows(T, fr, d) => Tried(k, C, c, n, T)

(* That is what it says. *)
LEMMA TryingMeans ==
    ASSUME NEW ks, NEW l, NEW b, NEW A, NEW fr, Holds(b, A, {}), Trying(ks, l, b, A, fr),
           NEW d, d = Len(fr), NEW k, k = ks[d - 1], NEW M, M = MetUpTo(b, fr, d - 1),
           NEW c, c = fr[d].col, NEW n, n = fr[d].node, NEW C, C = Column(b, M, c)
    PROVE  WhileTrying(ks, l, b, A, fr, d, k, M, c, n, C)
<1>1. /\ fr \in Seq([col : A, node : A \cup Nodes(b)]) /\ d > 0
      /\ Levels(ks, b, A, fr, d - 1) /\ Missed(ks, b, A, fr, d - 1)
      /\ c \in A \ M /\ l = Cover(k, c)
      /\ TriedAt(k, b, fr, d, {})
      /\ \A T : ExactCover(b, A, T) /\ HasRows(T, fr, d) => TriedAt(k, b, fr, d, T)
  BY DEF Trying, FrameTypes
<1>2. d \in Nat \ {0} /\ fr[d] \in [col : A, node : A \cup Nodes(b)]
  <2> DEFINE F == [col : A, node : A \cup Nodes(b)]
  <2>1. fr \in Seq(F) /\ d > 0
    BY <1>1
  <2> HIDE DEF F
  <2>2. d \in Nat \ {0} /\ d \in 1..Len(fr)
    BY <2>1
  <2>3. fr[d] \in F
    BY <2>1, <2>2
  <2> QED
    BY <2>2, <2>3 DEF F
<1>3. Holds(k, A, M) /\ SameNodes(b, k)
  <2>1. d - 1 \in Nat /\ d - 1 \in 0..(d - 1)
    BY <1>2
  <2> QED
    BY <1>1, <2>1, LevelsHold
<1>4. c \notin C /\ C = Column(k, M, c) /\ C \subseteq Nodes(b)
  BY <1>1, <1>3, ColumnIs
<1>5. \A T : TriedAt(k, b, fr, d, T) <=> Tried(k, C, c, n, T)
  BY DEF TriedAt
<1>6. Covers(k, l, A, M, c)
  BY <1>1, <1>3, CoverIs
<1>7. Tried(k, C, c, n, {})
  BY <1>1, <1>5
<1>8. l.D[n] = k.D[n]
  <2>1. SameColumn(k, l, C, c)
    BY <1>4, <1>6 DEF Covers
  <2>2. n \in C \cup {c}
    BY ONLY <1>7, TriedIsThere
  <2> QED
    BY <2>1, <2>2 DEF SameColumn
<1> QED
  BY <1>1, <1>2, <1>3, <1>4, <1>5, <1>6, <1>7, <1>8 DEF WhileTrying

(* A row is tried. *)
LEMMA TryIsRight ==
    ASSUME NEW ks, NEW l, NEW b, NEW A, NEW fr, Holds(b, A, {}), Trying(ks, l, b, A, fr),
           NEW next, next = l.D[fr[Len(fr)].node], next # fr[Len(fr)].col,
           NEW gr, gr = [fr EXCEPT ![Len(fr)] = [fr[Len(fr)] EXCEPT !.node = next]]
    PROVE  next \in Nodes(b) /\ \E ms : Entered(ms, CoverRow(l, next), b, A, gr)
<1> DEFINE d == Len(fr)
           k == ks[d - 1]
           M == MetUpTo(b, fr, d - 1)
           c == fr[d].col
           n == fr[d].node
           C == Column(b, M, c)
           ms == [i \in 0..d |-> IF i = d THEN CoverRow(l, next) ELSE ks[i]]
<1>1. /\ d \in Nat \ {0} /\ fr \in Seq([col : A, node : A \cup Nodes(b)])
      /\ fr[d] \in [col : A, node : A \cup Nodes(b)]
      /\ Levels(ks, b, A, fr, d - 1) /\ Missed(ks, b, A, fr, d - 1)
      /\ l = Cover(k, c)
      /\ c \in A \ M /\ c \notin C /\ C = Column(k, M, c) /\ C \subseteq Nodes(b)
      /\ Tried(k, C, c, n, {}) /\ l.D[n] = k.D[n]
      /\ \A T : ExactCover(b, A, T) /\ HasRows(T, fr, d) => Tried(k, C, c, n, T)
  <2>1. WhileTrying(ks, l, b, A, fr, d, k, M, c, n, C)
    BY TryingMeans
  <2> QED
    BY ONLY <2>1 DEF WhileTrying
<1>2. /\ Len(gr) = d /\ gr[d].col = c /\ gr[d].node = next
      /\ \A i \in 1..(d - 1) : gr[i] = fr[i]
  BY <1>1
<1> HIDE DEF d
<1>3. SameUpTo(fr, gr, d - 1)
  BY <1>2 DEF SameUpTo
<1>4. /\ Levels(ks, b, A, gr, d - 1) /\ Missed(ks, b, A, gr, d - 1)
      /\ MetUpTo(b, gr, d - 1) = M /\ \A T : HasRows(T, gr, d) <=> HasRows(T, fr, d)
  <2> DEFINE e == d - 1
  <2>1. e \in Nat /\ e \in 0..e /\ d \in 1..(e + 1)
    BY <1>1
  <2>2. SameUpTo(fr, gr, e) /\ Levels(ks, b, A, fr, e) /\ Missed(ks, b, A, fr, e)
    BY <1>1, <1>3
  <2>3. M = MetUpTo(b, fr, e)
    BY DEF M
  <2> HIDE DEF e, M
  <2>4. /\ Levels(ks, b, A, gr, e) /\ Missed(ks, b, A, gr, e)
        /\ MetUpTo(b, gr, e) = MetUpTo(b, fr, e)
        /\ \A T : HasRows(T, gr, d) <=> HasRows(T, fr, d)
    BY ONLY <2>1, <2>2, SameFrames
  <2> QED
    BY <2>3, <2>4 DEF e
<1>5. next = k.D[n] /\ next # c
  BY <1>1 DEF d
<1> HIDE DEF k, M, c, n, C
<1>6. next \in C /\ \A T : Tried(k, C, c, n, T) => Tried(k, C, c, next, T \ {next})
  BY <1>1, <1>5, TriedNext
<1>7. /\ ms[d] = CoverRow(l, next) /\ ms[d - 1] = k
      /\ \A i \in 0..(d - 1) : ms[i] = ks[i]
  BY <1>1 DEF k
<1> HIDE DEF ms
<1>8. FrameTypes(b, A, gr)
  <2>1. [fr[d] EXCEPT !.node = next] \in [col : A, node : A \cup Nodes(b)]
    BY <1>1, <1>6
  <2> QED
    BY <1>1, <2>1 DEF FrameTypes, d
<1>9. Levels(ms, b, A, gr, d)
  <2>1. Level(ms[d - 1], ms[d], A, MetUpTo(b, gr, d - 1), gr[d])
    BY <1>1, <1>2, <1>4, <1>6, <1>7 DEF Level
  <2>2. ms[0] = b
    BY <1>1, <1>4, <1>7 DEF Levels
  <2>3. ASSUME NEW i \in 1..d
        PROVE  Level(ms[i - 1], ms[i], A, MetUpTo(b, gr, i - 1), gr[i])
    <3>1. CASE i = d
      BY <2>1, <3>1
    <3>2. CASE i # d
      <4>1. i \in 1..(d - 1) /\ i \in 0..(d - 1) /\ i - 1 \in 0..(d - 1)
        BY <1>1, <3>2
      <4>2. Level(ks[i - 1], ks[i], A, MetUpTo(b, gr, i - 1), gr[i])
        BY <1>4, <4>1 DEF Levels
      <4> QED
        BY <1>7, <4>1, <4>2
    <3> QED
      BY <3>1, <3>2
  <2> QED
    BY <2>2, <2>3 DEF Levels
<1>10. Missed(ms, b, A, gr, d)
  <2> SUFFICES ASSUME NEW T, ExactCover(b, A, T), NEW i \in 1..d, HasRows(T, gr, i)
               PROVE  TriedAt(ms[i - 1], b, gr, i, T \ {gr[i].node})
    BY DEF Missed
  <2>1. CASE i = d
    <3>1. Tried(k, C, c, next, T \ {next})
      BY <1>1, <1>4, <1>6, <2>1
    <3> QED
      BY <1>2, <1>4, <1>7, <2>1, <3>1 DEF TriedAt, C
  <2>2. CASE i # d
    <3>1. i \in 1..(d - 1) /\ i - 1 \in 0..(d - 1)
      BY <1>1, <2>2
    <3>2. TriedAt(ks[i - 1], b, gr, i, T \ {gr[i].node})
      BY <1>4, <3>1 DEF Missed
    <3> QED
      BY <1>7, <3>1, <3>2
  <2> QED
    BY <2>1, <2>2
<1>11. Entered(ms, CoverRow(l, next), b, A, gr)
  BY <1>2, <1>7, <1>8, <1>9, <1>10 DEF Entered
<1> QED
  BY <1>1, <1>6, <1>11

(* The last row of the column has been tried. *)
LEMMA GiveUpIsRight ==
    ASSUME NEW ks, NEW l, NEW b, NEW A, NEW fr, Holds(b, A, {}), Trying(ks, l, b, A, fr),
           l.D[fr[Len(fr)].node] = fr[Len(fr)].col, NEW gr, gr = Front(fr)
    PROVE  Entered(ks, Uncover(l, fr[Len(fr)].col), b, A, gr) /\ Hopeless(b, A, gr)
<1> DEFINE d == Len(fr)
           e == d - 1
           k == ks[d - 1]
           M == MetUpTo(b, fr, d - 1)
           c == fr[d].col
           n == fr[d].node
           C == Column(b, M, c)
<1>1. /\ d \in Nat \ {0} /\ fr \in Seq([col : A, node : A \cup Nodes(b)])
      /\ Levels(ks, b, A, fr, d - 1) /\ Missed(ks, b, A, fr, d - 1)
      /\ Covers(k, l, A, M, c)
      /\ c \in A \ M /\ c \notin C /\ l.D[n] = k.D[n]
      /\ \A T : ExactCover(b, A, T) /\ HasRows(T, fr, d) => Tried(k, C, c, n, T)
  <2>1. WhileTrying(ks, l, b, A, fr, d, k, M, c, n, C)
    BY TryingMeans
  <2> QED
    BY ONLY <2>1 DEF WhileTrying
<1>2. /\ Len(gr) = e /\ e \in Nat /\ d = e + 1 /\ \A i \in 1..e : gr[i] = fr[i]
      /\ gr \in Seq([col : A, node : A \cup Nodes(b)])
  <2> DEFINE F == [col : A, node : A \cup Nodes(b)]
  <2>1. fr \in Seq(F) /\ d \in Nat \ {0} /\ gr = [i \in 1..(Len(fr) - 1) |-> fr[i]]
    <3>1. fr \in Seq(F) /\ d \in Nat \ {0}
      BY <1>1
    <3>2. gr = [i \in 1..(Len(fr) - 1) |-> fr[i]]
      BY ONLY gr = Front(fr) DEF Front
    <3> QED
      BY <3>1, <3>2
  <2> HIDE DEF F, d
  <2>2. Len(gr) = e /\ e \in Nat /\ d = e + 1 /\ \A i \in 1..e : gr[i] = fr[i]
    BY <2>1 DEF d
  <2>3. \A i \in 1..d : fr[i] \in F
    BY <2>1 DEF d
  <2>4. gr \in Seq(F)
    BY <2>1, <2>2, <2>3 DEF d
  <2> QED
    BY <2>2, <2>4 DEF F
<1>3. SameUpTo(fr, gr, e)
  BY <1>2 DEF SameUpTo
<1>4. l.D[n] = c
  BY DEF n, c, d
<1> HIDE DEF d, e
<1>5. Levels(ks, b, A, fr, e) /\ Missed(ks, b, A, fr, e) /\ k = ks[e] /\ M = MetUpTo(b, fr, e)
  BY <1>1 DEF e
<1> HIDE DEF k, M, c, n, C
<1>6. /\ Levels(ks, b, A, gr, e) /\ Missed(ks, b, A, gr, e)
      /\ \A T : HasRows(T, gr, e + 1) <=> HasRows(T, fr, d)
  <2>1. e + 1 \in 1..(e + 1)
    BY <1>2
  <2> QED
    BY <1>2, <1>3, <1>5, <2>1, SameFrames
<1>7. Uncover(l, c) = ks[Len(gr)]
  BY <1>1, <1>2, <1>5 DEF Covers
<1>8. Entered(ks, Uncover(l, c), b, A, gr)
  BY <1>2, <1>6, <1>7 DEF Entered, FrameTypes
<1>9. ASSUME NEW T, ExactCover(b, A, T), HasRows(T, gr, Len(gr) + 1)
      PROVE  FALSE
  <2>1. HasRows(T, fr, d) /\ Tried(k, C, c, n, T)
    BY <1>1, <1>2, <1>6, <1>9
  <2>2. \A m \in C : m \notin T
    <3>1. k.D[n] = c /\ c \notin C /\ Tried(k, C, c, n, T)
      BY <1>1, <1>4, <2>1
    <3> QED
      BY ONLY <3>1, TriedAll
  <2>3. \A j \in 1..e : fr[j].node \in T
    BY <2>1 DEF HasRows, e
  <2>4. Shape(b, A) /\ Rows(b)
    BY DEF Holds
  <2>5. \E m \in T : m \in Column(b, MetUpTo(b, fr, e), c)
    BY <1>1, <1>5, <1>9, <2>3, <2>4, CoverMeets
  <2> QED
    BY <1>5, <2>2, <2>5 DEF C
<1>10. Hopeless(b, A, gr)
  BY <1>9 DEF Hopeless
<1> QED
  BY <1>8, <1>10 DEF c, d

(* The row of the innermost frame is taken back. *)
LEMMA TakeBackIsRight ==
    ASSUME NEW ks, NEW l, NEW b, NEW A, NEW fr, Holds(b, A, {}), Entered(ks, l, b, A, fr),
           Hopeless(b, A, fr), Len(fr) > 0
    PROVE  Trying(ks, UncoverRow(l, fr[Len(fr)].node), b, A, fr)
<1> DEFINE d == Len(fr)
           k == ks[d - 1]
           M == MetUpTo(b, fr, d - 1)
           c == fr[d].col
           n == fr[d].node
           C == Column(b, M, c)
<1>1. /\ fr \in Seq([col : A, node : A \cup Nodes(b)]) /\ l = ks[d]
      /\ Levels(ks, b, A, fr, d) /\ Missed(ks, b, A, fr, d)
  BY DEF Entered, FrameTypes
<1>2. d \in Nat \ {0}
  BY <1>1
<1> HIDE DEF d
<1>3. Levels(ks, b, A, fr, d - 1) /\ Missed(ks, b, A, fr, d - 1) /\ Level(k, l, A, M, fr[d])
  <2>1. d \in 1..d /\ \A i \in 1..(d - 1) : i \in 1..d
    BY <1>2
  <2>2. Level(k, l, A, M, fr[d])
    BY <1>1, <2>1 DEF Levels
  <2> HIDE DEF k, M
  <2>3. Levels(ks, b, A, fr, d - 1)
    BY <1>1, <2>1 DEF Levels
  <2>4. Missed(ks, b, A, fr, d - 1)
    BY <1>1, <2>1 DEF Missed
  <2> QED
    BY <2>2, <2>3, <2>4
<1>4. Holds(k, A, M) /\ SameNodes(b, k)
  <2>1. d - 1 \in Nat /\ d - 1 \in 0..(d - 1)
    BY <1>2
  <2> QED
    BY <1>3, <2>1, LevelsHold
<1>5. c \in A \ M /\ n \in Column(k, M, c)
  BY <1>3 DEF Level
<1>6. UncoverRow(l, n) = Cover(k, c)
  <2> DEFINE f == fr[d]
  <2>1. Holds(k, A, M) /\ Level(k, l, A, M, f)
    BY <1>3, <1>4
  <2> HIDE DEF f, k, M
  <2>2. UncoverRow(l, f.node) = Cover(k, f.col)
    BY ONLY <2>1, LevelIs, ZenonT(60)
  <2> QED
    BY <2>2 DEF f
<1>7. C = Column(k, M, c)
  BY <1>4, <1>5, ColumnIs
<1>8. \A T : TriedAt(k, b, fr, d, T) <=> Tried(k, C, c, n, T)
  BY DEF TriedAt
<1>9. RingOf(k.D, k.U, c, C)
  BY <1>4, <1>5, <1>7 DEF Holds, ColumnsHold, Column
<1> HIDE DEF k, M, c, n, C
<1>10. Tried(k, C, c, n, {})
  <2>1. PICK s : Enumerates(s, C) /\ Linked(k.D, k.U, c, s)
    BY <1>9 DEF RingOf
  <2>2. PICK p \in 1..Len(s) : s[p] = n
    BY <1>5, <1>7, <2>1 DEF Enumerates
  <2>3. p \in 0..Len(s) /\ At(s, c, p) = n /\ \A q \in 1..p : s[q] \notin {}
    BY <2>2 DEF At
  <2> QED
    BY <2>1, <2>3 DEF Tried
<1>11. ASSUME NEW T, ExactCover(b, A, T), HasRows(T, fr, d)
       PROVE  TriedAt(k, b, fr, d, T)
  <2>1. TriedAt(k, b, fr, d, T \ {n})
    <3>1. d \in 1..d
      BY <1>2
    <3>2. TriedAt(ks[d - 1], b, fr, d, T \ {fr[d].node})
      BY <1>1, <1>11, <3>1 DEF Missed
    <3> QED
      BY <3>2 DEF k, n
  <2>2. ~HasRows(T, fr, d + 1)
    BY <1>11 DEF Hopeless, d
  <2>3. n \notin T
    BY <1>2, <1>11, <2>2 DEF HasRows, n
  <2>4. T \ {n} = T
    BY <2>3
  <2> QED
    BY <2>1, <2>4
<1>12. /\ FrameTypes(b, A, fr) /\ d > 0 /\ c \in A \ M /\ TriedAt(k, b, fr, d, {})
  BY <1>2, <1>5, <1>8, <1>10 DEF Entered
<1> QED
  BY <1>3, <1>6, <1>11, <1>12 DEF Trying, c, n, k, M, d

(* Once no column is left, the rows of the frames are an exact cover. *)
Chosen(b, fr) == UNION {{fr[i].node} \cup Others(b, fr[i].node) : i \in 1..Len(fr)}

(* The frames have a row in every column by then, and no two in the same. *)
LEMMA NothingLeftIsCovered ==
    ASSUME NEW ks, NEW l, NEW b, NEW A, NEW fr, Holds(b, A, {}), Entered(ks, l, b, A, fr),
           l.R[root] = root
    PROVE  ExactCover(b, A, Chosen(b, fr))
<1> DEFINE d == Len(fr)
           M == MetUpTo(b, fr, d)
           n(i) == fr[i].node
<1>1. /\ d \in Nat /\ l = ks[d] /\ Levels(ks, b, A, fr, d)
  BY DEF Entered, FrameTypes
<1>2. Shape(b, A) /\ Rows(b)
  BY DEF Holds
<1> HIDE DEF d
<1>3. \A i \in 0..d : Holds(ks[i], A, MetUpTo(b, fr, i)) /\ SameNodes(b, ks[i])
  BY <1>1, LevelsHold
<1>4. ASSUME NEW i \in 1..d
      PROVE  n(i) \in Nodes(b) /\ RowColumns(b, n(i)) \cap MetUpTo(b, fr, i - 1) = {}
  <2>1. i - 1 \in 0..d /\ Level(ks[i - 1], ks[i], A, MetUpTo(b, fr, i - 1), fr[i])
    BY <1>1 DEF Levels
  <2> DEFINE k == ks[i - 1]
             X == MetUpTo(b, fr, i - 1)
  <2>2. Holds(k, A, X) /\ SameNodes(b, k) /\ Level(k, ks[i], A, X, fr[i])
    BY <1>3, <2>1
  <2> HIDE DEF k, X
  <2>3. n(i) \in Nodes(k) /\ RowColumns(k, n(i)) \cap X = {}
    BY <2>2, LevelIs
  <2>4. n(i) \in Nodes(b) /\ RowColumns(k, n(i)) = RowColumns(b, n(i))
    BY <1>2, <2>2, <2>3, SameNodesSame
  <2> QED
    BY <2>3, <2>4 DEF X
<1>5. A = M
  <2>1. Holds(l, A, M)
    BY <1>1, <1>3
  <2>2. RingOf(l.R, l.L, root, A \ M) /\ M \subseteq A
    BY <2>1 DEF Holds
  <2>3. root \notin A
    BY <1>2, NodesApart
  <2> HIDE DEF M
  <2>4. PICK s : Enumerates(s, A \ M) /\ Linked(l.R, l.L, root, s)
    BY <2>2 DEF RingOf
  <2>5. Len(s) \in Nat /\ At(s, root, 0) = root /\ At(s, root, 1) = root
    <3>1. Len(s) \in Nat
      BY <2>4 DEF Enumerates
    <3>2. At(s, root, 0) = root
      BY <3>1 DEF At
    <3>3. l.R[At(s, root, 0)] = At(s, root, 0 + 1)
      BY <2>4, <3>1 DEF Linked
    <3> QED
      BY <3>1, <3>2, <3>3
  <2>6. Len(s) = 0
    BY <2>3, <2>4, <2>5 DEF At, Enumerates
  <2> QED
    BY <2>2, <2>4, <2>6 DEF Enumerates
<1>6. ASSUME NEW x \in Chosen(b, fr)
      PROVE  \E i \in 1..d : /\ x \in {n(i)} \cup Others(b, n(i)) /\ x \in Nodes(b)
                             /\ RowColumns(b, x) = RowColumns(b, n(i))
                             /\ b.col[x] \in RowColumns(b, n(i))
                             /\ {x} \cup Others(b, x) = {n(i)} \cup Others(b, n(i))
  <2>1. PICK i \in 1..d : x \in {n(i)} \cup Others(b, n(i))
    BY DEF Chosen, d
  <2>2. n(i) \in Nodes(b)
    BY <1>4
  <2> HIDE DEF n
  <2>3. CASE x = n(i)
    BY <2>1, <2>2, <2>3 DEF RowColumns
  <2>4. CASE x \in Others(b, n(i))
    <3>1. /\ Others(b, x) = (Others(b, n(i)) \cup {n(i)}) \ {x}
          /\ RowColumns(b, x) = RowColumns(b, n(i)) /\ b.col[x] \in RowColumns(b, n(i))
          /\ x \in Nodes(b) /\ x # n(i)
      BY <1>2, <2>2, <2>4, OthersAre
    <3>2. {x} \cup Others(b, x) = {n(i)} \cup Others(b, n(i))
      BY <2>4, <3>1
    <3> QED
      BY <2>1, <3>1, <3>2
  <2> QED
    BY <2>1, <2>3, <2>4
<1>7. ASSUME NEW c \in A
      PROVE  \E x \in Chosen(b, fr) : b.col[x] = c
  <2>1. PICK i \in 1..d : c \in RowColumns(b, n(i))
    BY <1>5 DEF MetUpTo
  <2>2. \E x \in {n(i)} \cup Others(b, n(i)) : b.col[x] = c
    BY <2>1 DEF RowColumns, Others
  <2> QED
    BY <2>2 DEF Chosen, d
<1>8. ASSUME NEW x \in Chosen(b, fr), NEW y \in Chosen(b, fr), b.col[x] = b.col[y]
      PROVE  x = y
  <2>1. PICK i \in 1..d : /\ x \in {n(i)} \cup Others(b, n(i)) /\ x \in Nodes(b)
                          /\ b.col[x] \in RowColumns(b, n(i))
    BY <1>6
  <2>2. PICK j \in 1..d : /\ y \in {n(j)} \cup Others(b, n(j)) /\ y \in Nodes(b)
                          /\ b.col[y] \in RowColumns(b, n(j))
    BY <1>6
  <2>3. ASSUME NEW p \in 1..d, NEW q \in 1..d, p < q, NEW e \in RowColumns(b, n(p)),
               e \in RowColumns(b, n(q))
        PROVE  FALSE
    <3>1. p \in 1..(q - 1)
      BY <1>1, <2>3
    <3>2. e \in MetUpTo(b, fr, q - 1)
      BY <2>3, <3>1 DEF MetUpTo
    <3> QED
      BY <1>4, <2>3, <3>2
  <2>4. i = j
    <3>1. ~(i < j) /\ ~(j < i)
      BY <1>8, <2>1, <2>2, <2>3
    <3> QED
      BY <1>1, <3>1
  <2>5. n(i) \in Nodes(b)
    BY <1>4
  <2>6. RowOfFour(b, n(i), Second(b, n(i)), Third(b, n(i)), Fourth(b, n(i)))
    BY <1>2, <2>5 DEF Rows
  <2> QED
    BY <1>8, <2>1, <2>2, <2>4, <2>6 DEF RowOfFour, Others
<1>9. \A x \in Chosen(b, fr) : x \in Nodes(b) /\ Others(b, x) \subseteq Chosen(b, fr)
  <2> SUFFICES ASSUME NEW x \in Chosen(b, fr)
               PROVE  x \in Nodes(b) /\ Others(b, x) \subseteq Chosen(b, fr)
    OBVIOUS
  <2>1. PICK i \in 1..d : /\ x \in Nodes(b)
                          /\ {x} \cup Others(b, x) = {n(i)} \cup Others(b, n(i))
    BY <1>6
  <2>2. {n(i)} \cup Others(b, n(i)) \subseteq Chosen(b, fr)
    BY DEF Chosen, d
  <2> QED
    BY <2>1, <2>2
<1> HIDE DEF n
<1> QED
  BY <1>7, <1>8, <1>9 DEF ExactCover
-----------------------------------------------------------------------------
(* The columns of a candidate. *)

(* A line and a value make up a number below N, and only they do. *)
LEMMA PairNumber ==
    ASSUME NEW i \in Lines, NEW v \in Values
    PROVE  /\ i * NUM + v \in 1..N
           /\ \A j \in Lines, w \in Values : j * NUM + w = i * NUM + v => j = i /\ w = v
<1>1. NUM \in Nat \ {0} /\ N = NUM * NUM /\ Lines = 0..(NUM - 1) /\ Values = 1..NUM /\ N \in Nat
  BY BoardSizes DEF N, Lines, Values
<1>2. \A j \in Lines, w \in Values : /\ j \in 0..(NUM - 1) /\ w - 1 \in 0..(NUM - 1)
                                     /\ j * NUM + w = (NUM * j + (w - 1)) + 1 /\ j \in Nat
  BY <1>1
<1> HIDE DEF NUM, N, Values, Lines
<1>3. \A j \in Lines, w \in Values : NUM * j + (w - 1) \in 0..(NUM * NUM - 1)
  BY <1>1, <1>2, ProductBelow
<1>4. \A j \in Lines, w \in Values : /\ (NUM * j + (w - 1)) \div NUM = j
                                     /\ (NUM * j + (w - 1)) % NUM = w - 1
  <2> SUFFICES ASSUME NEW j \in Lines, NEW w \in Values
               PROVE  (NUM * j + (w - 1)) \div NUM = j /\ (NUM * j + (w - 1)) % NUM = w - 1
    OBVIOUS
  <2> DEFINE r == w - 1
  <2>1. r \in 0..(NUM - 1) /\ j \in Nat
    BY <1>2
  <2> HIDE DEF r
  <2>2. (NUM * j + r) \div NUM = j /\ (NUM * j + r) % NUM = r
    BY ONLY <1>1, <2>1, DivisionIsUnique
  <2> QED
    BY <2>2 DEF r
<1>5. i * NUM + v \in 1..N
  BY <1>1, <1>2, <1>3
<1>6. ASSUME NEW j \in Lines, NEW w \in Values, j * NUM + w = i * NUM + v
      PROVE  j = i /\ w = v
  <2>1. NUM * j + (w - 1) = NUM * i + (v - 1)
    BY <1>1, <1>2, <1>6
  <2>2. j = i /\ w - 1 = v - 1
    BY <1>4, <2>1
  <2> QED
    BY <1>1, <2>2
<1> QED
  BY <1>5, <1>6

(* The box of a cell is a line. *)
LEMMA BoxIsLine ==
    ASSUME NEW cell \in Cells
    PROVE  BoxOf(cell) \in Lines
BY BoxIs, LineOfParts

ColumnSet(cell, v) ==
    {RowColumn(Row(cell), v), ColColumn(Col(cell), v), BoxColumn(BoxOf(cell), v), CellColumn(cell)}

(* The four columns of a candidate are different, each among those of its kind. *)
LEMMA ColumnNumbers ==
    ASSUME NEW cell \in Cells, NEW v \in Values
    PROVE  /\ RowColumn(Row(cell), v) \in 1..N
           /\ ColColumn(Col(cell), v) \in (N + 1)..(2 * N)
           /\ BoxColumn(BoxOf(cell), v) \in (2 * N + 1)..(3 * N)
           /\ CellColumn(cell) \in (3 * N + 1)..(4 * N)
           /\ ToSet(ColumnsOf(cell, v)) = ColumnSet(cell, v)
<1>1. /\ Row(cell) \in Lines /\ Col(cell) \in Lines /\ BoxOf(cell) \in Lines
      /\ N \in Nat \ {0} /\ cell \in 0..(N - 1)
  BY Coordinates, BoxIsLine, BoardSizes DEF Cells
<1> DEFINE r == Row(cell) * NUM + v
           c == Col(cell) * NUM + v
           b == BoxOf(cell) * NUM + v
<1>2. r \in 1..N /\ c \in 1..N /\ b \in 1..N
  BY <1>1, PairNumber
<1>3. /\ RowColumn(Row(cell), v) = r
      /\ ColColumn(Col(cell), v) = N + c /\ BoxColumn(BoxOf(cell), v) = 2 * N + b
      /\ CellColumn(cell) = 3 * N + cell + 1
  <2>1. NUM \in Nat /\ v \in Nat /\ \A x \in Lines : x \in Nat
    BY BoardSizes DEF Lines
  <2>2. \A x \in Nat : N + x * NUM + v = N + (x * NUM + v)
        /\ 2 * N + x * NUM + v = 2 * N + (x * NUM + v)
    BY <1>1, <2>1
  <2> QED
    BY <1>1, <2>1, <2>2 DEF RowColumn, ColColumn, BoxColumn, CellColumn
<1> HIDE DEF r, c, b, N
<1>4. ToSet(ColumnsOf(cell, v)) = ColumnSet(cell, v)
  <2>1. \A x, y, z, w : {<<x, y, z, w>>[i] : i \in DOMAIN <<x, y, z, w>>} = {x, y, z, w}
    OBVIOUS
  <2> QED
    BY <2>1 DEF ToSet, ColumnsOf, ColumnSet
<1> QED
  BY <1>1, <1>2, <1>3, <1>4

(* Candidates that share a column have the same cell or the same value in a unit. *)
LEMMA ColumnsShared ==
    ASSUME NEW a \in Cells, NEW v \in Values, NEW b \in Cells, NEW w \in Values,
           NEW c, c \in ColumnSet(a, v), c \in ColumnSet(b, w)
    PROVE  \/ a = b /\ c = CellColumn(a)
           \/ v = w /\ Row(a) = Row(b) /\ c = RowColumn(Row(a), v)
           \/ v = w /\ Col(a) = Col(b) /\ c = ColColumn(Col(a), v)
           \/ v = w /\ BoxOf(a) = BoxOf(b) /\ c = BoxColumn(BoxOf(a), v)
<1>1. /\ Row(a) \in Lines /\ Col(a) \in Lines /\ BoxOf(a) \in Lines
      /\ Row(b) \in Lines /\ Col(b) \in Lines /\ BoxOf(b) \in Lines
  BY Coordinates, BoxIsLine
<1>2. N \in Nat \ {0} /\ NUM \in Nat /\ Lines \subseteq Nat /\ Values \subseteq Nat /\ a \in Nat
      /\ b \in Nat
  BY BoardSizes DEF Lines, Cells
<1>3. /\ RowColumn(Row(a), v) \in 1..N /\ ColColumn(Col(a), v) \in (N + 1)..(2 * N)
      /\ BoxColumn(BoxOf(a), v) \in (2 * N + 1)..(3 * N) /\ CellColumn(a) \in (3 * N + 1)..(4 * N)
      /\ RowColumn(Row(b), w) \in 1..N /\ ColColumn(Col(b), w) \in (N + 1)..(2 * N)
      /\ BoxColumn(BoxOf(b), w) \in (2 * N + 1)..(3 * N) /\ CellColumn(b) \in (3 * N + 1)..(4 * N)
  BY ColumnNumbers
<1>4. \A i \in Lines, j \in Lines : i * NUM + v = j * NUM + w => i = j /\ v = w
  BY PairNumber
<1>5. \A i \in Lines, j \in Lines : /\ RowColumn(i, v) = RowColumn(j, w) => i = j /\ v = w
                                    /\ ColColumn(i, v) = ColColumn(j, w) => i = j /\ v = w
                                    /\ BoxColumn(i, v) = BoxColumn(j, w) => i = j /\ v = w
  <2> SUFFICES ASSUME NEW i \in Lines, NEW j \in Lines
               PROVE  /\ RowColumn(i, v) = RowColumn(j, w) => i * NUM + v = j * NUM + w
                      /\ ColColumn(i, v) = ColColumn(j, w) => i * NUM + v = j * NUM + w
                      /\ BoxColumn(i, v) = BoxColumn(j, w) => i * NUM + v = j * NUM + w
    BY <1>4
  <2>1. i * NUM \in Nat /\ j * NUM \in Nat /\ v \in Nat /\ w \in Nat
    BY <1>2
  <2> HIDE DEF N
  <2> QED
    BY <1>2, <2>1 DEF RowColumn, ColColumn, BoxColumn
<1>6. CellColumn(a) = CellColumn(b) => a = b
  <2> HIDE DEF N
  <2> QED
    BY <1>2 DEF CellColumn
<1> HIDE DEF N
<1>7. CASE c = RowColumn(Row(a), v)
  <2>1. c = RowColumn(Row(b), w)
    BY <1>2, <1>3, <1>7 DEF ColumnSet
  <2> QED
    BY <1>1, <1>5, <1>7, <2>1
<1>8. CASE c = ColColumn(Col(a), v)
  <2>1. c = ColColumn(Col(b), w)
    BY <1>2, <1>3, <1>8 DEF ColumnSet
  <2> QED
    BY <1>1, <1>5, <1>8, <2>1
<1>9. CASE c = BoxColumn(BoxOf(a), v)
  <2>1. c = BoxColumn(BoxOf(b), w)
    BY <1>2, <1>3, <1>9 DEF ColumnSet
  <2> QED
    BY <1>1, <1>5, <1>9, <2>1
<1>10. CASE c = CellColumn(a)
  <2>1. c = CellColumn(b)
    BY <1>2, <1>3, <1>10 DEF ColumnSet
  <2> QED
    BY <1>6, <1>10, <2>1
<1> QED
  BY <1>7, <1>8, <1>9, <1>10 DEF ColumnSet

(* Rows are numbered by cell and value. *)
LEMMA CandidateNumbers ==
    /\ \A id \in 1..(N * NUM) : /\ CellOf(id) \in Cells /\ ValueOf(id) \in Values
                                /\ GetId(CellOf(id), ValueOf(id)) = id
    /\ \A cell \in Cells, v \in Values : /\ GetId(cell, v) \in 1..(N * NUM)
                                         /\ CellOf(GetId(cell, v)) = cell
                                         /\ ValueOf(GetId(cell, v)) = v
<1>1. NUM \in Nat \ {0} /\ N \in Nat \ {0} /\ Cells = 0..(N - 1) /\ Values = 1..NUM
  BY BoardSizes DEF Cells, Values
<1>2. N * NUM = NUM * N /\ N * NUM \in Nat
  BY <1>1
<1> HIDE DEF N, NUM, Cells, Values
<1>3. ASSUME NEW id \in 1..(N * NUM)
      PROVE  /\ CellOf(id) \in Cells /\ ValueOf(id) \in Values
             /\ GetId(CellOf(id), ValueOf(id)) = id
  <2> DEFINE q == (id - 1) \div NUM
             r == (id - 1) % NUM
  <2>1. id - 1 \in 0..(NUM * N - 1)
    BY <1>2
  <2>2. q \in 0..(N - 1) /\ r \in 0..(NUM - 1) /\ id - 1 = NUM * q + r
    BY <1>1, <2>1, DivisionBelow
  <2>3. CellOf(id) = q /\ ValueOf(id) = r + 1
    BY DEF CellOf, ValueOf
  <2> HIDE DEF q, r
  <2>4. q * NUM = NUM * q /\ NUM * q \in Nat
    BY <1>1, <2>2
  <2> QED
    BY <1>1, <1>2, <2>2, <2>3, <2>4 DEF GetId
<1>4. ASSUME NEW cell \in Cells, NEW v \in Values
      PROVE  /\ GetId(cell, v) \in 1..(N * NUM)
             /\ CellOf(GetId(cell, v)) = cell /\ ValueOf(GetId(cell, v)) = v
  <2>1. cell \in 0..(N - 1) /\ v - 1 \in 0..(NUM - 1) /\ cell \in Nat
    BY <1>1
  <2> DEFINE x == NUM * cell + (v - 1)
  <2>2. x \in 0..(NUM * N - 1) /\ x \div NUM = cell /\ x % NUM = v - 1
    <3>1. NUM * cell + (v - 1) \in 0..(NUM * N - 1)
      BY <1>1, <2>1, ProductBelow
    <3>2. (NUM * cell + (v - 1)) \div NUM = cell /\ (NUM * cell + (v - 1)) % NUM = v - 1
      BY <1>1, <2>1, DivisionIsUnique
    <3> QED
      BY <3>1, <3>2
  <2>3. GetId(cell, v) = x + 1
    BY <1>1, <2>1 DEF GetId
  <2> HIDE DEF x
  <2>4. x + 1 - 1 = x
    BY <2>2
  <2> QED
    BY <1>1, <1>2, <2>2, <2>3, <2>4 DEF CellOf, ValueOf
<1> QED
  BY <1>3, <1>4
-----------------------------------------------------------------------------
(* A new node. *)

(* What it adds. *)
LEMMA AddNodeIs ==
    ASSUME NEW k, NEW id, NEW c, NEW above, NEW left, Fields(k), NEW n, n = k.tot + 1,
           NEW below, below = k.D[above], NEW right, right = IF left = n THEN n ELSE k.R[left]
    PROVE  AddNode(k, id, c, above, left) =
             [tot |-> n, L |-> Put(Put(k.L, right, n), n, left),
              R |-> Put(Put(k.R, left, n), n, right), U |-> Put(Put(k.U, below, n), n, above),
              D |-> Put(Put(k.D, above, n), n, below),
              siz |-> [k.siz EXCEPT ![c] = k.siz[c] + 1],
              col |-> Put(k.col, n, c), row |-> Put(k.row, n, id)]
<1> DEFINE a == [k EXCEPT !.tot = n]
           b == [a EXCEPT !.siz[c] = @ + 1]
           e == [b EXCEPT !.col = Put(@, n, c)]
           f == [e EXCEPT !.row = Put(@, n, id)]
           g == [f EXCEPT !.D = Put(Put(@, above, n), n, below)]
           h == [g EXCEPT !.U = Put(Put(@, below, n), n, above)]
           i == [h EXCEPT !.R = Put(Put(@, left, n), n, right)]
           j == [i EXCEPT !.L = Put(Put(@, right, n), n, left)]
<1>1. AddNode(k, id, c, above, left) = j
  BY DEF AddNode
<1>2. a = [tot |-> n, L |-> k.L, R |-> k.R, U |-> k.U, D |-> k.D, siz |-> k.siz,
           col |-> k.col, row |-> k.row]
  BY DEF Fields
<1> HIDE DEF a
<1>3. b = [tot |-> a.tot, L |-> a.L, R |-> a.R, U |-> a.U, D |-> a.D,
           siz |-> [a.siz EXCEPT ![c] = a.siz[c] + 1], col |-> a.col, row |-> a.row]
  BY <1>2
<1> HIDE DEF b
<1>4. e = [tot |-> b.tot, L |-> b.L, R |-> b.R, U |-> b.U, D |-> b.D, siz |-> b.siz,
           col |-> Put(b.col, n, c), row |-> b.row]
  BY <1>3
<1> HIDE DEF e
<1>5. f = [tot |-> e.tot, L |-> e.L, R |-> e.R, U |-> e.U, D |-> e.D, siz |-> e.siz,
           col |-> e.col, row |-> Put(e.row, n, id)]
  BY <1>4
<1> HIDE DEF f
<1>6. g = [tot |-> f.tot, L |-> f.L, R |-> f.R, U |-> f.U, D |-> Put(Put(f.D, above, n), n, below),
           siz |-> f.siz, col |-> f.col, row |-> f.row]
  BY <1>5
<1> HIDE DEF g
<1>7. h = [tot |-> g.tot, L |-> g.L, R |-> g.R, U |-> Put(Put(g.U, below, n), n, above), D |-> g.D,
           siz |-> g.siz, col |-> g.col, row |-> g.row]
  BY <1>6
<1> HIDE DEF h
<1>8. i = [tot |-> h.tot, L |-> h.L, R |-> Put(Put(h.R, left, n), n, right), U |-> h.U, D |-> h.D,
           siz |-> h.siz, col |-> h.col, row |-> h.row]
  BY <1>7
<1> HIDE DEF i
<1>9. j = [tot |-> i.tot, L |-> Put(Put(i.L, right, n), n, left), R |-> i.R, U |-> i.U, D |-> i.D,
           siz |-> i.siz, col |-> i.col, row |-> i.row]
  BY <1>8
<1> HIDE DEF j
<1>10. /\ b.siz = [k.siz EXCEPT ![c] = k.siz[c] + 1] /\ b.tot = n /\ b.L = k.L /\ b.R = k.R
       /\ b.U = k.U /\ b.D = k.D /\ b.col = k.col /\ b.row = k.row
  <2>1. /\ a.siz = k.siz /\ a.tot = n /\ a.L = k.L /\ a.R = k.R /\ a.U = k.U /\ a.D = k.D
        /\ a.col = k.col /\ a.row = k.row
    BY ONLY <1>2
  <2> QED
    BY ONLY <1>3, <2>1
<1>11. /\ e.siz = b.siz /\ e.tot = b.tot /\ e.L = b.L /\ e.R = b.R /\ e.U = b.U /\ e.D = b.D
       /\ e.col = Put(b.col, n, c) /\ e.row = b.row
  BY ONLY <1>4
<1>12. /\ f.siz = e.siz /\ f.tot = e.tot /\ f.L = e.L /\ f.R = e.R /\ f.U = e.U /\ f.D = e.D
       /\ f.col = e.col /\ f.row = Put(e.row, n, id)
  BY ONLY <1>5
<1>13. /\ g.siz = f.siz /\ g.tot = f.tot /\ g.L = f.L /\ g.R = f.R /\ g.U = f.U
       /\ g.D = Put(Put(f.D, above, n), n, below) /\ g.col = f.col /\ g.row = f.row
  BY ONLY <1>6
<1>14. /\ h.siz = g.siz /\ h.tot = g.tot /\ h.L = g.L /\ h.R = g.R /\ h.D = g.D
       /\ h.U = Put(Put(g.U, below, n), n, above) /\ h.col = g.col /\ h.row = g.row
  BY ONLY <1>7
<1>15. /\ i.siz = h.siz /\ i.tot = h.tot /\ i.L = h.L /\ i.U = h.U /\ i.D = h.D
       /\ i.R = Put(Put(h.R, left, n), n, right) /\ i.col = h.col /\ i.row = h.row
  BY ONLY <1>8
<1> QED
  BY ONLY <1>1, <1>9, <1>10, <1>11, <1>12, <1>13, <1>14, <1>15

(* The two next to the header. *)
LEMMA RingHeader ==
    ASSUME NEW fwd, NEW bwd, NEW c, NEW S, RingOf(fwd, bwd, c, S)
    PROVE  /\ fwd[c] \in S \cup {c} /\ bwd[c] \in S \cup {c}
           /\ bwd[fwd[c]] = c /\ fwd[bwd[c]] = c
<1>1. PICK s : Enumerates(s, S) /\ Linked(fwd, bwd, c, s)
  BY DEF RingOf
<1> DEFINE l == Len(s)
<1>2. /\ l \in Nat /\ At(s, c, 0) = c /\ At(s, c, l + 1) = c
      /\ \A i \in 0..(l + 1) : At(s, c, i) \in S \cup {c}
  BY <1>1 DEF Enumerates, At
<1>3. \A i \in 0..l : fwd[At(s, c, i)] = At(s, c, i + 1) /\ bwd[At(s, c, i + 1)] = At(s, c, i)
  BY <1>1 DEF Linked
<1> HIDE DEF l
<1>4. 0 \in 0..l /\ l \in 0..l /\ 1 \in 0..(l + 1) /\ l \in 0..(l + 1) /\ 0 + 1 = 1
  BY <1>2
<1> QED
  BY <1>2, <1>3, <1>4

(* The links l are k and a new node of row id in column c, to the right of left. *)
NewNode(k, l, A, id, c, left) ==
    LET n == k.tot + 1
    IN /\ Shape(l, A) /\ l.tot = n /\ ColumnsHold(l, A, Nodes(l))
       /\ l.col[n] = c /\ l.row[n] = id
       /\ \A x \in Nodes(k) : l.col[x] = k.col[x] /\ l.row[x] = k.row[x]
       /\ l.L[n] = left /\ l.R[n] = (IF left = n THEN n ELSE k.R[left])
       /\ left # n => l.R[left] = n /\ l.L[k.R[left]] = n
       /\ \A x \in {root} \cup A \cup Nodes(k) :
             /\ x # left => l.R[x] = k.R[x]
             /\ left = n \/ x # k.R[left] => l.L[x] = k.L[x]

(* A node that is added at the top or at the bottom of its column. *)
LEMMA AddNodeIsNew ==
    ASSUME NEW k, NEW A, Shape(k, A), ColumnsHold(k, A, Nodes(k)), NEW c \in A, NEW id \in Nat,
           NEW above, above \in {c, k.U[c]}, NEW left \in Nodes(k) \cup {k.tot + 1}, k.tot >= 4 * N
    PROVE  NewNode(k, AddNode(k, id, c, above, left), A, id, c, left)
<1> DEFINE n == k.tot + 1
           X == A \cup Nodes(k)
           Y == {root} \cup A \cup Nodes(k)
           d == k.D
           u == k.U
           r0 == k.R
           l0 == k.L
           col == k.col
           row == k.row
           siz == k.siz
           below == d[above]
           right == IF left = n THEN n ELSE r0[left]
           l == AddNode(k, id, c, above, left)
           d1 == l.D
           u1 == l.U
           r1 == l.R
           l1 == l.L
           col1 == l.col
           row1 == l.row
           siz1 == l.siz
           T(e) == InColumn(k, Nodes(k), e)
<1>1. /\ d \in [X -> X] /\ u \in [X -> X] /\ r0 \in [Y -> Y] /\ l0 \in [Y -> Y]
      /\ siz \in [A -> Int] /\ col \in [Nodes(k) -> A] /\ row \in [Nodes(k) -> Nat]
      /\ Fields(k) /\ k.tot \in Nat /\ A \subseteq 1..(4 * N)
  BY DEF Shape
<1>2. 4 * N \in Nat /\ n \in Nat /\ n > k.tot /\ n > 4 * N
  BY <1>1, BoardSizes
<1>3. Nodes(k) = (4 * N + 1)..k.tot /\ n \notin Y /\ n \notin X
  BY <1>1, <1>2, BoardSizes DEF Nodes, root
<1>4. A \cap Nodes(k) = {} /\ IsFiniteSet(Nodes(k))
  BY NodesApart
<1>5. l = [tot |-> n, L |-> Put(Put(l0, right, n), n, left),
           R |-> Put(Put(r0, left, n), n, right), U |-> Put(Put(u, below, n), n, above),
           D |-> Put(Put(d, above, n), n, below),
           siz |-> [siz EXCEPT ![c] = siz[c] + 1],
           col |-> Put(col, n, c), row |-> Put(row, n, id)]
  <2> HIDE DEF n, l, below, right
  <2>1. n = k.tot + 1 /\ below = k.D[above] /\ right = IF left = n THEN n ELSE k.R[left]
    BY DEF n, below, right
  <2> QED
    BY <1>1, <2>1, AddNodeIs DEF l
<1>6. \A e \in A : /\ T(e) \subseteq Nodes(k) /\ e \notin T(e) /\ RingOf(d, u, e, T(e))
                   /\ siz[e] = Cardinality(T(e)) /\ IsFiniteSet(T(e))
                   /\ \A x \in T(e) : col[x] = e
  <2>1. \A e : T(e) \subseteq Nodes(k) /\ \A x \in T(e) : col[x] = e
    BY DEF InColumn
  <2>2. \A e \in A : e \notin T(e)
    BY <1>4, <2>1
  <2>3. \A e \in A : IsFiniteSet(T(e))
    BY <1>4, <2>1, FS_Subset
  <2> QED
    BY <2>1, <2>2, <2>3 DEF ColumnsHold
<1> HIDE DEF l
<1>7. /\ l.tot = n /\ Fields(l)
      /\ l1 = Put(Put(l0, right, n), n, left) /\ r1 = Put(Put(r0, left, n), n, right)
      /\ u1 = Put(Put(u, below, n), n, above) /\ d1 = Put(Put(d, above, n), n, below)
      /\ siz1 = [siz EXCEPT ![c] = siz[c] + 1]
      /\ col1 = Put(col, n, c) /\ row1 = Put(row, n, id)
  <2> HIDE DEF n, right, below, l0, r0, u, d, siz, col, row
  <2>1. /\ l.tot = n
        /\ l.L = Put(Put(l0, right, n), n, left) /\ l.R = Put(Put(r0, left, n), n, right)
        /\ l.U = Put(Put(u, below, n), n, above) /\ l.D = Put(Put(d, above, n), n, below)
        /\ l.siz = [siz EXCEPT ![c] = siz[c] + 1]
        /\ l.col = Put(col, n, c) /\ l.row = Put(row, n, id)
    BY ONLY <1>5
  <2>2. Fields(l)
    BY ONLY <1>5, <2>1 DEF Fields
  <2> QED
    BY <2>1, <2>2
<1>8. Nodes(l) = Nodes(k) \cup {n}
  BY <1>1, <1>2, <1>7 DEF Nodes
<1>9. RingOf(d, u, c, T(c)) /\ c \notin T(c) /\ T(c) \cup {c} \subseteq X /\ c \in X
  BY <1>6
<1>10. above \in {c, u[c]}
  OBVIOUS
<1>11. left \in Nodes(k) \cup {n}
  OBVIOUS
<1> HIDE DEF n, d, u, r0, l0, col, row, siz, right, d1, u1, r1, l1, col1, row1, siz1, T
<1>12. /\ u[c] \in T(c) \cup {c} /\ d[c] \in T(c) \cup {c} /\ d[u[c]] = c /\ u[d[c]] = c
  BY ONLY <1>9, RingHeader
<1>13. /\ above \in T(c) \cup {c} /\ below \in T(c) \cup {c}
       /\ above = c => below = d[c]
       /\ above = u[c] => below = c
  BY <1>10, <1>12
<1> HIDE DEF below
<1>14. /\ d1 \in [X \cup {n} -> X \cup {n}] /\ d1[n] = below /\ d1[above] = n
       /\ \A z \in X : z # above => d1[z] = d[z]
       /\ u1 \in [X \cup {n} -> X \cup {n}] /\ u1[n] = above /\ u1[below] = n
       /\ \A z \in X : z # below => u1[z] = u[z]
  <2>1. above \in X /\ below \in X /\ above # n /\ below # n
    BY <1>3, <1>9, <1>13
  <2>2. /\ d \in [X -> X] /\ u \in [X -> X] /\ n \notin X
        /\ above \in X \cup {n} /\ below \in X \cup {n}
        /\ u1 = Put(Put(u, below, n), n, above) /\ d1 = Put(Put(d, above, n), n, below)
    BY <1>1, <1>3, <1>7, <2>1
  <2> HIDE DEF X
  <2>3. /\ d1 \in [X \cup {n} -> X \cup {n}] /\ d1[n] = below /\ (above # n => d1[above] = n)
        /\ \A z \in X : z # above => d1[z] = d[z]
    BY ONLY <2>2 DEF Put
  <2>4. /\ u1 \in [X \cup {n} -> X \cup {n}] /\ u1[n] = above /\ (below # n => u1[below] = n)
        /\ \A z \in X : z # below => u1[z] = u[z]
    BY ONLY <2>2 DEF Put
  <2> QED
    BY <2>1, <2>3, <2>4
<1>15. right \in Y \cup {n} /\ (left # n => right = r0[left] /\ right \in Y)
       /\ (left = n => right = n)
  BY <1>1, <1>11 DEF right, r0
<1>16. /\ r1 \in [Y \cup {n} -> Y \cup {n}] /\ r1[n] = right /\ (left # n => r1[left] = n)
       /\ \A z \in Y : z # left => r1[z] = r0[z]
       /\ l1 \in [Y \cup {n} -> Y \cup {n}] /\ l1[n] = left /\ (right # n => l1[right] = n)
       /\ \A z \in Y : z # right => l1[z] = l0[z]
  <2>1. left \in Y \cup {n}
    BY <1>11
  <2>2. /\ r0 \in [Y -> Y] /\ l0 \in [Y -> Y] /\ n \notin Y /\ right \in Y \cup {n}
        /\ l1 = Put(Put(l0, right, n), n, left) /\ r1 = Put(Put(r0, left, n), n, right)
    BY <1>1, <1>3, <1>7, <1>15
  <2> HIDE DEF Y
  <2>3. /\ r1 \in [Y \cup {n} -> Y \cup {n}] /\ r1[n] = right /\ (left # n => r1[left] = n)
        /\ \A z \in Y : z # left => r1[z] = r0[z]
    BY ONLY <2>1, <2>2 DEF Put
  <2>4. /\ l1 \in [Y \cup {n} -> Y \cup {n}] /\ l1[n] = left /\ (right # n => l1[right] = n)
        /\ \A z \in Y : z # right => l1[z] = l0[z]
    BY ONLY <2>1, <2>2 DEF Put
  <2> QED
    BY <2>3, <2>4
<1>17. /\ col1 \in [Nodes(l) -> A] /\ row1 \in [Nodes(l) -> Nat] /\ col1[n] = c /\ row1[n] = id
       /\ \A x \in Nodes(k) : col1[x] = col[x] /\ row1[x] = row[x]
  <2> DEFINE Z == Nodes(k)
  <2>1. /\ n \notin Z /\ col \in [Z -> A] /\ row \in [Z -> Nat] /\ c \in A /\ id \in Nat
        /\ col1 = Put(col, n, c) /\ row1 = Put(row, n, id) /\ Nodes(l) = Z \cup {n}
    BY <1>1, <1>3, <1>7, <1>8
  <2> HIDE DEF Z
  <2>2. col1 \in [Z \cup {n} -> A] /\ col1[n] = c /\ \A x \in Z : col1[x] = col[x]
    BY ONLY <2>1 DEF Put
  <2>3. row1 \in [Z \cup {n} -> Nat] /\ row1[n] = id /\ \A x \in Z : row1[x] = row[x]
    BY ONLY <2>1 DEF Put
  <2> QED
    BY <2>1, <2>2, <2>3 DEF Z
<1>18. /\ siz1 \in [A -> Int] /\ siz1[c] = siz[c] + 1 /\ \A e \in A : e # c => siz1[e] = siz[e]
  BY <1>1, <1>7
<1>19. Shape(l, A)
  <2>1. A \cup Nodes(l) = X \cup {n} /\ {root} \cup A \cup Nodes(l) = Y \cup {n}
    BY <1>8
  <2>2. /\ l.U = u1 /\ l.D = d1 /\ l.L = l1 /\ l.R = r1 /\ l.siz = siz1 /\ l.col = col1
        /\ l.row = row1
    BY DEF u1, d1, l1, r1, siz1, col1, row1
  <2> HIDE DEF X, Y
  <2> QED
    BY <1>1, <1>2, <1>7, <1>14, <1>16, <1>17, <1>18, <2>1, <2>2 DEF Shape
<1>20. RingOf(d1, u1, c, T(c) \cup {n})
  <2>1. n \notin T(c) /\ n # c
    BY <1>3, <1>9
  <2>2. CASE above = c
    <3>1. /\ u1[d[c]] = n /\ u1[n] = c /\ d1[c] = n /\ d1[n] = d[c]
          /\ \A x \in T(c) \cup {c} : x # d[c] => u1[x] = u[x]
          /\ \A x \in T(c) : d1[x] = d[x]
      BY <1>9, <1>13, <1>14, <2>2
    <3>2. RingOf(u, d, c, T(c))
      BY <1>9, RingTurns
    <3>3. RingOf(u1, d1, c, T(c) \cup {n})
      BY ONLY <1>9, <2>1, <3>1, <3>2, LinkedAppend
    <3>4. c \notin T(c) \cup {n}
      BY <1>9, <2>1
    <3> QED
      BY <3>3, <3>4, RingTurns
  <2>3. CASE above = u[c]
    <3>1. /\ d1[u[c]] = n /\ d1[n] = c /\ u1[c] = n /\ u1[n] = u[c]
          /\ \A x \in T(c) \cup {c} : x # u[c] => d1[x] = d[x]
          /\ \A x \in T(c) : u1[x] = u[x]
      BY <1>9, <1>13, <1>14, <2>3
    <3> QED
      BY ONLY <1>9, <2>1, <3>1, LinkedAppend
  <2> QED
    BY <1>10, <2>2, <2>3
<1>21. ASSUME NEW e \in A, e # c
       PROVE  RingOf(d1, u1, e, T(e))
  <2>1. \A x \in T(e) \cup {e} : x \in X /\ x # above /\ x # below
    <3>1. \A x \in T(c) \cup {c} : x \notin T(e) \cup {e}
      BY <1>4, <1>6, <1>21
    <3> QED
      BY <1>6, <1>13, <1>21, <3>1
  <2>2. \A x \in T(e) \cup {e} : d1[x] = d[x] /\ u1[x] = u[x]
    BY <1>14, <2>1
  <2>3. RingOf(d, u, e, T(e)) /\ e \notin T(e)
    BY <1>6
  <2> QED
    BY ONLY <2>2, <2>3, RingSame
<1>22. /\ InColumn(l, Nodes(l), c) = T(c) \cup {n}
       /\ \A e \in A : e # c => InColumn(l, Nodes(l), e) = T(e)
  BY <1>8, <1>17 DEF InColumn, T, col, col1
<1>23. ColumnsHold(l, A, Nodes(l))
  <2> SUFFICES ASSUME NEW e \in A
               PROVE  /\ RingOf(d1, u1, e, InColumn(l, Nodes(l), e))
                      /\ siz1[e] = Cardinality(InColumn(l, Nodes(l), e))
    BY DEF ColumnsHold, d1, u1, siz1
  <2>1. CASE e = c
    <3>1. n \notin T(c)
      BY <1>3, <1>9
    <3>2. Cardinality(T(c) \cup {n}) = Cardinality(T(c)) + 1
      BY <1>6, <3>1, FS_AddElement
    <3> QED
      BY <1>6, <1>18, <1>20, <1>22, <2>1, <3>2
  <2>2. CASE e # c
    BY <1>6, <1>18, <1>21, <1>22, <2>2
  <2> QED
    BY <2>1, <2>2
<1>24. /\ l.L[n] = left /\ l.R[n] = (IF left = n THEN n ELSE k.R[left])
       /\ left # n => l.R[left] = n /\ l.L[k.R[left]] = n
       /\ \A x \in Y : /\ x # left => l.R[x] = k.R[x]
                       /\ left = n \/ x # k.R[left] => l.L[x] = k.L[x]
  <2>1. /\ l1[n] = left /\ r1[n] = (IF left = n THEN n ELSE r0[left])
        /\ left # n => r1[left] = n /\ l1[r0[left]] = n
        /\ \A x \in Y : /\ x # left => r1[x] = r0[x]
                        /\ left = n \/ x # r0[left] => l1[x] = l0[x]
    BY <1>3, <1>15, <1>16
  <2> QED
    BY <2>1 DEF l1, r1, r0, l0
<1>25. /\ l.col[n] = c /\ l.row[n] = id
       /\ \A x \in Nodes(k) : l.col[x] = k.col[x] /\ l.row[x] = k.row[x]
  BY <1>17 DEF col1, row1, col, row
<1> QED
  BY <1>7, <1>19, <1>23, <1>24, <1>25 DEF NewNode, n, l

(* The links l are k and a new row, of number id in the columns C. *)
NewRow(k, l, A, id, C) ==
    /\ Shape(l, A) /\ ColumnsHold(l, A, Nodes(l)) /\ Rows(l) /\ l.tot = k.tot + 4
    /\ \A x \in {root} \cup A : l.L[x] = k.L[x] /\ l.R[x] = k.R[x]
    /\ \A x \in Nodes(k) : /\ l.row[x] = k.row[x] /\ RowColumns(l, x) = RowColumns(k, x)
                           /\ Others(l, x) = Others(k, x)
    /\ \A x \in Nodes(l) \ Nodes(k) :
          /\ l.row[x] = id /\ RowColumns(l, x) = C
          /\ Others(l, x) = (Nodes(l) \ Nodes(k)) \ {x}

(* Four new nodes w, x, y and z that are linked in this order make a new row. *)
InTurn(l, w, x, y, z) ==
    /\ l.R[w] = x /\ l.R[x] = y /\ l.R[y] = z /\ l.R[z] = w
    /\ l.L[x] = w /\ l.L[y] = x /\ l.L[z] = y /\ l.L[w] = z

(* Such nodes are a new row, in four columns. *)
LEMMA RowIsNew ==
    ASSUME NEW k, NEW l, NEW A, NEW id, Shape(k, A), Rows(k), k.tot >= 4 * N,
           Shape(l, A), ColumnsHold(l, A, Nodes(l)), l.tot = k.tot + 4,
           \A q \in {root} \cup A \cup Nodes(k) : l.L[q] = k.L[q] /\ l.R[q] = k.R[q],
           \A q \in Nodes(k) : l.col[q] = k.col[q] /\ l.row[q] = k.row[q],
           NEW w, NEW x, NEW y, NEW z, {w, x, y, z} = (k.tot + 1)..(k.tot + 4),
           w # x, w # y, w # z, x # y, x # z, y # z, InTurn(l, w, x, y, z),
           l.row[w] = id, l.row[x] = id, l.row[y] = id, l.row[z] = id,
           l.col[w] # l.col[x], l.col[w] # l.col[y], l.col[w] # l.col[z],
           l.col[x] # l.col[y], l.col[x] # l.col[z], l.col[y] # l.col[z]
    PROVE  NewRow(k, l, A, id, {l.col[w], l.col[x], l.col[y], l.col[z]})
<1>1. /\ Nodes(l) = Nodes(k) \cup {w, x, y, z}
      /\ \A q \in Nodes(k) : q \notin {w, x, y, z}
  <2> DEFINE e == 4 * N
             t == k.tot
  <2>1. e \in Nat /\ t \in Nat /\ t >= e /\ Nodes(k) = (e + 1)..t /\ Nodes(l) = (e + 1)..(t + 4)
    BY BoardSizes DEF Nodes, Shape
  <2> HIDE DEF e, t
  <2>2. (e + 1)..(t + 4) = (e + 1)..t \cup (t + 1)..(t + 4)
    BY <2>1
  <2>3. \A q \in (e + 1)..t : q \notin (t + 1)..(t + 4)
    BY <2>1
  <2> QED
    BY <2>1, <2>2, <2>3 DEF t
<1>2. ASSUME NEW n \in Nodes(k)
      PROVE  /\ Second(l, n) = Second(k, n) /\ Third(l, n) = Third(k, n)
             /\ Fourth(l, n) = Fourth(k, n)
             /\ Second(k, n) \in Nodes(k) /\ Third(k, n) \in Nodes(k) /\ Fourth(k, n) \in Nodes(k)
  <2>1. Second(k, n) \in Nodes(k) /\ Third(k, n) \in Nodes(k) /\ Fourth(k, n) \in Nodes(k)
    BY DEF Rows, RowOfFour
  <2>2. \A q \in Nodes(k) : l.R[q] = k.R[q]
    OBVIOUS
  <2> QED
    BY <2>1, <2>2 DEF Second, Third, Fourth
<1>3. ASSUME NEW n \in Nodes(k), NEW a \in Nodes(k), NEW b \in Nodes(k), NEW c \in Nodes(k),
             RowOfFour(k, n, a, b, c)
      PROVE  RowOfFour(l, n, a, b, c)
  <2>1. \A q \in Nodes(k) : /\ l.L[q] = k.L[q] /\ l.R[q] = k.R[q]
                            /\ l.col[q] = k.col[q] /\ l.row[q] = k.row[q] /\ q \in Nodes(l)
    BY <1>1
  <2> QED
    BY ONLY <1>3, <2>1, n \in Nodes(k), a \in Nodes(k), b \in Nodes(k), c \in Nodes(k) DEF RowOfFour
<1>4. \A n \in Nodes(k) : RowOfFour(l, n, Second(l, n), Third(l, n), Fourth(l, n))
  BY <1>2, <1>3 DEF Rows
<1>5. \A n \in Nodes(k) : /\ l.row[n] = k.row[n] /\ RowColumns(l, n) = RowColumns(k, n)
                          /\ Others(l, n) = Others(k, n)
  BY <1>2 DEF Others, RowColumns
<1>6. /\ Second(l, w) = x /\ Third(l, w) = y /\ Fourth(l, w) = z
      /\ Second(l, x) = y /\ Third(l, x) = z /\ Fourth(l, x) = w
      /\ Second(l, y) = z /\ Third(l, y) = w /\ Fourth(l, y) = x
      /\ Second(l, z) = w /\ Third(l, z) = x /\ Fourth(l, z) = y
  BY DEF InTurn, Second, Third, Fourth
<1>7. w \in Nodes(l) /\ x \in Nodes(l) /\ y \in Nodes(l) /\ z \in Nodes(l)
  BY <1>1
<1>8. /\ RowOfFour(l, w, x, y, z) /\ RowOfFour(l, x, y, z, w)
      /\ RowOfFour(l, y, z, w, x) /\ RowOfFour(l, z, w, x, y)
  BY <1>7 DEF InTurn, RowOfFour
<1>9. \A n \in {w, x, y, z} : RowOfFour(l, n, Second(l, n), Third(l, n), Fourth(l, n))
  BY <1>6, <1>8
<1>10. Rows(l)
  BY <1>1, <1>4, <1>9 DEF Rows
<1>11. \A n \in {w, x, y, z} :
          /\ l.row[n] = id /\ RowColumns(l, n) = {l.col[w], l.col[x], l.col[y], l.col[z]}
          /\ Others(l, n) = {w, x, y, z} \ {n}
  BY <1>6 DEF RowColumns, Others
<1>12. Nodes(l) \ Nodes(k) = {w, x, y, z}
  BY <1>1
<1> QED
  BY <1>5, <1>10, <1>11, <1>12 DEF NewRow

(* Four nodes that are added one after the other make a row, whether each is put next
   to the first or after the last. *)
LEMMA FourNodes ==
    ASSUME NEW k, NEW A, Shape(k, A), Rows(k), k.tot >= 4 * N, NEW id,
           NEW w, w = k.tot + 1,
           NEW c1, NEW c2, NEW c3, NEW c4, c1 # c2, c1 # c3, c1 # c4, c2 # c3, c2 # c4, c3 # c4,
           NEW i, NEW j, (i = w /\ j = w) \/ (i = w + 1 /\ j = w + 2),
           NEW k1, NewNode(k, k1, A, id, c1, w), NEW k2, NewNode(k1, k2, A, id, c2, w),
           NEW k3, NewNode(k2, k3, A, id, c3, i), NEW l, NewNode(k3, l, A, id, c4, j)
    PROVE  NewRow(k, l, A, id, {c1, c2, c3, c4})
<1> DEFINE Y == {root} \cup A \cup Nodes(k)
           x == w + 1
           y == w + 2
           z == w + 3
<1>0. (i = w /\ j = w) \/ (i = x /\ j = y)
  OBVIOUS
<1>1. /\ k1.tot = w /\ k2.tot = x /\ k3.tot = y /\ l.tot = z
      /\ k.tot \in Nat /\ w \in Nat /\ w # x /\ w # y /\ w # z /\ x # y /\ x # z /\ y # z
      /\ {w, x, y, z} = (k.tot + 1)..(k.tot + 4) /\ l.tot = k.tot + 4
  <2> DEFINE t == k.tot
  <2>1. t \in Nat
    BY DEF Shape
  <2>2. /\ k1.tot = k.tot + 1 /\ k2.tot = k1.tot + 1 /\ k3.tot = k2.tot + 1 /\ l.tot = k3.tot + 1
    BY DEF NewNode
  <2>3. w = t + 1 /\ x = (t + 1) + 1 /\ y = (t + 1) + 2 /\ z = (t + 1) + 3
    BY DEF x, y, z
  <2>4. k1.tot = t + 1 /\ k2.tot = (t + 1) + 1 /\ k3.tot = ((t + 1) + 1) + 1
        /\ l.tot = (((t + 1) + 1) + 1) + 1
    BY ONLY <2>2 DEF t
  <2>5. t = k.tot
    OBVIOUS
  <2> HIDE DEF t
  <2>6. {w, x, y, z} = (t + 1)..(t + 4)
    BY ONLY <2>1, <2>3
  <2> QED
    BY ONLY <2>1, <2>3, <2>4, <2>5, <2>6
<1> HIDE DEF x, y, z
<1>2. w \notin Y /\ x \notin Y /\ y \notin Y /\ z \notin Y
  <2> DEFINE e == 4 * N
             t == k.tot
  <2>1. e \in Nat /\ t \in Nat /\ t >= e /\ Nodes(k) = (e + 1)..t /\ A \subseteq 1..e
    BY BoardSizes DEF Nodes, Shape
  <2>2. w = t + 1 /\ x = t + 2 /\ y = t + 3 /\ z = t + 4
    BY <1>1 DEF t, x, y, z
  <2> HIDE DEF e, t
  <2> QED
    BY <2>1, <2>2 DEF root
<1>3. /\ Nodes(k1) = Nodes(k) \cup {w} /\ Nodes(k2) = Nodes(k) \cup {w, x}
      /\ Nodes(k3) = Nodes(k) \cup {w, x, y}
  <2> DEFINE e == 4 * N
             t == k.tot
  <2>1. /\ e \in Nat /\ t \in Nat /\ t >= e /\ Nodes(k) = (e + 1)..t /\ Nodes(k1) = (e + 1)..(t + 1)
        /\ Nodes(k2) = (e + 1)..(t + 2) /\ Nodes(k3) = (e + 1)..(t + 3)
    <3>1. t \in Nat /\ t >= e /\ k1.tot = t + 1 /\ k2.tot = t + 2 /\ k3.tot = t + 3
      BY <1>1 DEF x, y
    <3>2. e \in Nat
      BY BoardSizes
    <3> QED
      BY ONLY <3>1, <3>2 DEF Nodes, e, t
  <2>2. w = t + 1 /\ x = t + 2 /\ y = t + 3
    BY <1>1 DEF t, x, y
  <2> HIDE DEF e, t
  <2>3. (e + 1)..(t + 1) = (e + 1)..t \cup {t + 1}
    BY <2>1
  <2>4. (e + 1)..(t + 2) = (e + 1)..t \cup {t + 1, t + 2}
    BY <2>1
  <2>5. (e + 1)..(t + 3) = (e + 1)..t \cup {t + 1, t + 2, t + 3}
    BY <2>1
  <2> QED
    BY <2>1, <2>2, <2>3, <2>4, <2>5
<1>4. k1.tot + 1 = x /\ k2.tot + 1 = y /\ k3.tot + 1 = z
  BY <1>1 DEF x, y, z
<1>5. /\ k1.L[w] = w /\ k1.R[w] = w /\ k1.col[w] = c1 /\ k1.row[w] = id
      /\ \A q \in Y : k1.R[q] = k.R[q] /\ k1.L[q] = k.L[q]
      /\ \A q \in Nodes(k) : k1.col[q] = k.col[q] /\ k1.row[q] = k.row[q]
  BY <1>2 DEF NewNode
<1>6. /\ k2.L[x] = w /\ k2.R[x] = w /\ k2.R[w] = x /\ k2.L[w] = x /\ k2.col[x] = c2
      /\ k2.row[x] = id
      /\ \A q \in Y : k2.R[q] = k1.R[q] /\ k2.L[q] = k1.L[q]
      /\ \A q \in Nodes(k) \cup {w} : k2.col[q] = k1.col[q] /\ k2.row[q] = k1.row[q]
  <2>1. NewNode(k1, k2, A, id, c2, w) /\ w # x /\ k1.R[w] = w
    BY <1>1, <1>5
  <2>2. /\ k2.L[x] = w /\ k2.R[x] = k1.R[w] /\ k2.R[w] = x /\ k2.L[k1.R[w]] = x
        /\ k2.col[x] = c2 /\ k2.row[x] = id
        /\ \A q \in {root} \cup A \cup Nodes(k1) :
              /\ q # w => k2.R[q] = k1.R[q]
              /\ q # k1.R[w] => k2.L[q] = k1.L[q]
        /\ \A q \in Nodes(k1) : k2.col[q] = k1.col[q] /\ k2.row[q] = k1.row[q]
    BY ONLY <2>1, <1>4 DEF NewNode
  <2> QED
    BY <1>2, <1>3, <2>1, <2>2
<1>7. /\ k3.L[y] = i /\ k3.R[y] = k2.R[i] /\ k3.R[i] = y /\ k3.L[k2.R[i]] = y
      /\ k3.col[y] = c3 /\ k3.row[y] = id
      /\ \A q \in Y \cup {w, x} :
            /\ q # i => k3.R[q] = k2.R[q]
            /\ q # k2.R[i] => k3.L[q] = k2.L[q]
      /\ \A q \in Nodes(k) \cup {w, x} : k3.col[q] = k2.col[q] /\ k3.row[q] = k2.row[q]
  <2>1. NewNode(k2, k3, A, id, c3, i) /\ i # y
    BY <1>0, <1>1
  <2>2. /\ k3.L[y] = i /\ k3.R[y] = k2.R[i] /\ k3.R[i] = y /\ k3.L[k2.R[i]] = y
        /\ k3.col[y] = c3 /\ k3.row[y] = id
        /\ \A q \in {root} \cup A \cup Nodes(k2) :
              /\ q # i => k3.R[q] = k2.R[q]
              /\ q # k2.R[i] => k3.L[q] = k2.L[q]
        /\ \A q \in Nodes(k2) : k3.col[q] = k2.col[q] /\ k3.row[q] = k2.row[q]
    BY ONLY <2>1, <1>4 DEF NewNode
  <2> QED
    BY <1>3, <2>2
<1>8. /\ l.L[z] = j /\ l.R[z] = k3.R[j] /\ l.R[j] = z /\ l.L[k3.R[j]] = z
      /\ l.col[z] = c4 /\ l.row[z] = id
      /\ \A q \in Y \cup {w, x, y} :
            /\ q # j => l.R[q] = k3.R[q]
            /\ q # k3.R[j] => l.L[q] = k3.L[q]
      /\ \A q \in Nodes(k) \cup {w, x, y} : l.col[q] = k3.col[q] /\ l.row[q] = k3.row[q]
  <2>1. NewNode(k3, l, A, id, c4, j) /\ j # z
    BY <1>0, <1>1
  <2>2. /\ l.L[z] = j /\ l.R[z] = k3.R[j] /\ l.R[j] = z /\ l.L[k3.R[j]] = z
        /\ l.col[z] = c4 /\ l.row[z] = id
        /\ \A q \in {root} \cup A \cup Nodes(k3) :
              /\ q # j => l.R[q] = k3.R[q]
              /\ q # k3.R[j] => l.L[q] = k3.L[q]
        /\ \A q \in Nodes(k3) : l.col[q] = k3.col[q] /\ l.row[q] = k3.row[q]
    BY ONLY <2>1, <1>4 DEF NewNode
  <2> QED
    BY <1>3, <2>2
<1>9. /\ l.col[w] = c1 /\ l.col[x] = c2 /\ l.col[y] = c3 /\ l.col[z] = c4
      /\ l.row[w] = id /\ l.row[x] = id /\ l.row[y] = id /\ l.row[z] = id
      /\ \A q \in Nodes(k) : l.col[q] = k.col[q] /\ l.row[q] = k.row[q]
  BY <1>5, <1>6, <1>7, <1>8
<1>10. Shape(l, A) /\ ColumnsHold(l, A, Nodes(l))
  BY DEF NewNode
<1>11. CASE i = w /\ j = w
  <2>1. /\ k3.R[w] = y /\ k3.R[y] = x /\ k3.R[x] = w
        /\ k3.L[x] = y /\ k3.L[y] = w /\ k3.L[w] = x
        /\ \A q \in Y : k3.R[q] = k2.R[q] /\ k3.L[q] = k2.L[q]
    BY <1>1, <1>2, <1>6, <1>7, <1>11
  <2>2. /\ l.R[w] = z /\ l.R[z] = y /\ l.R[y] = x /\ l.R[x] = w
        /\ l.L[z] = w /\ l.L[y] = z /\ l.L[x] = y /\ l.L[w] = x
        /\ \A q \in Y : l.R[q] = k3.R[q] /\ l.L[q] = k3.L[q]
    BY <1>1, <1>2, <1>8, <1>11, <2>1
  <2>3. InTurn(l, w, z, y, x)
    BY <2>2 DEF InTurn
  <2>4. \A q \in Y : l.R[q] = k.R[q] /\ l.L[q] = k.L[q]
    BY <1>5, <1>6, <2>1, <2>2
  <2>5. {w, z, y, x} = (k.tot + 1)..(k.tot + 4)
    BY <1>1
  <2>6. NewRow(k, l, A, id, {l.col[w], l.col[z], l.col[y], l.col[x]})
    BY <1>1, <1>9, <1>10, <2>3, <2>4, <2>5, RowIsNew
  <2>7. {l.col[w], l.col[z], l.col[y], l.col[x]} = {c1, c2, c3, c4}
    BY <1>9
  <2> QED
    BY <2>6, <2>7
<1>12. CASE i = x /\ j = y
  <2>1. /\ k3.R[w] = x /\ k3.R[x] = y /\ k3.R[y] = w
        /\ k3.L[x] = w /\ k3.L[y] = x /\ k3.L[w] = y
        /\ \A q \in Y : k3.R[q] = k2.R[q] /\ k3.L[q] = k2.L[q]
    BY <1>1, <1>2, <1>6, <1>7, <1>12
  <2>2. /\ l.R[w] = x /\ l.R[x] = y /\ l.R[y] = z /\ l.R[z] = w
        /\ l.L[x] = w /\ l.L[y] = x /\ l.L[z] = y /\ l.L[w] = z
        /\ \A q \in Y : l.R[q] = k3.R[q] /\ l.L[q] = k3.L[q]
    BY <1>1, <1>2, <1>8, <1>12, <2>1
  <2>3. InTurn(l, w, x, y, z)
    BY <2>2 DEF InTurn
  <2>4. \A q \in Y : l.R[q] = k.R[q] /\ l.L[q] = k.L[q]
    BY <1>5, <1>6, <2>1, <2>2
  <2>6. NewRow(k, l, A, id, {l.col[w], l.col[x], l.col[y], l.col[z]})
    BY <1>1, <1>9, <1>10, <2>3, <2>4, RowIsNew
  <2> QED
    BY <1>9, <2>6
<1> QED
  BY <1>0, <1>11, <1>12

(* The row of a candidate, as DLX inserts it. *)
LEMMA DLXInsertIs ==
    ASSUME NEW k, NEW A, Shape(k, A), ColumnsHold(k, A, Nodes(k)), Rows(k), k.tot >= 4 * N,
           NEW cell \in Cells, NEW v \in Values, ColumnSet(cell, v) \subseteq A
    PROVE  NewRow(k, DLXInsert(k, cell, v), A, GetId(cell, v), ColumnSet(cell, v))
<1> DEFINE s == ColumnsOf(cell, v)
           id == GetId(cell, v)
           w == k.tot + 1
           h == CHOOSE f : f = [x \in 0..Len(s) |->
                    IF x = 0 THEN k ELSE AddNode(f[x - 1], id, s[x], s[x], w)]
           c1 == s[1]
           c2 == s[2]
           c3 == s[3]
           c4 == s[4]
           k1 == AddNode(k, id, c1, c1, w)
           k2 == AddNode(k1, id, c2, c2, w)
           k3 == AddNode(k2, id, c3, c3, w)
           l == AddNode(k3, id, c4, c4, w)
<1>1. DLXInsert(k, cell, v) = h[Len(s)]
  BY DEF DoAll, DLXInsert
<1>2. Len(s) = 4
  BY DEF ColumnsOf
<1>3. \E f : f = [x \in 0..4 |-> IF x = 0 THEN k ELSE AddNode(f[x - 1], id, s[x], s[x], w)]
  <2> DEFINE f == [x \in 0..4 |-> IF x = 0 THEN k ELSE IF x = 1 THEN k1 ELSE IF x = 2 THEN k2
                                 ELSE IF x = 3 THEN k3 ELSE l]
  <2> HIDE DEF k1, k2, k3, l
  <2>1. f[0] = k /\ f[1] = k1 /\ f[2] = k2 /\ f[3] = k3 /\ f[4] = l /\ DOMAIN f = 0..4
    OBVIOUS
  <2>2. \A x \in 0..4 : f[x] = IF x = 0 THEN k ELSE AddNode(f[x - 1], id, s[x], s[x], w)
    <3>1. f[1] = AddNode(f[1 - 1], id, s[1], s[1], w)
      BY <2>1 DEF k1
    <3>2. f[2] = AddNode(f[2 - 1], id, s[2], s[2], w)
      BY <2>1 DEF k2
    <3>3. f[3] = AddNode(f[3 - 1], id, s[3], s[3], w)
      BY <2>1 DEF k3
    <3>4. f[4] = AddNode(f[4 - 1], id, s[4], s[4], w)
      BY <2>1 DEF l
    <3> HIDE DEF f, s, id, w
    <3> QED
      BY <2>1, <3>1, <3>2, <3>3, <3>4
  <2>3. f = [x \in 0..4 |-> IF x = 0 THEN k ELSE AddNode(f[x - 1], id, s[x], s[x], w)]
    <3> HIDE DEF s, id, w
    <3> SUFFICES ASSUME NEW x \in 0..4
                 PROVE  f[x] = IF x = 0 THEN k ELSE AddNode(f[x - 1], id, s[x], s[x], w)
      BY DEF f
    <3> QED
      BY <2>2
  <2> HIDE DEF f
  <2> QED
    BY <2>3
<1>4. h = [x \in 0..4 |-> IF x = 0 THEN k ELSE AddNode(h[x - 1], id, s[x], s[x], w)]
  BY <1>2, <1>3
<1> HIDE DEF h, s, id, w
<1>5. h[0] = k /\ h[1] = k1 /\ h[2] = k2 /\ h[3] = k3 /\ h[4] = l
  <2>1. h[0] = k
    BY <1>4
  <2>2. h[1] = AddNode(h[1 - 1], id, s[1], s[1], w)
    BY ONLY <1>4
  <2>3. h[2] = AddNode(h[2 - 1], id, s[2], s[2], w)
    BY ONLY <1>4
  <2>4. h[3] = AddNode(h[3 - 1], id, s[3], s[3], w)
    BY ONLY <1>4
  <2>5. h[4] = AddNode(h[4 - 1], id, s[4], s[4], w)
    BY ONLY <1>4
  <2> QED
    BY <2>1, <2>2, <2>3, <2>4, <2>5
<1>6. DLXInsert(k, cell, v) = l
  BY <1>1, <1>2, <1>5
<1>7. /\ ColumnSet(cell, v) = {c1, c2, c3, c4}
      /\ c1 \in A /\ c2 \in A /\ c3 \in A /\ c4 \in A
      /\ c1 # c2 /\ c1 # c3 /\ c1 # c4 /\ c2 # c3 /\ c2 # c4 /\ c3 # c4
  <2>1. /\ c1 = RowColumn(Row(cell), v) /\ c2 = ColColumn(Col(cell), v)
        /\ c3 = BoxColumn(BoxOf(cell), v) /\ c4 = CellColumn(cell)
    BY DEF s, ColumnsOf
  <2>2. ColumnSet(cell, v) = {c1, c2, c3, c4}
    BY <2>1 DEF ColumnSet
  <2>3. N \in Nat
    BY BoardSizes
  <2>4. c1 \in 1..N /\ c2 \in (N + 1)..(2 * N) /\ c3 \in (2 * N + 1)..(3 * N)
        /\ c4 \in (3 * N + 1)..(4 * N)
    BY <2>1, ColumnNumbers
  <2> HIDE DEF N, c1, c2, c3, c4
  <2>5. c1 # c2 /\ c1 # c3 /\ c1 # c4 /\ c2 # c3 /\ c2 # c4 /\ c3 # c4
    BY <2>3, <2>4
  <2> QED
    BY <2>2, <2>5
<1>8. id \in Nat /\ k.tot \in Nat /\ 4 * N \in Nat /\ w = k.tot + 1
  <2>1. \A a \in 1..(N * NUM) : a \in Nat
    BY BoardSizes
  <2>2. id \in 1..(N * NUM)
    BY CandidateNumbers DEF id
  <2> QED
    BY <2>1, <2>2, BoardSizes DEF Shape, w
<1> HIDE DEF c1, c2, c3, c4
<1>9. NewNode(k, k1, A, id, c1, w)
  BY <1>7, <1>8, AddNodeIsNew
<1> HIDE DEF k1
<1>10. /\ Shape(k1, A) /\ ColumnsHold(k1, A, Nodes(k1)) /\ k1.tot = w /\ w \in Nodes(k1)
       /\ k1.tot >= 4 * N
  BY <1>8, <1>9 DEF NewNode, Nodes
<1>11. NewNode(k1, k2, A, id, c2, w)
  BY <1>7, <1>8, <1>10, AddNodeIsNew
<1> HIDE DEF k2
<1>12. /\ Shape(k2, A) /\ ColumnsHold(k2, A, Nodes(k2)) /\ k2.tot = w + 1 /\ w \in Nodes(k2)
       /\ k2.tot >= 4 * N
  <2>1. k2.tot = w + 1 /\ Shape(k2, A) /\ ColumnsHold(k2, A, Nodes(k2))
    BY <1>10, <1>11 DEF NewNode
  <2> QED
    BY <1>8, <2>1 DEF Nodes
<1>13. NewNode(k2, k3, A, id, c3, w)
  BY <1>7, <1>8, <1>12, AddNodeIsNew
<1> HIDE DEF k3
<1>14. /\ Shape(k3, A) /\ ColumnsHold(k3, A, Nodes(k3)) /\ k3.tot = w + 2 /\ w \in Nodes(k3)
       /\ k3.tot >= 4 * N
  <2>1. k3.tot = (w + 1) + 1 /\ Shape(k3, A) /\ ColumnsHold(k3, A, Nodes(k3))
    BY <1>12, <1>13 DEF NewNode
  <2> QED
    BY <1>8, <2>1 DEF Nodes
<1>15. NewNode(k3, l, A, id, c4, w)
  BY <1>7, <1>8, <1>14, AddNodeIsNew
<1> HIDE DEF l
<1>16. NewRow(k, l, A, id, {c1, c2, c3, c4})
  BY ONLY <1>7, <1>8, <1>9, <1>11, <1>13, <1>15, Shape(k, A), Rows(k), k.tot >= 4 * N, FourNodes
<1> QED
  BY <1>6, <1>7, <1>16 DEF id
(* The row of a candidate, as Dance appends it. *)
LEMMA DanceRowIs ==
    ASSUME NEW k, NEW A, Shape(k, A), ColumnsHold(k, A, Nodes(k)), Rows(k), k.tot >= 4 * N,
           NEW cell \in Cells, NEW v \in Values, ColumnSet(cell, v) \subseteq A
    PROVE  NewRow(k, DanceRow(k, cell, v), A, GetId(cell, v), ColumnSet(cell, v))
<1> DEFINE t == ColumnsOf(cell, v)
           s == <<t[4], t[1], t[2], t[3]>>
           id == GetId(cell, v)
           w == k.tot + 1
           Left(m) == IF m.tot = k.tot THEN w ELSE m.L[w]
           h == CHOOSE f : f = [x \in 0..Len(s) |->
                    IF x = 0 THEN k
      ELSE AddNode(f[x - 1], id, s[x], f[x - 1].U[s[x]], Left(f[x - 1]))]
           c1 == s[1]
           c2 == s[2]
           c3 == s[3]
           c4 == s[4]
           k1 == AddNode(k, id, c1, k.U[c1], Left(k))
           k2 == AddNode(k1, id, c2, k1.U[c2], Left(k1))
           k3 == AddNode(k2, id, c3, k2.U[c3], Left(k2))
           l == AddNode(k3, id, c4, k3.U[c4], Left(k3))
<1>1. DanceRow(k, cell, v) = h[Len(s)]
  BY DEF DoAll, DanceRow
<1>2. Len(s) = 4
  OBVIOUS
<1>3. \E f : f = [x \in 0..4 |-> IF x = 0 THEN k
      ELSE AddNode(f[x - 1], id, s[x], f[x - 1].U[s[x]], Left(f[x - 1]))]
  <2> DEFINE f == [x \in 0..4 |-> IF x = 0 THEN k ELSE IF x = 1 THEN k1 ELSE IF x = 2 THEN k2
                                 ELSE IF x = 3 THEN k3 ELSE l]
  <2> HIDE DEF k1, k2, k3, l
  <2>1. f[0] = k /\ f[1] = k1 /\ f[2] = k2 /\ f[3] = k3 /\ f[4] = l /\ DOMAIN f = 0..4
    OBVIOUS
  <2>2. \A x \in 0..4 : f[x] = IF x = 0 THEN k
      ELSE AddNode(f[x - 1], id, s[x], f[x - 1].U[s[x]], Left(f[x - 1]))
    <3>1. f[1] = AddNode(f[1 - 1], id, s[1], f[1 - 1].U[s[1]], Left(f[1 - 1]))
      BY <2>1 DEF k1
    <3>2. f[2] = AddNode(f[2 - 1], id, s[2], f[2 - 1].U[s[2]], Left(f[2 - 1]))
      BY <2>1 DEF k2
    <3>3. f[3] = AddNode(f[3 - 1], id, s[3], f[3 - 1].U[s[3]], Left(f[3 - 1]))
      BY <2>1 DEF k3
    <3>4. f[4] = AddNode(f[4 - 1], id, s[4], f[4 - 1].U[s[4]], Left(f[4 - 1]))
      BY <2>1 DEF l
    <3> HIDE DEF f, s, id, w
    <3> QED
      BY <2>1, <3>1, <3>2, <3>3, <3>4
  <2>3. f = [x \in 0..4 |-> IF x = 0 THEN k
      ELSE AddNode(f[x - 1], id, s[x], f[x - 1].U[s[x]], Left(f[x - 1]))]
    <3> HIDE DEF s, id, w
    <3> SUFFICES ASSUME NEW x \in 0..4
                 PROVE  f[x] = IF x = 0 THEN k
      ELSE AddNode(f[x - 1], id, s[x], f[x - 1].U[s[x]], Left(f[x - 1]))
      BY DEF f
    <3> QED
      BY <2>2
  <2> HIDE DEF f
  <2> QED
    BY <2>3
<1>4. h = [x \in 0..4 |-> IF x = 0 THEN k
      ELSE AddNode(h[x - 1], id, s[x], h[x - 1].U[s[x]], Left(h[x - 1]))]
  BY <1>2, <1>3
<1> HIDE DEF h, s, id, w
<1>5. h[0] = k /\ h[1] = k1 /\ h[2] = k2 /\ h[3] = k3 /\ h[4] = l
  <2>1. h[0] = k
    BY <1>4
  <2>2. h[1] = k1
    <3>1. h[1] = AddNode(h[1 - 1], id, s[1], h[1 - 1].U[s[1]], Left(h[1 - 1]))
      BY ONLY <1>4
    <3>2. 1 - 1 = 0
      OBVIOUS
    <3> HIDE DEF Left
    <3> QED
      BY ONLY <2>1, <3>1, <3>2 DEF k1, c1
  <2>3. h[2] = k2
    <3>1. h[2] = AddNode(h[2 - 1], id, s[2], h[2 - 1].U[s[2]], Left(h[2 - 1]))
      BY ONLY <1>4
    <3>2. 2 - 1 = 1
      OBVIOUS
    <3> HIDE DEF Left
    <3> QED
      BY ONLY <2>2, <3>1, <3>2 DEF k2, c2
  <2>4. h[3] = k3
    <3>1. h[3] = AddNode(h[3 - 1], id, s[3], h[3 - 1].U[s[3]], Left(h[3 - 1]))
      BY ONLY <1>4
    <3>2. 3 - 1 = 2
      OBVIOUS
    <3> HIDE DEF Left
    <3> QED
      BY ONLY <2>3, <3>1, <3>2 DEF k3, c3
  <2>5. h[4] = l
    <3>1. h[4] = AddNode(h[4 - 1], id, s[4], h[4 - 1].U[s[4]], Left(h[4 - 1]))
      BY ONLY <1>4
    <3>2. 4 - 1 = 3
      OBVIOUS
    <3> HIDE DEF Left
    <3> QED
      BY ONLY <2>4, <3>1, <3>2 DEF l, c4
  <2> QED
    BY <2>1, <2>2, <2>3, <2>4, <2>5
<1>6. DanceRow(k, cell, v) = l
  <2> HIDE DEF l
  <2> QED
    BY ONLY <1>1, <1>2, <1>5
<1>7. /\ ColumnSet(cell, v) = {c1, c2, c3, c4}
      /\ c1 \in A /\ c2 \in A /\ c3 \in A /\ c4 \in A
      /\ c1 # c2 /\ c1 # c3 /\ c1 # c4 /\ c2 # c3 /\ c2 # c4 /\ c3 # c4
  <2>1. /\ c2 = RowColumn(Row(cell), v) /\ c3 = ColColumn(Col(cell), v)
        /\ c4 = BoxColumn(BoxOf(cell), v) /\ c1 = CellColumn(cell)
    BY DEF s, ColumnsOf
  <2>2. ColumnSet(cell, v) = {c1, c2, c3, c4}
    BY <2>1 DEF ColumnSet
  <2>3. N \in Nat
    BY BoardSizes
  <2>4. c2 \in 1..N /\ c3 \in (N + 1)..(2 * N) /\ c4 \in (2 * N + 1)..(3 * N)
        /\ c1 \in (3 * N + 1)..(4 * N)
    BY <2>1, ColumnNumbers
  <2> HIDE DEF N, c1, c2, c3, c4
  <2>5. c1 # c2 /\ c1 # c3 /\ c1 # c4 /\ c2 # c3 /\ c2 # c4 /\ c3 # c4
    BY <2>3, <2>4
  <2> QED
    BY <2>2, <2>5
<1>8. id \in Nat /\ k.tot \in Nat /\ 4 * N \in Nat /\ w = k.tot + 1
  <2>1. \A a \in 1..(N * NUM) : a \in Nat
    BY BoardSizes
  <2>2. id \in 1..(N * NUM)
    BY CandidateNumbers DEF id
  <2> QED
    BY <2>1, <2>2, BoardSizes DEF Shape, w
<1> HIDE DEF c1, c2, c3, c4
<1>9. NewNode(k, k1, A, id, c1, w)
  <2>1. k1 = AddNode(k, id, c1, k.U[c1], w)
    BY DEF k1
  <2> HIDE DEF Left
  <2> QED
    BY <1>7, <1>8, <2>1, AddNodeIsNew
<1> HIDE DEF k1
<1>10. /\ Shape(k1, A) /\ ColumnsHold(k1, A, Nodes(k1)) /\ k1.tot = w /\ w \in Nodes(k1)
       /\ k1.tot >= 4 * N /\ k1.L[w] = w /\ k1.R[w] = w
  BY <1>8, <1>9 DEF NewNode, Nodes
<1>11. NewNode(k1, k2, A, id, c2, w)
  <2>1. Left(k1) = w
    BY <1>8, <1>10
  <2>2. k2 = AddNode(k1, id, c2, k1.U[c2], w)
    BY <2>1 DEF k2
  <2> HIDE DEF Left
  <2> QED
    BY <1>7, <1>8, <1>10, <2>2, AddNodeIsNew
<1> HIDE DEF k2
<1>12. /\ Shape(k2, A) /\ ColumnsHold(k2, A, Nodes(k2)) /\ k2.tot = w + 1 /\ w + 1 \in Nodes(k2)
       /\ k2.tot >= 4 * N /\ k2.L[w] = w + 1 /\ k2.R[w + 1] = w
  <2>1. /\ k2.tot = w + 1 /\ Shape(k2, A) /\ ColumnsHold(k2, A, Nodes(k2))
        /\ w # w + 1 => k2.L[k1.R[w]] = w + 1
        /\ k2.R[w + 1] = IF w = w + 1 THEN w + 1 ELSE k1.R[w]
    BY <1>10, <1>11 DEF NewNode
  <2> QED
    BY <1>8, <1>10, <2>1 DEF Nodes
<1>13. NewNode(k2, k3, A, id, c3, w + 1)
  <2>1. Left(k2) = w + 1
    BY <1>8, <1>12
  <2>2. k3 = AddNode(k2, id, c3, k2.U[c3], w + 1)
    BY <2>1 DEF k3
  <2> HIDE DEF Left
  <2> QED
    BY <1>7, <1>8, <1>12, <2>2, AddNodeIsNew
<1> HIDE DEF k3
<1>14. /\ Shape(k3, A) /\ ColumnsHold(k3, A, Nodes(k3)) /\ k3.tot = w + 2 /\ w + 2 \in Nodes(k3)
       /\ k3.tot >= 4 * N /\ k3.L[w] = w + 2
  <2>1. /\ k3.tot = (w + 1) + 1 /\ Shape(k3, A) /\ ColumnsHold(k3, A, Nodes(k3))
        /\ w + 1 # (w + 1) + 1 => k3.L[k2.R[w + 1]] = (w + 1) + 1
    BY <1>12, <1>13 DEF NewNode
  <2> QED
    BY <1>8, <1>12, <2>1 DEF Nodes
<1>15. NewNode(k3, l, A, id, c4, w + 2)
  <2>1. Left(k3) = w + 2
    BY <1>8, <1>14
  <2>2. l = AddNode(k3, id, c4, k3.U[c4], w + 2)
    BY <2>1 DEF l
  <2> HIDE DEF Left
  <2> QED
    BY <1>7, <1>8, <1>14, <2>2, AddNodeIsNew
<1> HIDE DEF l
<1>16. NewRow(k, l, A, id, {c1, c2, c3, c4})
  <2> DEFINE x == w + 1
             y == w + 2
  <2>1. /\ Shape(k, A) /\ Rows(k) /\ k.tot >= 4 * N /\ w = k.tot + 1
        /\ c1 # c2 /\ c1 # c3 /\ c1 # c4 /\ c2 # c3 /\ c2 # c4 /\ c3 # c4
        /\ NewNode(k, k1, A, id, c1, w) /\ NewNode(k1, k2, A, id, c2, w)
        /\ NewNode(k2, k3, A, id, c3, x) /\ NewNode(k3, l, A, id, c4, y)
    BY <1>7, <1>8, <1>9, <1>11, <1>13, <1>15
  <2>2. (x = w /\ y = w) \/ (x = w + 1 /\ y = w + 2)
    OBVIOUS
  <2> HIDE DEF x, y
  <2> QED
    BY ONLY <2>1, <2>2, FourNodes
<1> QED
  BY <1>6, <1>7, <1>16 DEF id
-----------------------------------------------------------------------------
(* The columns and their headers. *)

(* DanceColumn takes the columns in another order. *)
LEMMA DanceColumns ==
    /\ \A i \in 1..(4 * N) : DanceColumn(i) \in 1..(4 * N)
    /\ \A i, j \in 1..(4 * N) : DanceColumn(i) = DanceColumn(j) => i = j
    /\ \A c \in 1..(4 * N) : \E i \in 1..(4 * N) : DanceColumn(i) = c
<1>1. N \in Nat \ {0} /\ 3 \in Nat \ {0}
  BY BoardSizes
<1> HIDE DEF N
<1> DEFINE q(i) == (i - N - 1) % 3
           r(i) == (i - N - 1) \div 3
<1>2. ASSUME NEW i \in (N + 1)..(4 * N)
      PROVE  /\ r(i) \in 0..(N - 1) /\ q(i) \in 0..2 /\ i = N + 1 + (3 * r(i) + q(i))
             /\ DanceColumn(i) = (N * q(i) + r(i)) + 1 /\ N * q(i) + r(i) \in 0..(3 * N - 1)
  <2> DEFINE x == i - N - 1
             d == x \div 3
             e == x % 3
  <2>1. x \in 0..(3 * N - 1) /\ i = N + 1 + x /\ ~(i <= N)
    BY <1>1, <1>2
  <2>2. DanceColumn(i) = N * e + d + 1 /\ q(i) = e /\ r(i) = d
    BY <2>1 DEF DanceColumn
  <2> HIDE DEF x, q, r
  <2>3. d \in 0..(N - 1) /\ e \in 0..(3 - 1) /\ x = 3 * d + e
    BY <1>1, <2>1, DivisionBelow
  <2> HIDE DEF d, e
  <2>4. N * e \in Nat /\ N * 3 = 3 * N
    BY <1>1, <2>3
  <2>5. N * e + d \in 0..(N * 3 - 1)
    BY <1>1, <2>3, ProductBelow
  <2>6. N * e + d + 1 = (N * e + d) + 1
    BY <2>3, <2>4
  <2> QED
    BY <2>1, <2>2, <2>3, <2>4, <2>5, <2>6
<1> HIDE DEF q, r
<1>3. ASSUME NEW i \in (N + 1)..(4 * N)
      PROVE  DanceColumn(i) \in 1..(3 * N)
  <2> DEFINE a == N * q(i) + r(i)
  <2>1. a \in 0..(3 * N - 1) /\ DanceColumn(i) = a + 1
    BY <1>2
  <2> HIDE DEF a
  <2> QED
    BY <1>1, <2>1
<1>4. \A i \in 1..N : DanceColumn(i) = 3 * N + i
  BY <1>1 DEF DanceColumn
<1>5. ASSUME NEW i \in (N + 1)..(4 * N), NEW j \in (N + 1)..(4 * N), DanceColumn(i) = DanceColumn(j)
      PROVE  i = j
  <2> DEFINE a == q(i)
             b == r(i)
             c == q(j)
             d == r(j)
  <2>1. a \in Nat /\ c \in Nat /\ b \in 0..(N - 1) /\ d \in 0..(N - 1)
    BY <1>2
  <2>2. N * a + b = N * c + d
    <3> DEFINE s == N * a + b
               t == N * c + d
    <3>1. s \in Int /\ t \in Int /\ DanceColumn(i) = s + 1 /\ DanceColumn(j) = t + 1
      BY <1>2
    <3> HIDE DEF s, t
    <3>2. s + 1 = t + 1
      BY <1>5, <3>1
    <3>3. s = t
      BY ONLY <3>1, <3>2
    <3> QED
      BY <3>3 DEF s, t
  <2>3. i = N + 1 + (3 * b + a) /\ j = N + 1 + (3 * d + c)
    BY <1>2
  <2> HIDE DEF a, b, c, d
  <2>4. (N * a + b) \div N = a /\ (N * a + b) % N = b /\ (N * c + d) \div N = c
        /\ (N * c + d) % N = d
    BY <1>1, <2>1, DivisionIsUnique
  <2> QED
    BY <2>2, <2>3, <2>4
<1>6. ASSUME NEW c \in 1..(3 * N)
      PROVE  \E i \in 1..(4 * N) : DanceColumn(i) = c
  <2> DEFINE a == (c - 1) \div N
             b == (c - 1) % N
             x == 3 * b + a
             i == N + 1 + x
  <2>1. c - 1 \in 0..(N * 3 - 1)
    BY <1>1
  <2>2. a \in 0..(3 - 1) /\ b \in 0..(N - 1) /\ c - 1 = N * a + b
    BY <1>1, <2>1, DivisionBelow
  <2> HIDE DEF a, b
  <2>3. x \in 0..(3 * N - 1) /\ x \div 3 = b /\ x % 3 = a
    BY <1>1, <2>2, ProductBelow, DivisionIsUnique
  <2> HIDE DEF x
  <2>4. i \in (N + 1)..(4 * N) /\ i - N - 1 = x
    BY <1>1, <2>3
  <2>5. DanceColumn(i) = (N * a + b) + 1
    BY <1>2, <2>3, <2>4 DEF q, r
  <2>6. (c - 1) + 1 = c /\ i \in 1..(4 * N)
    BY <1>1, <2>4
  <2> HIDE DEF i
  <2> QED
    BY <2>2, <2>5, <2>6
<1>7. \A i \in 1..(4 * N) : i \in 1..N \/ i \in (N + 1)..(4 * N)
  BY <1>1
<1>8. \A i \in 1..N : DanceColumn(i) \in (3 * N + 1)..(4 * N)
  BY <1>1, <1>4
<1>9. \A c \in 1..(4 * N) : c \in 1..(3 * N) \/ (c - 3 * N \in 1..N /\ 3 * N + (c - 3 * N) = c)
  BY <1>1
<1>10. \A i, j \in 1..N : DanceColumn(i) = DanceColumn(j) => i = j
  BY <1>1, <1>4
<1>11. \A i \in (3 * N + 1)..(4 * N) : i \notin 1..(3 * N) /\ i \in 1..(4 * N)
  BY <1>1
<1>12. \A i \in 1..(3 * N) : i \in 1..(4 * N)
  BY <1>1
<1>13. \A i \in 1..N : i \in 1..(4 * N)
  BY <1>1
<1>14. \A i \in 1..(4 * N) : DanceColumn(i) \in 1..(4 * N)
  BY <1>3, <1>7, <1>8, <1>11, <1>12
<1>15. \A i, j \in 1..(4 * N) : DanceColumn(i) = DanceColumn(j) => i = j
  BY <1>3, <1>5, <1>7, <1>8, <1>10, <1>11
<1>16. \A c \in 1..(4 * N) : \E i \in 1..(4 * N) : DanceColumn(i) = c
  BY <1>4, <1>6, <1>9, <1>13
<1> QED
  BY <1>14, <1>15, <1>16

(* The columns that a solver has: those that no clue meets, in Dance. *)
AllColumns(p) == IF solver = "DLX" THEN 1..(4 * N) ELSE (1..(4 * N)) \ MetByClues(p)

(* The recursive function of ColumnOrder. *)
Opening(M, f, k) ==
    f = [i \in 0..k |-> IF i = 0 THEN <<>>
                        ELSE IF DanceColumn(i) \in M THEN f[i - 1]
                        ELSE Append(f[i - 1], DanceColumn(i))]

(* It exists. *)
LEMMA OpeningExists ==
    ASSUME NEW M, NEW k \in Nat
    PROVE  \E f : Opening(M, f, k)
<1> DEFINE S == {n \in Nat : \E f : Opening(M, f, n)}
<1>1. 0 \in S
  <2>1. Opening(M, [j \in 0..0 |-> <<>>], 0)
    BY DEF Opening
  <2> QED
    BY <2>1
<1>2. ASSUME NEW n \in Nat, n \in S PROVE n + 1 \in S
  <2>1. PICK f : Opening(M, f, n)
    BY <1>2
  <2> DEFINE c == DanceColumn(n + 1)
             last == IF c \in M THEN f[n] ELSE Append(f[n], c)
             g == [j \in 0..(n + 1) |-> IF j = n + 1 THEN last ELSE f[j]]
  <2>2. \A j \in 0..n : f[j] = IF j = 0 THEN <<>>
                               ELSE IF DanceColumn(j) \in M THEN f[j - 1]
                               ELSE Append(f[j - 1], DanceColumn(j))
    BY <2>1 DEF Opening
  <2>3. DOMAIN g = 0..(n + 1) /\ g = [j \in 0..(n + 1) |-> g[j]]
    OBVIOUS
  <2>4. g[n + 1] = last /\ \A j \in 0..n : g[j] = f[j]
    OBVIOUS
  <2> HIDE DEF g
  <2>5. ASSUME NEW j \in 0..(n + 1)
        PROVE  g[j] = IF j = 0 THEN <<>>
                      ELSE IF DanceColumn(j) \in M THEN g[j - 1]
                      ELSE Append(g[j - 1], DanceColumn(j))
    <3>1. CASE j = n + 1
      <4>1. j # 0 /\ j - 1 = n /\ g[j - 1] = f[n]
        BY <2>4, <3>1
      <4> QED
        BY <2>4, <3>1, <4>1
    <3>2. CASE j \in 1..n
      <4>1. g[j] = f[j] /\ g[j - 1] = f[j - 1] /\ j # 0
        BY <2>4, <3>2
      <4> QED
        BY <2>2, <3>2, <4>1
    <3>3. CASE j = 0
      BY <2>2, <2>4, <3>3
    <3> QED
      BY <3>1, <3>2, <3>3
  <2>6. Opening(M, g, n + 1)
    BY <2>3, <2>5 DEF Opening
  <2> QED
    BY <2>6
<1> HIDE DEF S
<1>3. k \in S
  BY <1>1, <1>2, NatSetInduction
<1> QED
  BY <1>3 DEF S

(* The columns are appended once each. *)
LEMMA ColumnOrderIs ==
    ASSUME NEW p
    PROVE  Enumerates(ColumnOrder(p), AllColumns(p))
<1> DEFINE e == 4 * N
           M == MetByClues(p)
<1>0. e \in Nat
  BY BoardSizes
<1>1. CASE solver = "DLX"
  <2>1. ColumnOrder(p) = [i \in 1..e |-> i] /\ AllColumns(p) = 1..e
    BY <1>1 DEF ColumnOrder, AllColumns
  <2> HIDE DEF e
  <2> QED
    BY <1>0, <2>1 DEF Enumerates
<1>2. CASE solver # "DLX"
  <2> DEFINE f == CHOOSE g : Opening(M, g, e)
             Before(k) == {DanceColumn(i) : i \in 1..k} \ M
             S == {k \in Nat : k <= e => Enumerates(f[k], Before(k))}
  <2>1. ColumnOrder(p) = f[e] /\ AllColumns(p) = (1..e) \ M
    BY <1>2 DEF ColumnOrder, AllColumns, Opening
  <2>2. Opening(M, f, e)
    BY <1>0, OpeningExists
  <2>3. \A i, j \in 1..e : DanceColumn(i) = DanceColumn(j) => i = j
    BY DanceColumns
  <2>4. {DanceColumn(i) : i \in 1..e} = 1..e
    BY DanceColumns
  <2> HIDE DEF f, e, M
  <2>5. \A k \in 0..e : f[k] = IF k = 0 THEN <<>>
                               ELSE IF DanceColumn(k) \in M THEN f[k - 1]
                               ELSE Append(f[k - 1], DanceColumn(k))
    BY <2>2 DEF Opening
  <2>6. 0 \in S
    <3>1. f[0] = <<>> /\ Before(0) = {}
      BY <1>0, <2>5
    <3>2. Enumerates(<<>>, {})
      BY DEF Enumerates
    <3> QED
      BY <3>1, <3>2
  <2>7. ASSUME NEW k \in Nat, k \in S, k + 1 <= e PROVE Enumerates(f[k + 1], Before(k + 1))
    <3> DEFINE c == DanceColumn(k + 1)
    <3>1. Enumerates(f[k], Before(k))
      BY <1>0, <2>7
    <3>2. f[k + 1] = IF c \in M THEN f[k] ELSE Append(f[k], c)
      BY <1>0, <2>5, <2>7
    <3>3. {DanceColumn(i) : i \in 1..(k + 1)} = {DanceColumn(i) : i \in 1..k} \cup {c}
      <4>1. 1..(k + 1) = 1..k \cup {k + 1}
        BY <2>7
      <4> QED
        BY <4>1
    <3>4. c \notin {DanceColumn(i) : i \in 1..k}
      BY <1>0, <2>3, <2>7
    <3> HIDE DEF c
    <3>5. CASE c \in M
      <4>1. Before(k + 1) = Before(k)
        BY <3>3, <3>5
      <4> QED
        BY <3>1, <3>2, <3>5, <4>1
    <3>6. CASE c \notin M
      <4>1. Before(k + 1) = Before(k) \cup {c} /\ c \notin Before(k)
        BY <3>3, <3>4, <3>6
      <4> HIDE DEF Before
      <4>2. Enumerates(Append(f[k], c), Before(k) \cup {c})
        BY <3>1, <4>1, EnumeratesMore
      <4> QED
        BY <3>2, <3>6, <4>1, <4>2
    <3> QED
      BY <3>5, <3>6
  <2>8. \A k \in Nat : k \in S => k + 1 \in S
    <3> HIDE DEF Before
    <3> QED
      BY <2>7
  <2>9. e \in S
    <3> HIDE DEF S
    <3> QED
      BY <1>0, <2>6, <2>8, NatSetInduction
  <2>10. Enumerates(f[e], Before(e))
    BY <1>0, <2>9
  <2> QED
    BY <2>1, <2>4, <2>10
<1> QED
  BY <1>1, <1>2

(* The links to the right and to the left of the headers. *)
ToTheRight(ring) ==
    [c \in ToSet(ring) |-> ring[((CHOOSE i \in DOMAIN ring : ring[i] = c) % Len(ring)) + 1]]
ToTheLeft(ring) ==
    [c \in ToSet(ring) |-> IF c = root THEN Last(ring)
                           ELSE ring[(CHOOSE i \in DOMAIN ring : ring[i] = c) - 1]]

(* What the headers are. *)
LEMMA HeadersFields ==
    ASSUME NEW order, NEW k, k = Headers(order)
    PROVE  /\ k.tot = 4 * N /\ k.R = ToTheRight(<<root>> \o order)
           /\ k.L = ToTheLeft(<<root>> \o order)
           /\ k.U = [c \in ToSet(order) |-> c] /\ k.D = [c \in ToSet(order) |-> c]
           /\ k.siz = [c \in ToSet(order) |-> 0] /\ k.col = <<>> /\ k.row = <<>> /\ Fields(k)
<1> DEFINE R == ToTheRight(<<root>> \o order)
           L == ToTheLeft(<<root>> \o order)
           I == [c \in ToSet(order) |-> c]
           Z == [c \in ToSet(order) |-> 0]
           o == [c \in {root} |-> root]
           e == 4 * N
           a == [NoLinks EXCEPT !.R = R]
           b == [a EXCEPT !.L = L]
           c1 == [b EXCEPT !.U = I]
           d == [c1 EXCEPT !.D = I]
<1>1. k = [d EXCEPT !.siz = Z]
  BY DEF Headers, ToTheRight, ToTheLeft
<1>2. NoLinks = [tot |-> e, L |-> o, R |-> o, U |-> <<>>, D |-> <<>>, siz |-> <<>>,
                 col |-> <<>>, row |-> <<>>]
  BY DEF NoLinks
<1> HIDE DEF o, e, R, L, I, Z
<1>3. a = [tot |-> e, L |-> o, R |-> R, U |-> <<>>, D |-> <<>>, siz |-> <<>>,
           col |-> <<>>, row |-> <<>>]
  BY ONLY <1>2 DEF a
<1> HIDE DEF a
<1>4. b = [tot |-> e, L |-> L, R |-> R, U |-> <<>>, D |-> <<>>, siz |-> <<>>,
           col |-> <<>>, row |-> <<>>]
  BY ONLY <1>3 DEF b
<1> HIDE DEF b
<1>5. c1 = [tot |-> e, L |-> L, R |-> R, U |-> I, D |-> <<>>, siz |-> <<>>,
            col |-> <<>>, row |-> <<>>]
  BY ONLY <1>4 DEF c1
<1> HIDE DEF c1
<1>6. d = [tot |-> e, L |-> L, R |-> R, U |-> I, D |-> I, siz |-> <<>>,
           col |-> <<>>, row |-> <<>>]
  BY ONLY <1>5 DEF d
<1> HIDE DEF d
<1>7. k = [tot |-> e, L |-> L, R |-> R, U |-> I, D |-> I, siz |-> Z, col |-> <<>>, row |-> <<>>]
  BY ONLY <1>1, <1>6
<1>8. /\ k.tot = e /\ k.L = L /\ k.R = R /\ k.U = I /\ k.D = I /\ k.siz = Z
      /\ k.col = <<>> /\ k.row = <<>>
  BY ONLY <1>7
<1>9. Fields(k)
  BY ONLY <1>7, <1>8 DEF Fields
<1> QED
  BY <1>8, <1>9 DEF e, R, L, I, Z

(* The headers are in a row, and no column has a node yet. *)
LEMMA HeadersAre ==
    ASSUME NEW A, A \subseteq 1..(4 * N), NEW order, Enumerates(order, A),
           NEW k, k = Headers(order)
    PROVE  /\ Shape(k, A) /\ RingOf(k.R, k.L, root, A) /\ ColumnsHold(k, A, Nodes(k))
           /\ k.tot = 4 * N /\ Nodes(k) = {}
<1> DEFINE m == Len(order)
           ring == <<root>> \o order
           X == {root} \cup A
           Place(c) == CHOOSE i \in DOMAIN ring : ring[i] = c
           R == [c \in ToSet(ring) |-> ring[(Place(c) % Len(ring)) + 1]]
           L == [c \in ToSet(ring) |-> IF c = root THEN Last(ring) ELSE ring[Place(c) - 1]]
           I == [c \in ToSet(order) |-> c]
           Z == [c \in ToSet(order) |-> 0]
<1>1. /\ k.tot = 4 * N /\ k.L = L /\ k.R = R /\ k.U = I /\ k.D = I /\ k.siz = Z
      /\ k.col = <<>> /\ k.row = <<>> /\ Fields(k)
  <2>1. R = ToTheRight(ring)
    BY DEF ToTheRight
  <2>2. L = ToTheLeft(ring)
    BY DEF ToTheLeft
  <2>3. /\ k.tot = 4 * N /\ k.R = ToTheRight(ring) /\ k.L = ToTheLeft(ring)
        /\ k.U = I /\ k.D = I /\ k.siz = Z /\ k.col = <<>> /\ k.row = <<>> /\ Fields(k)
    BY HeadersFields
  <2> QED
    BY ONLY <2>1, <2>2, <2>3
<1>2. 4 * N \in Nat /\ root \notin A /\ m \in Nat /\ A \subseteq Nat
  BY BoardSizes DEF root, Enumerates
<1>3. Nodes(k) = {}
  BY <1>1, <1>2 DEF Nodes
<1>4. /\ Len(ring) = m + 1 /\ ring[1] = root /\ \A i \in 1..m : ring[i + 1] = order[i]
      /\ DOMAIN ring = 1..(m + 1)
  BY <1>2 DEF Enumerates
<1>5. ToSet(order) = A
  BY EnumeratesAll
<1>6. \A i \in 0..m : ring[i + 1] = At(order, root, i)
  BY <1>2, <1>4 DEF At
<1>7. At(order, root, m + 1) = root /\ At(order, root, 0) = root
  BY <1>2 DEF At
<1>8. \A i, j \in 0..m : At(order, root, i) = At(order, root, j) => i = j
  BY <1>2, PlacesDiffer
<1>9. ToSet(ring) = X
  <2>1. \A x \in X : \E i \in 0..m : At(order, root, i) = x
    <3>1. \A x \in A : \E i \in 1..m : x = At(order, root, i)
      BY <1>2, PlacesDiffer
    <3>2. 0 \in 0..m /\ \A i \in 1..m : i \in 0..m
      BY <1>2
    <3> QED
      BY <1>7, <3>1, <3>2
  <2>2. \A i \in 0..m : At(order, root, i) \in X
    BY <1>2 DEF At, Enumerates
  <2>3. \A j \in 1..(m + 1) : j - 1 \in 0..m /\ ring[j] = At(order, root, j - 1)
    BY <1>2, <1>6
  <2>4. \A i \in 0..m : i + 1 \in 1..(m + 1)
    BY <1>2
  <2>5. ToSet(ring) = {ring[j] : j \in 1..(m + 1)}
    BY <1>4 DEF ToSet
  <2> HIDE DEF ring, m, X
  <2> QED
    BY <1>6, <2>1, <2>2, <2>3, <2>4, <2>5
<1> HIDE DEF ring
<1>10. \A i \in 0..m : Place(At(order, root, i)) = i + 1
  <2> SUFFICES ASSUME NEW i \in 0..m
               PROVE  Place(ring[i + 1]) = i + 1
    BY <1>6
  <2>1. i + 1 \in DOMAIN ring
    BY <1>2, <1>4
  <2>2. \A j \in DOMAIN ring : ring[j] = ring[i + 1] => j = i + 1
    <3> SUFFICES ASSUME NEW j \in 1..(m + 1), ring[j] = ring[i + 1]
                 PROVE  j = i + 1
      BY <1>4
    <3>1. j - 1 \in 0..m /\ ring[(j - 1) + 1] = ring[i + 1]
      BY <1>2
    <3>2. j - 1 = i
      BY <1>6, <1>8, <3>1
    <3> QED
      BY <1>2, <3>2
  <2> QED
    BY <2>1, <2>2
<1> HIDE DEF Place
<1>11. \A i \in 0..m : R[At(order, root, i)] = At(order, root, i + 1)
  <2> SUFFICES ASSUME NEW i \in 0..m
               PROVE  R[At(order, root, i)] = At(order, root, i + 1)
    OBVIOUS
  <2>1. At(order, root, i) \in ToSet(ring)
    BY <1>2, <1>9 DEF At, Enumerates
  <2>2. R[At(order, root, i)] = ring[((i + 1) % (m + 1)) + 1]
    BY <1>4, <1>10, <2>1
  <2>3. CASE i < m
    <3>1. i + 1 \in 0..((m + 1) - 1) /\ m + 1 \in Nat \ {0} /\ 0 \in Nat
      BY <1>2, <2>3
    <3>2. ((m + 1) * 0 + (i + 1)) % (m + 1) = i + 1
      BY ONLY <3>1, DivisionIsUnique
    <3>3. (m + 1) * 0 + (i + 1) = i + 1 /\ i + 1 \in 0..m
      BY <1>2, <2>3
    <3> QED
      BY <1>6, <2>2, <3>2, <3>3
  <2>4. CASE i = m
    <3>1. 0 \in 0..((m + 1) - 1) /\ m + 1 \in Nat \ {0} /\ 1 \in Nat
      BY <1>2
    <3>2. ((m + 1) * 1 + 0) % (m + 1) = 0
      BY ONLY <3>1, DivisionIsUnique
    <3>3. (m + 1) * 1 + 0 = m + 1 /\ 0 + 1 = 1
      BY <1>2
    <3> QED
      BY <1>4, <1>7, <2>2, <2>4, <3>2, <3>3
  <2> QED
    BY <1>2, <2>3, <2>4
<1>12. \A i \in 0..m : L[At(order, root, i + 1)] = At(order, root, i)
  <2> SUFFICES ASSUME NEW i \in 0..m
               PROVE  L[At(order, root, i + 1)] = At(order, root, i)
    OBVIOUS
  <2>1. CASE i < m
    <3>1. i + 1 \in 1..m /\ i + 1 \in 0..m /\ (i + 1) + 1 - 1 = i + 1
      BY <1>2, <2>1
    <3>2. At(order, root, i + 1) \in A
      BY <3>1 DEF At, Enumerates
    <3>3. At(order, root, i + 1) \in ToSet(ring) /\ At(order, root, i + 1) # root
      BY <1>2, <1>9, <3>2
    <3>4. L[At(order, root, i + 1)] = ring[(i + 1) + 1 - 1]
      BY <1>10, <3>1, <3>3
    <3> QED
      BY <1>6, <3>1, <3>4
  <2>2. CASE i = m
    <3>1. L[root] = Last(ring)
      BY <1>9
    <3>2. Last(ring) = ring[m + 1]
      BY <1>4 DEF Last
    <3> QED
      BY <1>6, <1>7, <2>2, <3>1, <3>2
  <2> QED
    BY <1>2, <2>1, <2>2
<1>13. Linked(R, L, root, order)
  BY <1>11, <1>12 DEF Linked
<1>14. RingOf(k.R, k.L, root, A)
  BY <1>1, <1>13 DEF RingOf
<1>15. R \in [X -> X] /\ L \in [X -> X]
  <2>1. \A x \in X : \E i \in 0..m : x = At(order, root, i)
    <3>1. \A x \in A : \E i \in 1..m : x = At(order, root, i)
      BY <1>2, PlacesDiffer
    <3>2. 0 \in 0..m /\ \A i \in 1..m : i \in 0..m
      BY <1>2
    <3> QED
      BY <1>7, <3>1, <3>2
  <2>2. \A x \in X : \E i \in 0..m : x = At(order, root, i + 1)
    <3>1. \A x \in A : \E i \in 1..m : x = At(order, root, i) /\ i - 1 \in 0..m /\ (i - 1) + 1 = i
      BY <1>2, PlacesDiffer
    <3>2. m \in 0..m
      BY <1>2
    <3> HIDE DEF X
    <3> QED
      BY <1>7, <3>1, <3>2 DEF X
  <2>3. \A i \in 0..(m + 1) : At(order, root, i) \in X
    BY DEF At, Enumerates
  <2>4. \A i \in 0..m : i \in 0..(m + 1) /\ i + 1 \in 0..(m + 1)
    BY <1>2
  <2>5. DOMAIN R = X /\ R = [x \in X |-> R[x]] /\ DOMAIN L = X /\ L = [x \in X |-> L[x]]
    BY <1>9
  <2> HIDE DEF R, L, X
  <2>6. \A x \in X : R[x] \in X
    BY <1>11, <2>1, <2>3, <2>4
  <2>7. \A x \in X : L[x] \in X
    BY <1>12, <2>2, <2>3, <2>4
  <2> QED
    BY <2>5, <2>6, <2>7
<1> HIDE DEF R, L
<1>16. Shape(k, A)
  <2>1. I \in [A -> A] /\ Z \in [A -> Int]
    BY <1>5
  <2>2. \A S : <<>> \in [{} -> S]
    OBVIOUS
  <2>3. A \cup Nodes(k) = A /\ {root} \cup A \cup Nodes(k) = X
    BY <1>3
  <2> HIDE DEF I, Z, X
  <2> QED
    BY <1>1, <1>2, <1>3, <1>15, <2>1, <2>2, <2>3 DEF Shape
<1>17. ColumnsHold(k, A, Nodes(k))
  <2> SUFFICES ASSUME NEW c \in A
               PROVE  RingOf(k.D, k.U, c, {}) /\ k.siz[c] = Cardinality({})
    BY <1>3 DEF ColumnsHold, InColumn
  <2>1. k.D[c] = c /\ k.U[c] = c /\ k.siz[c] = 0
    BY <1>1, <1>5
  <2> QED
    BY <2>1, RingEmpty, FS_EmptySet
<1> QED
  BY <1>1, <1>3, <1>14, <1>16, <1>17
-----------------------------------------------------------------------------
(* The rows are built. *)

(* The rows that a solver builds for the puzzle p, and their columns. *)
Candidates(p) == {id \in 1..(N * NUM) : IsCandidate(p, CellOf(id), ValueOf(id))}
RowSet(id) == ColumnSet(CellOf(id), ValueOf(id))

(* No clue meets the columns of a candidate of Dance. *)
LEMMA CandidateColumns ==
    ASSUME NEW p \in Boards, NEW id \in Candidates(p)
    PROVE  RowSet(id) \subseteq AllColumns(p) /\ id \in Nat
<1> DEFINE cell == CellOf(id)
           v == ValueOf(id)
<1>1. /\ id \in 1..(N * NUM) /\ IsCandidate(p, cell, v) /\ cell \in Cells /\ v \in Values
  BY CandidateNumbers DEF Candidates
<1>2. id \in Nat
  BY <1>1, BoardSizes
<1> HIDE DEF cell, v
<1>3. RowSet(id) = ColumnSet(cell, v)
  BY DEF RowSet, cell, v
<1>4. ASSUME NEW c \in ColumnSet(cell, v) PROVE c \in 1..(4 * N)
  <2>1. /\ RowColumn(Row(cell), v) \in 1..N
        /\ ColColumn(Col(cell), v) \in (N + 1)..(2 * N)
        /\ BoxColumn(BoxOf(cell), v) \in (2 * N + 1)..(3 * N)
        /\ CellColumn(cell) \in (3 * N + 1)..(4 * N)
    BY <1>1, ColumnNumbers
  <2>2. N \in Nat
    BY BoardSizes
  <2>3. \/ c = RowColumn(Row(cell), v) \/ c = ColColumn(Col(cell), v)
        \/ c = BoxColumn(BoxOf(cell), v) \/ c = CellColumn(cell)
    BY <1>4 DEF ColumnSet
  <2> HIDE DEF N
  <2> QED
    BY <2>1, <2>2, <2>3
<1>5. CASE solver = "DLX"
  BY <1>2, <1>3, <1>4, <1>5 DEF AllColumns
<1>6. ASSUME solver # "DLX", NEW c \in ColumnSet(cell, v) PROVE c \notin MetByClues(p)
  <2>1. p[cell] = 0 /\ available(p, v, cell)
    BY <1>1, <1>6 DEF IsCandidate
  <2> SUFFICES ASSUME NEW a \in Cells \ Blanks(p), c \in ToSet(ColumnsOf(a, p[a]))
               PROVE  FALSE
    BY DEF MetByClues
  <2>2. a \in Cells /\ p[a] \in Values /\ a # cell
    <3>1. p[a] \in 0..NUM /\ p[a] # 0
      BY DEF Blanks, Boards
    <3> QED
      BY <2>1, <3>1, BoardSizes DEF Values
  <2>3. c \in ColumnSet(a, p[a])
    BY <2>2, ColumnNumbers
  <2>4. p[a] = v /\ Adjacent(a, cell)
    BY <1>1, <1>6, <2>2, <2>3, ColumnsShared DEF Adjacent
  <2>5. a \in neighbors[cell]
    BY <1>1, <2>2, <2>4 DEF neighbors
  <2> QED
    BY <2>1, <2>4, <2>5 DEF available
<1> QED
  BY <1>2, <1>3, <1>4, <1>5, <1>6 DEF AllColumns

(* The links k hold the rows of the candidates up to the last one, in the columns A. *)
IsBuilt(k, id) == \E n \in Nodes(k) : k.row[n] = id
BuiltUpTo(k, A, p) ==
    /\ Shape(k, A) /\ Rows(k) /\ RingOf(k.R, k.L, root, A) /\ ColumnsHold(k, A, Nodes(k))
    /\ k.tot >= 4 * N
    /\ \A n \in Nodes(k) :
          /\ k.row[n] \in Candidates(p) /\ RowColumns(k, n) = RowSet(k.row[n])
          /\ k.row[n] <= k.row[k.tot]
    /\ \A n, m \in Nodes(k) : k.row[n] = k.row[m] => m \in {n} \cup Others(k, n)
    /\ \A id \in Candidates(p) : ~IsBuilt(k, id) => (k.tot > 4 * N => id > k.row[k.tot])

(* To begin with there are only the headers. *)
LEMMA BuiltNone ==
    ASSUME NEW p, NEW k, k = Headers(ColumnOrder(p))
    PROVE  BuiltUpTo(k, AllColumns(p), p)
<1>1. AllColumns(p) \subseteq 1..(4 * N)
  BY DEF AllColumns
<1>2. /\ Shape(k, AllColumns(p)) /\ RingOf(k.R, k.L, root, AllColumns(p))
      /\ ColumnsHold(k, AllColumns(p), Nodes(k)) /\ k.tot = 4 * N /\ Nodes(k) = {}
  BY <1>1, ColumnOrderIs, HeadersAre
<1>3. Rows(k)
  BY <1>2 DEF Rows
<1>4. 4 * N \in Nat
  BY BoardSizes
<1>5. k.tot >= 4 * N /\ ~(k.tot > 4 * N)
  BY <1>2, <1>4
<1> QED
  BY <1>2, <1>3, <1>5 DEF BuiltUpTo

(* The row of the next candidate. *)
LEMMA BuiltMore ==
    ASSUME NEW p, NEW A, NEW k, BuiltUpTo(k, A, p), NEW id \in Candidates(p),
           k.tot > 4 * N => id > k.row[k.tot],
           \A j \in Candidates(p) : (k.tot > 4 * N => j > k.row[k.tot]) => id <= j,
           NEW l, NewRow(k, l, A, id, RowSet(id))
    PROVE  BuiltUpTo(l, A, p)
<1>1. /\ Shape(k, A) /\ Rows(k) /\ RingOf(k.R, k.L, root, A) /\ k.tot >= 4 * N
      /\ Shape(l, A) /\ Rows(l) /\ ColumnsHold(l, A, Nodes(l)) /\ l.tot = k.tot + 4
  BY DEF BuiltUpTo, NewRow
<1>2. 4 * N \in Nat /\ k.tot \in Nat /\ l.tot \in Nat /\ id \in Nat
  <2>1. id \in 1..(N * NUM) /\ N * NUM \in Nat
    BY BoardSizes DEF Candidates
  <2> QED
    BY <1>1, <2>1, BoardSizes DEF Shape
<1>3. /\ Nodes(k) \subseteq Nodes(l) /\ l.tot \in Nodes(l) \ Nodes(k) /\ l.tot > 4 * N
      /\ \A n \in Nodes(k) : k.tot > 4 * N
  <2> DEFINE e == 4 * N
             s == k.tot
             t == l.tot
  <2>1. e \in Nat /\ s \in Nat /\ s >= e /\ t = s + 4 /\ Nodes(k) = (e + 1)..s
        /\ Nodes(l) = (e + 1)..t
    BY <1>1, <1>2 DEF Nodes
  <2> HIDE DEF e, s, t
  <2>2. /\ (e + 1)..s \subseteq (e + 1)..t /\ t \in (e + 1)..t /\ t \notin (e + 1)..s /\ t > e
        /\ \A n \in (e + 1)..s : s > e
    BY ONLY <2>1
  <2> QED
    BY <2>1, <2>2 DEF e, s, t
<1>4. /\ \A n \in Nodes(k) : /\ l.row[n] = k.row[n] /\ RowColumns(l, n) = RowColumns(k, n)
                             /\ Others(l, n) = Others(k, n)
      /\ \A n \in Nodes(l) \ Nodes(k) :
            /\ l.row[n] = id /\ RowColumns(l, n) = RowSet(id)
            /\ Others(l, n) = (Nodes(l) \ Nodes(k)) \ {n}
      /\ \A x \in {root} \cup A : l.L[x] = k.L[x] /\ l.R[x] = k.R[x]
  BY DEF NewRow
<1>5. RingOf(l.R, l.L, root, A)
  <2>1. root \notin A
    BY <1>1, NodesApart
  <2>2. \A x \in A \cup {root} : l.R[x] = k.R[x] /\ l.L[x] = k.L[x]
    BY <1>4
  <2> QED
    BY ONLY <1>1, <2>1, <2>2, RingSame
<1>6. l.row[l.tot] = id
  BY <1>3, <1>4
<1>7. \A n \in Nodes(k) : /\ k.row[n] \in Candidates(p) /\ RowColumns(k, n) = RowSet(k.row[n])
                          /\ k.row[n] <= k.row[k.tot] /\ k.row[n] \in Nat
  BY <1>1 DEF BuiltUpTo, Shape
<1>8. \A n \in Nodes(k) : k.row[n] < id
  <2> SUFFICES ASSUME NEW n \in Nodes(k)
               PROVE  k.row[n] < id
    OBVIOUS
  <2> DEFINE a == k.row[n]
             b == k.row[k.tot]
  <2>1. k.tot > 4 * N /\ k.tot \in Nodes(k)
    BY <1>2, <1>3 DEF Nodes
  <2>2. a \in Nat /\ b \in Nat /\ a <= b /\ id > b
    BY <1>7, <2>1
  <2> HIDE DEF a, b
  <2>3. a < id
    BY ONLY <1>2, <2>2
  <2> QED
    BY <2>3 DEF a
<1>9. \A n \in Nodes(l) :
          /\ l.row[n] \in Candidates(p) /\ RowColumns(l, n) = RowSet(l.row[n])
          /\ l.row[n] <= l.row[l.tot]
  <2> SUFFICES ASSUME NEW n \in Nodes(l)
               PROVE  /\ l.row[n] \in Candidates(p) /\ RowColumns(l, n) = RowSet(l.row[n])
                      /\ l.row[n] <= id
    BY <1>6
  <2>1. CASE n \in Nodes(k)
    <3>1. k.row[n] < id /\ k.row[n] \in Nat /\ l.row[n] = k.row[n]
      BY <1>4, <1>7, <1>8, <2>1
    <3>2. k.row[n] <= id
      BY <1>2, <3>1
    <3> QED
      BY <1>4, <1>7, <2>1, <3>1, <3>2
  <2>2. CASE n \notin Nodes(k)
    <3>1. l.row[n] = id /\ RowColumns(l, n) = RowSet(id) /\ id <= id
      BY <1>2, <1>4, <2>2
    <3> QED
      BY <3>1
  <2> QED
    BY <2>1, <2>2
<1>10. ASSUME NEW n \in Nodes(l), NEW m \in Nodes(l), l.row[n] = l.row[m]
       PROVE  m \in {n} \cup Others(l, n)
  <2>1. CASE n \in Nodes(k) /\ m \in Nodes(k)
    BY <1>4, <1>10, <2>1 DEF BuiltUpTo
  <2>2. CASE n \notin Nodes(k) /\ m \notin Nodes(k)
    BY <1>4, <2>2
  <2>3. \A x \in Nodes(k) : k.row[x] # id
    BY <1>2, <1>7, <1>8
  <2> QED
    BY <1>4, <1>10, <2>1, <2>2, <2>3
<1>11. ASSUME NEW j \in Candidates(p), ~IsBuilt(l, j)
       PROVE  j > l.row[l.tot]
  <2>1. ~IsBuilt(k, j)
    BY <1>3, <1>4, <1>11 DEF IsBuilt
  <2>2. id <= j
    BY <2>1 DEF BuiltUpTo
  <2>3. j # id
    BY <1>3, <1>6, <1>11 DEF IsBuilt
  <2>4. j \in Nat
    <3>1. j \in 1..(N * NUM) /\ N * NUM \in Nat
      BY BoardSizes DEF Candidates
    <3> QED
      BY <3>1
  <2> QED
    BY <1>2, <1>6, <2>2, <2>3, <2>4
<1>12. l.tot >= 4 * N
  BY <1>2, <1>3
<1> QED
  BY <1>1, <1>5, <1>9, <1>10, <1>11, <1>12 DEF BuiltUpTo

(* When the rows of all candidates have been built, the search can begin. *)
AllBuilt(b, A, p) ==
    BuiltUpTo(b, A, p) /\ \A id \in Candidates(p) : IsBuilt(b, id)

(* With every column still there the links are as the search needs them. *)
LEMMA BuiltHolds ==
    ASSUME NEW b, NEW A, NEW p, BuiltUpTo(b, A, p)
    PROVE  Holds(b, A, {})
<1>1. Live(b, {}) = Nodes(b)
  BY DEF Live
<1>2. A \ {} = A
  OBVIOUS
<1>3. Counted(b, A)
  <2>1. \A e \in A : /\ InColumn(b, Nodes(b), e) \subseteq Nodes(b)
                     /\ \A x \in InColumn(b, Nodes(b), e) : b.col[x] = e
                     /\ b.siz[e] = Cardinality(InColumn(b, Nodes(b), e))
    BY DEF BuiltUpTo, ColumnsHold, InColumn
  <2> QED
    BY <2>1 DEF Counted
<1> QED
  BY <1>1, <1>2, <1>3 DEF Holds, BuiltUpTo
-----------------------------------------------------------------------------
(* Solutions and exact covers. *)

(* A column stands for a line and a value, or for a cell. *)
LEMMA ColumnParts ==
    ASSUME NEW c \in 1..(4 * N)
    PROVE  \/ \E i \in Lines, v \in Values : \/ c = RowColumn(i, v) \/ c = ColColumn(i, v)
                                             \/ c = BoxColumn(i, v)
           \/ \E cell \in Cells : c = CellColumn(cell)
<1>1. /\ NUM \in Nat \ {0} /\ N = NUM * NUM /\ N \in Nat \ {0}
      /\ Lines = 0..(NUM - 1) /\ Values = 1..NUM /\ Cells = 0..(N - 1)
  BY BoardSizes DEF N, Lines, Values, Cells
<1> HIDE DEF N, NUM, Lines, Values, Cells
<1>2. ASSUME NEW x \in 1..N
      PROVE  \E i \in Lines, v \in Values : x = i * NUM + v
  <2> DEFINE q == (x - 1) \div NUM
             r == (x - 1) % NUM
  <2>1. x - 1 \in 0..(NUM * NUM - 1)
    BY <1>1
  <2>2. q \in 0..(NUM - 1) /\ r \in 0..(NUM - 1) /\ x - 1 = NUM * q + r
    BY <1>1, <2>1, DivisionBelow
  <2> HIDE DEF q, r
  <2>3. NUM * q \in Nat /\ q * NUM = NUM * q
    BY <1>1, <2>2
  <2>4. q \in Lines /\ r + 1 \in Values /\ x = q * NUM + (r + 1)
    BY <1>1, <2>2, <2>3
  <2> QED
    BY <2>4
<1>3. ASSUME NEW i \in Lines, NEW v \in Values
      PROVE  /\ RowColumn(i, v) = i * NUM + v /\ ColColumn(i, v) = N + (i * NUM + v)
             /\ BoxColumn(i, v) = 2 * N + (i * NUM + v) /\ i * NUM + v \in Nat
  <2>1. i * NUM \in Nat /\ v \in Nat
    BY <1>1
  <2> QED
    BY <1>1, <2>1 DEF RowColumn, ColColumn, BoxColumn
<1>4. CASE c \in 1..N
  BY <1>2, <1>3, <1>4
<1>5. CASE c \in (N + 1)..(2 * N)
  <2>1. c - N \in 1..N /\ c = N + (c - N)
    BY <1>1, <1>5
  <2> QED
    BY <1>2, <1>3, <2>1
<1>6. CASE c \in (2 * N + 1)..(3 * N)
  <2>1. c - 2 * N \in 1..N /\ c = 2 * N + (c - 2 * N)
    BY <1>1, <1>6
  <2> QED
    BY <1>2, <1>3, <2>1
<1>7. CASE c \in (3 * N + 1)..(4 * N)
  <2>1. c - 3 * N - 1 \in Cells /\ c = 3 * N + (c - 3 * N - 1) + 1
    BY <1>1, <1>7
  <2> QED
    BY <2>1 DEF CellColumn
<1> QED
  BY <1>1, <1>4, <1>5, <1>6, <1>7

(* A candidate that meets a column is in that line and has that value, or is in that
   cell. *)
LEMMA ColumnMeans ==
    ASSUME NEW a \in Cells, NEW v \in Values
    PROVE  /\ \A i \in Lines, w \in Values :
                 /\ RowColumn(i, w) \in ColumnSet(a, v) => Row(a) = i /\ v = w
                 /\ ColColumn(i, w) \in ColumnSet(a, v) => Col(a) = i /\ v = w
                 /\ BoxColumn(i, w) \in ColumnSet(a, v) => BoxOf(a) = i /\ v = w
           /\ \A cell \in Cells : CellColumn(cell) \in ColumnSet(a, v) => a = cell
<1>1. Row(a) \in Lines /\ Col(a) \in Lines /\ BoxOf(a) \in Lines
  BY Coordinates, BoxIsLine
<1>2. N \in Nat \ {0} /\ NUM \in Nat /\ Lines \subseteq Nat /\ Values \subseteq Nat /\ a \in Nat
  BY BoardSizes DEF Lines, Cells
<1>3. /\ RowColumn(Row(a), v) \in 1..N /\ ColColumn(Col(a), v) \in (N + 1)..(2 * N)
      /\ BoxColumn(BoxOf(a), v) \in (2 * N + 1)..(3 * N) /\ CellColumn(a) \in (3 * N + 1)..(4 * N)
  BY ColumnNumbers
<1>4. \A i \in Lines, w \in Values :
         /\ RowColumn(i, w) = i * NUM + w /\ ColColumn(i, w) = N + (i * NUM + w)
         /\ BoxColumn(i, w) = 2 * N + (i * NUM + w) /\ i * NUM + w \in Nat
  <2> SUFFICES ASSUME NEW i \in Lines, NEW w \in Values
               PROVE  /\ RowColumn(i, w) = i * NUM + w /\ ColColumn(i, w) = N + (i * NUM + w)
                      /\ BoxColumn(i, w) = 2 * N + (i * NUM + w) /\ i * NUM + w \in Nat
    OBVIOUS
  <2>1. i * NUM \in Nat /\ w \in Nat
    BY <1>2
  <2> HIDE DEF N
  <2> QED
    BY <1>2, <2>1 DEF RowColumn, ColColumn, BoxColumn
<1> HIDE DEF N
<1>5. ASSUME NEW i \in Lines, NEW w \in Values
      PROVE  /\ RowColumn(i, w) \in 1..N /\ ColColumn(i, w) \in (N + 1)..(2 * N)
             /\ BoxColumn(i, w) \in (2 * N + 1)..(3 * N)
             /\ RowColumn(i, w) = RowColumn(Row(a), v) => Row(a) = i /\ v = w
             /\ ColColumn(i, w) = ColColumn(Col(a), v) => Col(a) = i /\ v = w
             /\ BoxColumn(i, w) = BoxColumn(BoxOf(a), v) => BoxOf(a) = i /\ v = w
  <2> DEFINE x == i * NUM + w
  <2>1. x \in 1..N /\ \A j \in Lines : x = j * NUM + v => j = i /\ v = w
    BY PairNumber
  <2>2. RowColumn(i, w) = x /\ ColColumn(i, w) = N + x /\ BoxColumn(i, w) = 2 * N + x
    BY <1>4
  <2>3. ASSUME NEW j \in Lines
        PROVE  /\ RowColumn(i, w) = RowColumn(j, v) => x = j * NUM + v
               /\ ColColumn(i, w) = ColColumn(j, v) => x = j * NUM + v
               /\ BoxColumn(i, w) = BoxColumn(j, v) => x = j * NUM + v
    <3> DEFINE y == j * NUM + v
    <3>1. /\ RowColumn(j, v) = y /\ ColColumn(j, v) = N + y /\ BoxColumn(j, v) = 2 * N + y
          /\ y \in Nat
      BY <1>4
    <3> HIDE DEF x, y
    <3>2. /\ RowColumn(i, w) = RowColumn(j, v) => x = y
          /\ ColColumn(i, w) = ColColumn(j, v) => x = y
          /\ BoxColumn(i, w) = BoxColumn(j, v) => x = y
      BY ONLY <1>2, <2>1, <2>2, <3>1
    <3> QED
      BY <3>2 DEF y
  <2>4. N + x \in (N + 1)..(2 * N) /\ 2 * N + x \in (2 * N + 1)..(3 * N)
    <3> HIDE DEF x
    <3> QED
      BY <1>2, <2>1
  <2> QED
    BY <1>1, <2>1, <2>2, <2>3, <2>4
<1>6. ASSUME NEW cell \in Cells
      PROVE  /\ CellColumn(cell) \in (3 * N + 1)..(4 * N)
             /\ CellColumn(cell) = CellColumn(a) => a = cell
  <2>1. cell \in 0..(N - 1)
    BY DEF Cells
  <2> QED
    BY <1>2, <2>1 DEF CellColumn
<1>7. /\ \A x \in 1..N : /\ x \notin (N + 1)..(2 * N) /\ x \notin (2 * N + 1)..(3 * N)
                         /\ x \notin (3 * N + 1)..(4 * N)
      /\ \A x \in (N + 1)..(2 * N) : /\ x \notin (2 * N + 1)..(3 * N)
                                     /\ x \notin (3 * N + 1)..(4 * N)
      /\ \A x \in (2 * N + 1)..(3 * N) : x \notin (3 * N + 1)..(4 * N)
  BY <1>2
<1>8. ASSUME NEW i \in Lines, NEW w \in Values
      PROVE  /\ RowColumn(i, w) \in ColumnSet(a, v) => Row(a) = i /\ v = w
             /\ ColColumn(i, w) \in ColumnSet(a, v) => Col(a) = i /\ v = w
             /\ BoxColumn(i, w) \in ColumnSet(a, v) => BoxOf(a) = i /\ v = w
  BY <1>3, <1>5, <1>7 DEF ColumnSet
<1>9. \A cell \in Cells : CellColumn(cell) \in ColumnSet(a, v) => a = cell
  BY <1>3, <1>6, <1>7 DEF ColumnSet
<1> QED
  BY <1>8, <1>9

(* The columns that the values of a board meet. *)
MeetsAll(s) ==
    \A c \in 1..(4 * N) : \E a \in Cells : s[a] \in Values /\ c \in ColumnSet(a, s[a])

(* The columns of the lines, of the values and of the cells. *)
LEMMA ColumnsExist ==
    /\ \A i \in Lines, v \in Values : /\ RowColumn(i, v) \in 1..(4 * N)
                                      /\ ColColumn(i, v) \in 1..(4 * N)
                                      /\ BoxColumn(i, v) \in 1..(4 * N)
    /\ \A cell \in Cells : CellColumn(cell) \in 1..(4 * N)
<1>1. N \in Nat \ {0} /\ NUM \in Nat /\ Lines \subseteq Nat /\ Values \subseteq Nat
  BY BoardSizes DEF Lines
<1>2. ASSUME NEW i \in Lines, NEW v \in Values
      PROVE  /\ RowColumn(i, v) \in 1..(4 * N) /\ ColColumn(i, v) \in 1..(4 * N)
             /\ BoxColumn(i, v) \in 1..(4 * N)
  <2> DEFINE x == i * NUM + v
             y == i * NUM
  <2>1. x \in 1..N
    BY PairNumber
  <2>2. y \in Nat /\ v \in Nat /\ x = y + v
    BY <1>1
  <2>3. RowColumn(i, v) = y + v /\ ColColumn(i, v) = N + y + v /\ BoxColumn(i, v) = 2 * N + y + v
    BY DEF RowColumn, ColColumn, BoxColumn
  <2> HIDE DEF x, y, N
  <2> QED
    BY <1>1, <2>1, <2>2, <2>3
<1>3. ASSUME NEW cell \in Cells PROVE CellColumn(cell) \in 1..(4 * N)
  <2>1. cell \in 0..(N - 1)
    BY DEF Cells
  <2> HIDE DEF N
  <2> QED
    BY <1>1, <2>1 DEF CellColumn
<1> QED
  BY <1>2, <1>3

(* A board is solved exactly when its values meet every column. *)
LEMMA SolvedMeets ==
    ASSUME NEW s
    PROVE  solved(s) <=> MeetsAll(s)
<1>1. ASSUME MeetsAll(s) PROVE solved(s)
  <2>1. ASSUME NEW cell \in Cells PROVE s[cell] \in Values
    <3>1. PICK a \in Cells : s[a] \in Values /\ CellColumn(cell) \in ColumnSet(a, s[a])
      BY <1>1, ColumnsExist DEF MeetsAll
    <3> QED
      BY <3>1, ColumnMeans
  <2>2. ASSUME NEW i \in Lines, NEW v \in Values
        PROVE  /\ \E a \in Cells : Row(a) = i /\ s[a] = v
               /\ \E a \in Cells : Col(a) = i /\ s[a] = v
               /\ \E a \in Cells : BoxOf(a) = i /\ s[a] = v
    <3>1. PICK a \in Cells : s[a] \in Values /\ RowColumn(i, v) \in ColumnSet(a, s[a])
      BY <1>1, ColumnsExist DEF MeetsAll
    <3>2. PICK b \in Cells : s[b] \in Values /\ ColColumn(i, v) \in ColumnSet(b, s[b])
      BY <1>1, ColumnsExist DEF MeetsAll
    <3>3. PICK c \in Cells : s[c] \in Values /\ BoxColumn(i, v) \in ColumnSet(c, s[c])
      BY <1>1, ColumnsExist DEF MeetsAll
    <3>4. Row(a) = i /\ s[a] = v
      BY <3>1, ColumnMeans
    <3>5. Col(b) = i /\ s[b] = v
      BY <3>2, ColumnMeans
    <3>6. BoxOf(c) = i /\ s[c] = v
      BY <3>3, ColumnMeans
    <3> QED
      BY <3>4, <3>5, <3>6
  <2> SUFFICES ASSUME NEW u \in Units
               PROVE  {s[cell] : cell \in u} = Values
    BY DEF solved
  <2>3. \E i \in Lines : \/ u = {cell \in Cells : Row(cell) = i}
                         \/ u = {cell \in Cells : Col(cell) = i}
                         \/ u = {cell \in Cells : BoxOf(cell) = i}
    BY DEF Units, Lines
  <2>4. u \subseteq Cells /\ \A v \in Values : \E a \in u : s[a] = v
    BY <2>2, <2>3
  <2> QED
    BY <2>1, <2>4
<1>2. ASSUME solved(s) PROVE MeetsAll(s)
  <2> SUFFICES ASSUME NEW c \in 1..(4 * N)
               PROVE  \E a \in Cells : s[a] \in Values /\ c \in ColumnSet(a, s[a])
    BY DEF MeetsAll
  <2>1. \A a \in Cells : s[a] \in Values
    BY <1>2, SolutionsDiffer
  <2>2. ASSUME NEW i \in Lines, NEW v \in Values
        PROVE  /\ \E a \in Cells : Row(a) = i /\ s[a] = v
               /\ \E a \in Cells : Col(a) = i /\ s[a] = v
               /\ \E a \in Cells : BoxOf(a) = i /\ s[a] = v
    <3> DEFINE x == {cell \in Cells : Row(cell) = i}
               y == {cell \in Cells : Col(cell) = i}
               z == {cell \in Cells : BoxOf(cell) = i}
    <3>1. x \in Units /\ y \in Units /\ z \in Units
      BY DEF Units, Lines
    <3>2. v \in {s[cell] : cell \in x} /\ v \in {s[cell] : cell \in y}
          /\ v \in {s[cell] : cell \in z}
      <4> HIDE DEF x, y, z
      <4> QED
        BY <1>2, <3>1 DEF solved
    <3> QED
      BY <3>2
  <2>3. CASE \E cell \in Cells : c = CellColumn(cell)
    BY <2>1, <2>3 DEF ColumnSet
  <2>4. CASE \E i \in Lines, v \in Values : c = RowColumn(i, v)
    BY <2>2, <2>4 DEF ColumnSet
  <2>5. CASE \E i \in Lines, v \in Values : c = ColColumn(i, v)
    BY <2>2, <2>5 DEF ColumnSet
  <2>6. CASE \E i \in Lines, v \in Values : c = BoxColumn(i, v)
    BY <2>2, <2>6 DEF ColumnSet
  <2> QED
    BY <2>3, <2>4, <2>5, <2>6, ColumnParts
<1> QED
  BY <1>1, <1>2

(* A board meets the columns that no row is needed for: those of the clues. *)
LEMMA CluesMeet ==
    ASSUME NEW p \in Boards, NEW c \in 1..(4 * N), c \notin AllColumns(p)
    PROVE  /\ solver # "DLX"
           /\ \E a \in Cells : p[a] # 0 /\ p[a] \in Values /\ c \in ColumnSet(a, p[a])
<1>1. solver # "DLX" /\ c \in MetByClues(p)
  BY DEF AllColumns
<1>2. PICK a \in Cells \ Blanks(p) : c \in ToSet(ColumnsOf(a, p[a]))
  BY <1>1 DEF MetByClues
<1>3. a \in Cells /\ p[a] \in Values /\ p[a] # 0
  <2>1. p[a] \in 0..NUM /\ p[a] # 0
    BY DEF Blanks, Boards
  <2> QED
    BY <2>1, BoardSizes DEF Values
<1> QED
  BY <1>1, <1>2, <1>3, ColumnNumbers

(* In a row of T there is a node for each of its columns. *)
LEMMA RowInCover ==
    ASSUME NEW b, NEW A, NEW p, BuiltUpTo(b, A, p), NEW n \in Nodes(b)
    PROVE  /\ b.col[n] \in RowSet(b.row[n]) /\ b.row[n] \in Candidates(p)
           /\ CellOf(b.row[n]) \in Cells /\ ValueOf(b.row[n]) \in Values
           /\ \A c \in RowSet(b.row[n]) :
                 \E x \in {n} \cup Others(b, n) : b.col[x] = c /\ b.row[x] = b.row[n]
<1>1. Rows(b) /\ RowColumns(b, n) = RowSet(b.row[n]) /\ b.row[n] \in Candidates(p)
  BY DEF BuiltUpTo
<1>2. CellOf(b.row[n]) \in Cells /\ ValueOf(b.row[n]) \in Values
  BY <1>1, CandidateNumbers DEF Candidates
<1>3. \A m \in Others(b, n) : b.row[m] = b.row[n]
  BY <1>1, OthersAre
<1>4. b.col[n] \in RowColumns(b, n)
  BY DEF RowColumns
<1>5. \A c \in RowColumns(b, n) : \E x \in {n} \cup Others(b, n) : b.col[x] = c
  BY DEF RowColumns, Others
<1> QED
  BY <1>1, <1>2, <1>3, <1>4, <1>5

(* The board with the rows of T written into p. *)
Filled(p, ids, s) ==
    s = [cell \in Cells |-> IF \E id \in ids : CellOf(id) = cell
                            THEN ValueOf(CHOOSE id \in ids : CellOf(id) = cell)
                            ELSE p[cell]]

(* An exact cover is a solution. *)
LEMMA CoverSolves ==
    ASSUME NEW p \in Boards, NEW A, A = AllColumns(p), NEW b, BuiltUpTo(b, A, p),
           NEW T, ExactCover(b, A, T), NEW ids, ids = {b.row[n] : n \in T},
           NEW s, Filled(p, ids, s)
    PROVE  Solves(s, p) /\ s \in Boards
<1>1. T \subseteq Nodes(b)
  BY DEF ExactCover
<1>2. \A id \in ids : /\ id \in Candidates(p) /\ CellOf(id) \in Cells /\ ValueOf(id) \in Values
                      /\ IsCandidate(p, CellOf(id), ValueOf(id))
  BY <1>1, RowInCover DEF Candidates
<1>3. ASSUME NEW i \in ids, NEW j \in ids, CellOf(i) = CellOf(j) PROVE i = j
  <2>1. PICK n \in T, m \in T : b.row[n] = i /\ b.row[m] = j
    OBVIOUS
  <2> DEFINE c == CellColumn(CellOf(i))
  <2>2. c \in RowSet(i) /\ c \in RowSet(j)
    BY <1>3 DEF RowSet, ColumnSet
  <2> HIDE DEF c
  <2>3. PICK x \in {n} \cup Others(b, n) : b.col[x] = c /\ b.row[x] = i
    BY <1>1, <2>1, <2>2, RowInCover
  <2>4. PICK y \in {m} \cup Others(b, m) : b.col[y] = c /\ b.row[y] = j
    BY <1>1, <2>1, <2>2, RowInCover
  <2>5. x \in T /\ y \in T
    BY DEF ExactCover
  <2>6. x = y
    BY <2>3, <2>4, <2>5 DEF ExactCover
  <2> QED
    BY <2>3, <2>4, <2>6
<1>4. \A id \in ids : s[CellOf(id)] = ValueOf(id)
  <2> SUFFICES ASSUME NEW id \in ids
               PROVE  s[CellOf(id)] = ValueOf(id)
    OBVIOUS
  <2> DEFINE cell == CellOf(id)
             j == CHOOSE i \in ids : CellOf(i) = cell
  <2>1. j \in ids /\ CellOf(j) = cell
    OBVIOUS
  <2>2. s[cell] = ValueOf(j)
    BY <1>2 DEF Filled
  <2> HIDE DEF j
  <2>3. j = id
    BY <1>3, <2>1
  <2> QED
    BY <2>2, <2>3
<1>5. \A cell \in Cells : (\E id \in ids : CellOf(id) = cell) \/ s[cell] = p[cell]
  BY DEF Filled
<1>6. ASSUME NEW a \in Cells, p[a] # 0 PROVE s[a] = p[a]
  <2>1. CASE \E id \in ids : CellOf(id) = a
    <3>1. PICK id \in ids : CellOf(id) = a
      BY <2>1
    <3>2. IsCandidate(p, a, ValueOf(id)) /\ s[a] = ValueOf(id)
      BY <1>2, <1>4, <3>1
    <3> QED
      BY <1>6, <3>2 DEF IsCandidate
  <2> QED
    BY <1>5, <2>1
<1>7. Agrees(s, p)
  BY <1>6 DEF Agrees, Blanks
<1>8. ASSUME NEW c \in 1..(4 * N)
      PROVE  \E a \in Cells : s[a] \in Values /\ c \in ColumnSet(a, s[a])
  <2>1. CASE c \in A
    <3>1. PICK n \in T : b.col[n] = c
      BY <2>1 DEF ExactCover
    <3>2. b.row[n] \in ids /\ c \in RowSet(b.row[n])
      BY <1>1, <3>1, RowInCover
    <3> QED
      BY <1>2, <1>4, <3>2 DEF RowSet
  <2>2. CASE c \notin A
    <3>1. PICK a \in Cells : p[a] # 0 /\ p[a] \in Values /\ c \in ColumnSet(a, p[a])
      BY <2>2, CluesMeet
    <3> QED
      BY <1>6, <3>1
  <2> QED
    BY <2>1, <2>2
<1>9. solved(s)
  BY <1>8, SolvedMeets DEF MeetsAll
<1>10. s \in Boards
  <2>1. \A a \in Cells : s[a] \in Values
    BY <1>9, SolutionsDiffer
  <2>2. Values \subseteq 0..NUM
    BY BoardSizes
  <2>3. s = [cell \in Cells |-> s[cell]]
    BY DEF Filled
  <2> QED
    BY <2>1, <2>2, <2>3 DEF Boards
<1> QED
  BY <1>7, <1>9, <1>10 DEF Solves

(* A solution is an exact cover. *)
LEMMA SolutionCovers ==
    ASSUME NEW p \in Boards, NEW A, A = AllColumns(p), NEW b, AllBuilt(b, A, p),
           NEW s, Solves(s, p)
    PROVE  \E T : ExactCover(b, A, T)
<1> DEFINE T == {n \in Nodes(b) : s[CellOf(b.row[n])] = ValueOf(b.row[n])}
<1>1. BuiltUpTo(b, A, p) /\ Rows(b) /\ \A id \in Candidates(p) : IsBuilt(b, id)
  BY DEF AllBuilt, BuiltUpTo
<1>2. solved(s) /\ Agrees(s, p) /\ MeetsAll(s)
  BY SolvedMeets DEF Solves
<1>3. \A a \in Cells : s[a] \in Values /\ \A m \in neighbors[a] : s[m] # s[a]
  BY <1>2, SolutionsDiffer
<1>4. \A a \in Cells : p[a] # 0 => s[a] = p[a]
  BY <1>2 DEF Agrees, Blanks
<1>5. \A n \in T : Others(b, n) \subseteq T
  <2>1. \A n \in T : Others(b, n) \subseteq Nodes(b) /\ \A m \in Others(b, n) : b.row[m] = b.row[n]
    BY <1>1, OthersAre
  <2> QED
    BY <2>1
<1>6. ASSUME NEW c \in A PROVE \E n \in T : b.col[n] = c
  <2>1. c \in 1..(4 * N)
    BY DEF AllColumns
  <2>2. PICK a \in Cells : s[a] \in Values /\ c \in ColumnSet(a, s[a])
    BY <1>2, <2>1 DEF MeetsAll
  <2> DEFINE v == s[a]
             id == GetId(a, v)
  <2>3. id \in 1..(N * NUM) /\ CellOf(id) = a /\ ValueOf(id) = v
    BY <2>2, CandidateNumbers
  <2>4. IsCandidate(p, a, v)
    <3>1. CASE solver = "DLX"
      BY <1>4, <3>1 DEF IsCandidate
    <3>2. CASE solver # "DLX"
      <4>1. p[a] = 0
        <5> SUFFICES ASSUME p[a] # 0
                     PROVE  FALSE
          OBVIOUS
        <5>1. p[a] = v /\ a \in Cells \ Blanks(p)
          BY <1>4 DEF Blanks
        <5>2. c \in ToSet(ColumnsOf(a, p[a]))
          BY <2>2, <5>1, ColumnNumbers
        <5>3. c \in MetByClues(p)
          BY <5>1, <5>2 DEF MetByClues
        <5> QED
          BY <3>2, <5>3 DEF AllColumns
      <4>2. available(p, v, a)
        <5> SUFFICES ASSUME NEW m \in neighbors[a], p[m] = v
                     PROVE  FALSE
          BY DEF available
        <5>1. m \in Cells /\ s[m] # v
          BY <1>3, Neighbors
        <5>2. p[m] # 0
          BY <2>2, BoardSizes
        <5> QED
          BY <1>4, <5>1, <5>2
      <4> QED
        BY <3>2, <4>1, <4>2 DEF IsCandidate
    <3> QED
      BY <3>1, <3>2
  <2>5. id \in Candidates(p)
    BY <2>3, <2>4 DEF Candidates
  <2>6. PICK n \in Nodes(b) : b.row[n] = id
    BY <1>1, <2>5 DEF IsBuilt
  <2>7. c \in RowSet(id) /\ n \in T
    BY <2>2, <2>3, <2>6 DEF RowSet
  <2> HIDE DEF id, v
  <2>8. PICK x \in {n} \cup Others(b, n) : b.col[x] = c
    BY <1>1, <2>6, <2>7, RowInCover
  <2> QED
    BY <1>5, <2>7, <2>8
<1>7. ASSUME NEW n \in T, NEW m \in T, b.col[n] = b.col[m] PROVE n = m
  <2> DEFINE i == b.row[n]
             j == b.row[m]
             c == b.col[n]
  <2>1. /\ c \in ColumnSet(CellOf(i), ValueOf(i)) /\ c \in ColumnSet(CellOf(j), ValueOf(j))
        /\ CellOf(i) \in Cells /\ CellOf(j) \in Cells /\ ValueOf(i) \in Values
        /\ ValueOf(j) \in Values
        /\ i \in 1..(N * NUM) /\ j \in 1..(N * NUM)
        /\ s[CellOf(i)] = ValueOf(i) /\ s[CellOf(j)] = ValueOf(j)
    BY <1>1, <1>7, RowInCover DEF RowSet, Candidates
  <2>2. CellOf(i) = CellOf(j) \/ (ValueOf(i) = ValueOf(j) /\ Adjacent(CellOf(i), CellOf(j)))
    BY <2>1, ColumnsShared DEF Adjacent
  <2>3. CellOf(i) = CellOf(j)
    BY <1>3, <2>1, <2>2 DEF neighbors
  <2>4. i = j
    BY <2>1, <2>3, CandidateNumbers
  <2>5. m \in {n} \cup Others(b, n)
    BY <1>1, <2>4 DEF BuiltUpTo
  <2>6. m \notin Others(b, n)
    <3>1. \A x \in Others(b, n) : b.col[x] \in RowColumns(b, n) \ {b.col[n]}
      BY <1>1, OthersAre
    <3> QED
      BY <1>7, <3>1
  <2> QED
    BY <2>5, <2>6
<1> HIDE DEF T
<1>8. T \subseteq Nodes(b)
  BY DEF T
<1> QED
  BY <1>5, <1>6, <1>7, <1>8 DEF ExactCover

(* A column has at most as many rows as there are values. *)
LEMMA ColumnFits ==
    ASSUME NEW p \in Boards, NEW A, A = AllColumns(p), NEW b, BuiltUpTo(b, A, p), NEW e \in A,
           NEW X, X \subseteq Nodes(b), \A x \in X : b.col[x] = e
    PROVE  Cardinality(X) \in 0..NUM
<1>1. \A x \in X : /\ e \in ColumnSet(CellOf(b.row[x]), ValueOf(b.row[x]))
                   /\ CellOf(b.row[x]) \in Cells /\ ValueOf(b.row[x]) \in Values
                   /\ b.row[x] \in 1..(N * NUM)
  BY RowInCover DEF RowSet, Candidates
<1>2. Rows(b)
  BY DEF BuiltUpTo
<1>3. ASSUME NEW x \in X, NEW y \in X, CellOf(b.row[x]) = CellOf(b.row[y]),
             ValueOf(b.row[x]) = ValueOf(b.row[y])
      PROVE  x = y
  <2>1. b.row[x] = b.row[y]
    BY <1>1, <1>3, CandidateNumbers
  <2>2. y \in {x} \cup Others(b, x)
    BY <2>1 DEF BuiltUpTo
  <2>3. \A z \in Others(b, x) : b.col[z] \in RowColumns(b, x) \ {b.col[x]}
    BY <1>2, OthersAre
  <2> QED
    BY <2>2, <2>3
<1>4. ASSUME NEW T, IsFiniteSet(T), Cardinality(T) = NUM, NEW g, g \in [X -> T],
             \A x, y \in X : g[x] = g[y] => x = y
      PROVE  Cardinality(X) \in 0..NUM
  <2>1. g \in Injection(X, T)
    BY <1>4 DEF Injection, IsInjective
  <2>2. IsFiniteSet(X) /\ Cardinality(X) <= NUM
    BY <1>4, <2>1, FS_Injection
  <2>3. Cardinality(X) \in Nat /\ NUM \in Nat
    BY <2>2, FS_CardinalityType, BoardSizes
  <2> QED
    BY <2>2, <2>3
<1>5. CASE \E cell \in Cells : e = CellColumn(cell)
  <2> DEFINE g == [x \in X |-> ValueOf(b.row[x])]
  <2>1. \A x, y \in X : CellOf(b.row[x]) = CellOf(b.row[y])
    BY <1>1, <1>5, ColumnMeans
  <2>2. g \in [X -> Values] /\ \A x, y \in X : g[x] = g[y] => x = y
    BY <1>1, <1>3, <2>1
  <2> HIDE DEF g
  <2> QED
    BY <1>4, <2>2, BoardSizes
<1>6. ASSUME NEW u \in Units, NEW v, \A x \in X : CellOf(b.row[x]) \in u /\ ValueOf(b.row[x]) = v
      PROVE  Cardinality(X) \in 0..NUM
  <2> DEFINE g == [x \in X |-> CellOf(b.row[x])]
  <2>1. g \in [X -> u] /\ \A x, y \in X : g[x] = g[y] => x = y
    BY <1>3, <1>6
  <2> HIDE DEF g
  <2>2. IsFiniteSet(u) /\ Cardinality(u) = NUM
    BY UnitSize
  <2> QED
    BY <1>4, <2>1, <2>2
<1>7. ASSUME NEW i \in Lines
      PROVE  /\ {cell \in Cells : Row(cell) = i} \in Units
             /\ {cell \in Cells : Col(cell) = i} \in Units
             /\ {cell \in Cells : BoxOf(cell) = i} \in Units
  BY DEF Units, Lines
<1>8. ASSUME NEW i \in Lines, NEW v \in Values, e = RowColumn(i, v)
      PROVE  Cardinality(X) \in 0..NUM
  <2> DEFINE u == {cell \in Cells : Row(cell) = i}
  <2>1. u \in Units
    BY <1>7
  <2>2. \A x \in X : CellOf(b.row[x]) \in u /\ ValueOf(b.row[x]) = v
    BY <1>1, <1>8, ColumnMeans
  <2> HIDE DEF u
  <2> QED
    BY <1>6, <2>1, <2>2
<1>9. ASSUME NEW i \in Lines, NEW v \in Values, e = ColColumn(i, v)
      PROVE  Cardinality(X) \in 0..NUM
  <2> DEFINE u == {cell \in Cells : Col(cell) = i}
  <2>1. u \in Units
    BY <1>7
  <2>2. \A x \in X : CellOf(b.row[x]) \in u /\ ValueOf(b.row[x]) = v
    BY <1>1, <1>9, ColumnMeans
  <2> HIDE DEF u
  <2> QED
    BY <1>6, <2>1, <2>2
<1>10. ASSUME NEW i \in Lines, NEW v \in Values, e = BoxColumn(i, v)
       PROVE  Cardinality(X) \in 0..NUM
  <2> DEFINE u == {cell \in Cells : BoxOf(cell) = i}
  <2>1. u \in Units
    BY <1>7
  <2>2. \A x \in X : CellOf(b.row[x]) \in u /\ ValueOf(b.row[x]) = v
    BY <1>1, <1>10, ColumnMeans
  <2> HIDE DEF u
  <2> QED
    BY <1>6, <2>1, <2>2
<1>11. e \in 1..(4 * N)
  BY DEF AllColumns
<1> QED
  BY <1>5, <1>8, <1>9, <1>10, <1>11, ColumnParts
-----------------------------------------------------------------------------
(* The state of a dancing links solver. *)

Dances == {"call", "next", "undo", "solved", "failed"}

LinkTypes ==
    /\ solver \in LinkSolvers /\ mode \in Dances \cup {"idle", "headers", "build"}
    /\ puzzle \in Boards /\ board \in Boards
    /\ spaces \in Seq(Cells) /\ occupied \in [Cells -> [0..NUM -> BOOLEAN]]
    /\ arity \in [Cells -> 0..NUM]

(* The search in mode m, with the links l that were b when it began, the columns A and
   the frames fr. *)
Dancing(m, l, b, A, fr) ==
    /\ m \in {"call", "undo", "solved"} => \E ks : Entered(ks, l, b, A, fr)
    /\ m = "next" => \E ks : Trying(ks, l, b, A, fr)
    /\ m = "undo" => Len(fr) > 0 /\ Hopeless(b, A, fr)
    /\ m = "failed" => fr = <<>> /\ l = b /\ \A T : ~ExactCover(b, A, T)

LinksInv ==
    /\ LinkTypes
    /\ IF mode = "solved" THEN Solves(board, puzzle) ELSE board = puzzle
    /\ mode \in {"idle", "headers"} => links = NoLinks /\ frames = <<>>
    /\ mode = "build" => frames = <<>> /\ BuiltUpTo(links, AllColumns(puzzle), puzzle)
    /\ mode \in Dances => /\ AllBuilt(built, AllColumns(puzzle), puzzle)
                          /\ Dancing(mode, links, built, AllColumns(puzzle), frames)

(* What a dancing links solver does. *)
LEMMA LinkSteps ==
    ASSUME LinksInv, [Next]_vars
    PROVE  \/ LinksStep /\ UNCHANGED <<spaces, cache>>
           \/ \E p \in Puzzles : ReadPuzzle(p)
           \/ UNCHANGED vars
<1>1. solver \notin Backtrackers
  BY DEF LinksInv, LinkTypes, LinkSolvers, Backtrackers
<1>2. ~BacktrackingStep
  BY <1>1 DEF BacktrackingStep, FoundLastSpace, ChooseSpace, Hold, OutOfGuesses, Unhold, LinksInv,
              LinkTypes
<1> QED
  BY <1>2 DEF Next, Search, Stopped

(* The columns and the candidates are those of the puzzle and the solver. *)
LEMMA SameCandidates ==
    ASSUME UNCHANGED <<solver, puzzle>>
    PROVE  /\ AllColumns(puzzle)' = AllColumns(puzzle)
           /\ Candidates(puzzle)' = Candidates(puzzle)
<1>1. AllColumns(puzzle)' = AllColumns(puzzle)
  BY DEF AllColumns
<1>2. Candidates(puzzle)' = Candidates(puzzle)
  BY DEF Candidates, IsCandidate
<1> QED
  BY <1>1, <1>2

(* The history stays what it is. *)
LEMMA SameHistory ==
    ASSUME UNCHANGED <<solver, puzzle, built>>, AllBuilt(built, AllColumns(puzzle), puzzle)
    PROVE  AllBuilt(built, AllColumns(puzzle), puzzle)'
BY SameCandidates DEF AllBuilt, BuiltUpTo

(* A step of the search. *)
LEMMA DanceStep ==
    ASSUME LinksInv, mode \in Dances, mode' \in Dances,
           UNCHANGED <<solver, puzzle, built, spaces, cache>>,
           board' \in Boards,
           IF mode' = "solved" THEN Solves(board', puzzle) ELSE board' = puzzle,
           Dancing(mode', links', built, AllColumns(puzzle), frames')
    PROVE  LinksInv'
<1>1. LinkTypes'
  BY DEF LinksInv, LinkTypes, cache
<1>2. IF mode' = "solved" THEN Solves(board', puzzle') ELSE board' = puzzle'
  OBVIOUS
<1>3. mode' \notin {"idle", "headers"} /\ mode' # "build"
  BY DEF Dances
<1>4. AllBuilt(built, AllColumns(puzzle), puzzle)'
  BY SameHistory DEF LinksInv
<1>5. Dancing(mode', links', built', AllColumns(puzzle)', frames')
  BY SameCandidates
<1> QED
  BY <1>1, <1>2, <1>3, <1>4, <1>5 DEF LinksInv, Dances

(* No cell starts with more candidates than there are values. *)
LEMMA InitialArityBounds ==
    ASSUME NEW p \in Boards
    PROVE  InitialArity(p) \in [Cells -> 0..NUM]
<1> DEFINE X(cell) == {v \in Clues(p, cell) :
                         v = p[cell] => \E n \in neighbors[cell] : n < cell /\ p[n] = v}
<1>1. ASSUME NEW cell \in Cells
      PROVE  NUM - Cardinality(X(cell)) \in 0..NUM
  <2>1. X(cell) \subseteq Values
    BY CluesAreFinite
  <2> HIDE DEF X
  <2>2. Cardinality(X(cell)) <= Cardinality(Values) /\ Cardinality(X(cell)) \in Nat
    BY <2>1, BoardSizes, FS_Subset, FS_CardinalityType
  <2> QED
    BY <2>2, BoardSizes
<1>2. InitialArity(p) = [cell \in Cells |-> NUM - Cardinality(X(cell))]
  BY DEF InitialArity
<1> HIDE DEF X
<1> QED
  BY <1>1, <1>2

(* A puzzle is read. *)
LEMMA ReadLinks ==
    ASSUME LinksInv, NEW p \in Puzzles, ReadPuzzle(p)
    PROVE  LinksInv'
<1>1. p \in Boards
  BY PuzzlesAssumption
<1>2. /\ solver \in LinkSolvers /\ mode' = "headers" /\ puzzle' = p /\ board' = p
      /\ links' = NoLinks /\ frames' = <<>> /\ solver' = solver
  BY DEF ReadPuzzle, LinksInv, LinkTypes
<1>3. spaces' \in Seq(Cells)
  <2>1. Enumerates(find_spaces(p), Blanks(p)) /\ Blanks(p) \subseteq Cells
    BY <1>1, FindSpaces DEF Blanks
  <2>2. find_spaces(p) \in Seq(Cells)
    BY <2>1 DEF Enumerates
  <2> QED
    BY <2>2 DEF ReadPuzzle, ReadIntoCache, LinksInv, LinkTypes
<1>4. occupied' \in [Cells -> [0..NUM -> BOOLEAN]] /\ arity' \in [Cells -> 0..NUM]
  BY <1>1, InitialCache, InitialArityBounds
     DEF ReadPuzzle, ReadIntoCache, LinksInv, LinkTypes, cache
<1>5. LinkTypes'
  BY <1>1, <1>2, <1>3, <1>4 DEF LinkTypes
<1>6. mode' # "solved" /\ mode' # "build" /\ mode' \notin Dances
  BY <1>2 DEF Dances
<1> QED
  BY <1>2, <1>5, <1>6 DEF LinksInv

(* The headers are made. *)
LEMMA HeadersLinks ==
    ASSUME LinksInv, BuildHeaders, UNCHANGED <<spaces, cache>>
    PROVE  LinksInv'
<1>1. /\ mode = "headers" /\ mode' = "build" /\ links' = Headers(ColumnOrder(puzzle))
      /\ UNCHANGED <<solver, puzzle, board, frames>> /\ board = puzzle /\ frames = <<>>
  BY DEF BuildHeaders, LinksInv
<1>2. LinkTypes'
  BY <1>1 DEF LinksInv, LinkTypes, cache
<1>3. BuiltUpTo(links', AllColumns(puzzle), puzzle)
  BY <1>1, BuiltNone
<1>4. BuiltUpTo(links, AllColumns(puzzle), puzzle)'
  BY <1>1, <1>3, SameCandidates DEF BuiltUpTo
<1>5. mode' # "solved" /\ mode' \notin Dances /\ mode' \notin {"idle", "headers"}
  BY <1>1 DEF Dances
<1> QED
  BY <1>1, <1>2, <1>4, <1>5 DEF LinksInv

(* A row is built, that of the next candidate. *)
LEMMA RowLinks ==
    ASSUME LinksInv, BuildRow, UNCHANGED <<spaces, cache>>
    PROVE  LinksInv'
<1> DEFINE A == AllColumns(puzzle)
           id == Min(RowsToBuild)
<1>1. /\ mode = "build" /\ mode' = "build" /\ UNCHANGED <<solver, puzzle, board, frames>>
      /\ board = puzzle /\ puzzle \in Boards /\ frames = <<>> /\ BuiltUpTo(links, A, puzzle)
      /\ links' = IF solver = "DLX" THEN DLXInsert(links, CellOf(id), ValueOf(id))
                  ELSE DanceRow(links, CellOf(id), ValueOf(id))
      /\ RowsToBuild # {}
  BY DEF BuildRow, LinksInv, LinkTypes
<1>2. RowsToBuild =
        {j \in Candidates(puzzle) : links.tot > 4 * N => j > links.row[links.tot]}
  BY <1>1 DEF RowsToBuild, Candidates
<1>3. id \in RowsToBuild /\ \A j \in RowsToBuild : id <= j
  <2>1. RowsToBuild \subseteq 1..(N * NUM)
    BY DEF RowsToBuild
  <2>2. RowsToBuild \subseteq Nat
    BY <2>1
  <2> QED
    BY <1>1, <2>2, LeastNumber
<1>4. /\ id \in Candidates(puzzle) /\ id \in 1..(N * NUM)
      /\ links.tot > 4 * N => id > links.row[links.tot]
      /\ \A j \in Candidates(puzzle) :
            (links.tot > 4 * N => j > links.row[links.tot]) => id <= j
  BY <1>2, <1>3 DEF Candidates
<1> HIDE DEF id
<1>5. CellOf(id) \in Cells /\ ValueOf(id) \in Values /\ GetId(CellOf(id), ValueOf(id)) = id
  BY <1>4, CandidateNumbers
<1>6. ColumnSet(CellOf(id), ValueOf(id)) \subseteq A
      /\ RowSet(id) = ColumnSet(CellOf(id), ValueOf(id))
  BY <1>1, <1>4, CandidateColumns DEF RowSet
<1>7. /\ Shape(links, A) /\ ColumnsHold(links, A, Nodes(links)) /\ Rows(links)
      /\ links.tot >= 4 * N
  BY <1>1 DEF BuiltUpTo
<1>8. NewRow(links, links', A, id, RowSet(id))
  <2> HIDE DEF A
  <2>1. CASE solver = "DLX"
    BY <1>1, <1>5, <1>6, <1>7, <2>1, DLXInsertIs
  <2>2. CASE solver # "DLX"
    BY <1>1, <1>5, <1>6, <1>7, <2>2, DanceRowIs
  <2> QED
    BY <2>1, <2>2
<1>9. BuiltUpTo(links', A, puzzle)
  <2> HIDE DEF A
  <2> QED
    BY <1>1, <1>4, <1>8, BuiltMore
<1>10. BuiltUpTo(links, AllColumns(puzzle), puzzle)'
  BY <1>1, <1>9, SameCandidates DEF BuiltUpTo
<1>11. LinkTypes'
  BY <1>1 DEF LinksInv, LinkTypes, cache
<1>12. mode' # "solved" /\ mode' \notin Dances /\ mode' \notin {"idle", "headers"}
  BY <1>1 DEF Dances
<1> QED
  BY <1>1, <1>10, <1>11, <1>12 DEF LinksInv

(* The search begins. *)
LEMMA StartLinks ==
    ASSUME LinksInv, StartDancing, UNCHANGED <<spaces, cache>>
    PROVE  LinksInv'
<1> DEFINE A == AllColumns(puzzle)
           ks == [i \in {0} |-> links]
<1>1. /\ mode = "build" /\ mode' = "call" /\ UNCHANGED <<solver, puzzle, board, frames, links>>
      /\ board = puzzle /\ frames = <<>> /\ BuiltUpTo(links, A, puzzle)
      /\ built' = links /\ RowsToBuild = {}
  BY DEF StartDancing, LinksInv
<1>2. LinkTypes'
  BY <1>1 DEF LinksInv, LinkTypes, cache, Dances
<1>3. AllBuilt(built', A, puzzle)
  <2>1. ASSUME NEW id \in Candidates(puzzle), ~IsBuilt(links, id)
        PROVE  FALSE
    <3>1. links.tot > 4 * N => id > links.row[links.tot]
      BY <1>1, <2>1 DEF BuiltUpTo
    <3>2. id \in RowsToBuild
      BY <1>1, <2>1, <3>1 DEF RowsToBuild, Candidates
    <3> QED
      BY <1>1, <3>2
  <2> QED
    BY <1>1, <2>1 DEF AllBuilt
<1>4. AllBuilt(built, AllColumns(puzzle), puzzle)'
  BY <1>1, <1>3, SameCandidates DEF AllBuilt, BuiltUpTo
<1>5. Entered(ks, links, links, A, <<>>)
  <2>1. ks[0] = links
    OBVIOUS
  <2> HIDE DEF ks, A
  <2>2. FrameTypes(links, A, <<>>)
    BY DEF FrameTypes
  <2>3. Levels(ks, links, A, <<>>, 0) /\ Missed(ks, links, A, <<>>, 0)
    BY <2>1 DEF Levels, Missed
  <2>4. Len(<<>>) = 0
    OBVIOUS
  <2> QED
    BY <2>1, <2>2, <2>3, <2>4 DEF Entered
<1>6. Dancing(mode, links, built, AllColumns(puzzle), frames)'
  <2>1. \E ms : Entered(ms, links, links, A, <<>>)
    BY <1>5
  <2>2. AllColumns(puzzle)' = A
    BY <1>1, SameCandidates
  <2> HIDE DEF ks, A
  <2> QED
    BY <1>1, <2>1, <2>2 DEF Dancing
<1> QED
  BY <1>1, <1>2, <1>4, <1>6 DEF LinksInv

(* What is known of the search. *)
LEMMA WhileDancing ==
    ASSUME LinksInv, mode \in Dances
    PROVE  /\ Holds(built, AllColumns(puzzle), {})
           /\ Shape(built, AllColumns(puzzle)) /\ Rows(built)
           /\ AllBuilt(built, AllColumns(puzzle), puzzle)
           /\ BuiltUpTo(built, AllColumns(puzzle), puzzle)
           /\ Dancing(mode, links, built, AllColumns(puzzle), frames)
           /\ puzzle \in Boards /\ board \in Boards
<1>1. /\ AllBuilt(built, AllColumns(puzzle), puzzle)
      /\ Dancing(mode, links, built, AllColumns(puzzle), frames)
      /\ puzzle \in Boards /\ board \in Boards
  BY DEF LinksInv, LinkTypes
<1>2. BuiltUpTo(built, AllColumns(puzzle), puzzle)
  BY <1>1 DEF AllBuilt
<1>3. Holds(built, AllColumns(puzzle), {})
  BY <1>2, BuiltHolds
<1> QED
  BY <1>1, <1>2, <1>3 DEF BuiltUpTo

(* The next row of the column is tried. *)
LEMMA TryLinks ==
    ASSUME LinksInv, TryRow, UNCHANGED <<spaces, cache>>
    PROVE  LinksInv'
<1> DEFINE A == AllColumns(puzzle)
           next == NextRow
           gr == [frames EXCEPT ![Len(frames)] = [frames[Len(frames)] EXCEPT !.node = next]]
<1>1. /\ mode = "next" /\ mode' = "call" /\ UNCHANGED <<solver, puzzle, board, built>>
      /\ next = links.D[frames[Len(frames)].node] /\ next # frames[Len(frames)].col
      /\ frames' = gr /\ links' = CoverRow(links, next)
  BY DEF TryRow, NextRow, Innermost, Depth, SetInnermost
<1>2. mode \in Dances /\ mode' \in Dances
  BY <1>1 DEF Dances
<1>3. /\ Holds(built, A, {}) /\ Dancing(mode, links, built, A, frames)
      /\ board = puzzle /\ board \in Boards
  BY <1>1, <1>2, WhileDancing DEF LinksInv
<1>4. PICK ks : Trying(ks, links, built, A, frames)
  BY <1>1, <1>3 DEF Dancing
<1> HIDE DEF A, next
<1>5. \E ms : Entered(ms, CoverRow(links, next), built, A, gr)
  <2> HIDE DEF gr
  <2>1. gr = [frames EXCEPT ![Len(frames)] = [frames[Len(frames)] EXCEPT !.node = next]]
    BY DEF gr
  <2> QED
    BY <1>1, <1>3, <1>4, <2>1, TryIsRight
<1> HIDE DEF gr
<1>6. Dancing(mode', links', built, A, frames')
  BY <1>1, <1>5 DEF Dancing
<1> QED
  BY <1>1, <1>2, <1>3, <1>6, DanceStep DEF A

(* The last row of the column has been tried. *)
LEMMA ReturnLinks ==
    ASSUME LinksInv, OutOfRows, UNCHANGED <<spaces, cache>>
    PROVE  LinksInv'
<1> DEFINE A == AllColumns(puzzle)
           gr == Front(frames)
           l == Uncover(links, frames[Len(frames)].col)
<1>1. /\ mode = "next" /\ mode' = (IF Len(frames) = 1 THEN "failed" ELSE "undo")
      /\ UNCHANGED <<solver, puzzle, board, built>>
      /\ links.D[frames[Len(frames)].node] = frames[Len(frames)].col
      /\ frames' = gr /\ links' = l
  BY DEF OutOfRows, NextRow, Innermost, Depth, ReturnFalse, Reinstate
<1>2. mode \in Dances /\ mode' \in Dances
  BY <1>1 DEF Dances
<1>3. /\ Holds(built, A, {}) /\ Dancing(mode, links, built, A, frames)
      /\ board = puzzle /\ board \in Boards
  BY <1>1, <1>2, WhileDancing DEF LinksInv
<1>4. PICK ks : Trying(ks, links, built, A, frames)
  BY <1>1, <1>3 DEF Dancing
<1> HIDE DEF A
<1>5. Len(gr) = Len(frames) - 1 /\ Len(frames) \in Nat \ {0}
  <2> DEFINE F == [col : A, node : A \cup Nodes(built)]
  <2>1. frames \in Seq(F) /\ Len(frames) > 0
    BY <1>4 DEF Trying, FrameTypes
  <2>2. gr = [i \in 1..(Len(frames) - 1) |-> frames[i]]
    BY DEF Front
  <2> HIDE DEF F, gr
  <2> QED
    BY <2>1, <2>2
<1>6. Entered(ks, l, built, A, gr) /\ Hopeless(built, A, gr)
  <2> HIDE DEF gr
  <2>1. gr = Front(frames)
    BY DEF gr
  <2> QED
    BY <1>1, <1>3, <1>4, <2>1, GiveUpIsRight
<1> HIDE DEF gr, l
<1>7. Dancing(mode', links', built, A, frames')
  <2>1. CASE Len(frames) # 1
    <3>1. mode' = "undo" /\ Len(gr) > 0
      BY <1>1, <1>5, <2>1
    <3> QED
      BY <1>1, <1>6, <3>1 DEF Dancing
  <2>2. CASE Len(frames) = 1
    <3>1. mode' = "failed" /\ Len(gr) = 0
      BY <1>1, <1>5, <2>2
    <3>2. gr = <<>>
      <4>1. gr \in Seq([col : A, node : A \cup Nodes(built)])
        BY <1>6 DEF Entered, FrameTypes
      <4> QED
        BY <3>1, <4>1
    <3>3. l = built
      BY <1>6, <3>1 DEF Entered, Levels
    <3>4. \A T : ~ExactCover(built, A, T)
      <4>1. \A T : HasRows(T, gr, Len(gr) + 1)
        BY <3>1 DEF HasRows
      <4> QED
        BY <1>6, <4>1 DEF Hopeless
    <3> QED
      BY <1>1, <3>1, <3>2, <3>3, <3>4 DEF Dancing
  <2> QED
    BY <2>1, <2>2
<1> QED
  BY <1>1, <1>2, <1>3, <1>7, DanceStep DEF A, Dances

(* The row of the innermost frame is taken back. *)
LEMMA TakeBackLinks ==
    ASSUME LinksInv, TakeRowBack, UNCHANGED <<spaces, cache>>
    PROVE  LinksInv'
<1> DEFINE A == AllColumns(puzzle)
<1>1. /\ mode = "undo" /\ mode' = "next" /\ UNCHANGED <<solver, puzzle, board, frames, built>>
      /\ links' = UncoverRow(links, frames[Len(frames)].node)
  BY DEF TakeRowBack, Innermost, Depth
<1>2. mode \in Dances /\ mode' \in Dances
  BY <1>1 DEF Dances
<1>3. /\ Holds(built, A, {}) /\ Dancing(mode, links, built, A, frames)
      /\ board = puzzle /\ board \in Boards
  BY <1>1, <1>2, WhileDancing DEF LinksInv
<1> HIDE DEF A
<1>4. PICK ks : Entered(ks, links, built, A, frames)
  BY <1>1, <1>3 DEF Dancing
<1>5. Len(frames) > 0 /\ Hopeless(built, A, frames)
  BY <1>1, <1>3 DEF Dancing
<1>6. Trying(ks, UncoverRow(links, frames[Len(frames)].node), built, A, frames)
  BY <1>3, <1>4, <1>5, TakeBackIsRight
<1>7. Dancing(mode', links', built, A, frames')
  BY <1>1, <1>6 DEF Dancing
<1> QED
  BY <1>1, <1>2, <1>3, <1>7, DanceStep DEF A

(* The links when the search is entered. *)
LEMMA EnteredHolds ==
    ASSUME NEW ks, NEW l, NEW b, NEW A, NEW fr, Holds(b, A, {}), Entered(ks, l, b, A, fr)
    PROVE  /\ Len(fr) \in Nat /\ fr \in Seq([col : A, node : A \cup Nodes(b)])
           /\ Holds(l, A, MetUpTo(b, fr, Len(fr))) /\ SameNodes(b, l)
<1>1. Len(fr) \in Nat /\ fr \in Seq([col : A, node : A \cup Nodes(b)])
  BY DEF Entered, FrameTypes
<1>2. Levels(ks, b, A, fr, Len(fr)) /\ l = ks[Len(fr)]
  BY DEF Entered
<1>3. Len(fr) \in 0..Len(fr)
  BY <1>1
<1>4. \A i \in 0..Len(fr) : Holds(ks[i], A, MetUpTo(b, fr, i)) /\ SameNodes(b, ks[i])
  BY <1>1, <1>2, LevelsHold
<1> QED
  BY <1>1, <1>2, <1>3, <1>4

(* A ring is what Ring lists, both ways round. *)
LEMMA RingsAre ==
    ASSUME NEW fwd, NEW bwd, NEW c, NEW S, c \notin S, RingOf(fwd, bwd, c, S),
           S \cup {c} \subseteq DOMAIN fwd, IsFiniteSet(DOMAIN fwd),
           S \cup {c} \subseteq DOMAIN bwd, IsFiniteSet(DOMAIN bwd)
    PROVE  /\ Enumerates(Ring(fwd, c), S) /\ Ring(bwd, c) = Reverse(Ring(fwd, c))
           /\ fwd[c] = c <=> Ring(fwd, c) = <<>>
<1>1. PICK s : Enumerates(s, S) /\ Linked(fwd, bwd, c, s)
  BY DEF RingOf
<1>2. /\ Enumerates(Reverse(s), S)
      /\ Along(fwd, c, s) /\ Along(bwd, c, Reverse(s))
  BY <1>1, LinkedReverse
<1>3. Ring(fwd, c) = s /\ Ring(bwd, c) = Reverse(s)
  BY <1>1, <1>2, RingIs
<1>4. fwd[c] = At(s, c, 1) /\ Len(s) \in Nat
  <2>1. Len(s) \in Nat
    BY <1>1 DEF Enumerates
  <2>2. fwd[At(s, c, 0)] = At(s, c, 0 + 1) /\ At(s, c, 0) = c
    BY <1>1, <2>1 DEF Linked, At
  <2> QED
    BY <2>1, <2>2
<1>5. fwd[c] = c <=> s = <<>>
  <2>1. CASE Len(s) = 0
    BY <1>1, <1>4, <2>1 DEF At, Enumerates
  <2>2. CASE Len(s) # 0
    <3>1. 1 \in 1..Len(s) /\ s # <<>>
      BY <1>4, <2>2
    <3>2. s[1] \in S
      BY <1>1, <3>1 DEF Enumerates
    <3> QED
      BY <1>4, <3>1, <3>2 DEF At
  <2> QED
    BY <2>1, <2>2
<1> QED
  BY <1>1, <1>3, <1>5

(* The columns that are left are those that the headers lead to. *)
LEMMA ColumnsLeft ==
    ASSUME NEW l, NEW A, NEW M, Holds(l, A, M)
    PROVE  /\ Enumerates(Ring(l.R, root), A \ M)
           /\ Ring(l.L, root) = Reverse(Ring(l.R, root))
           /\ l.R[root] = root <=> Ring(l.R, root) = <<>>
<1>1. Shape(l, A) /\ RingOf(l.R, l.L, root, A \ M)
  BY DEF Holds
<1>2. root \notin A /\ IsFiniteSet(A) /\ IsFiniteSet(Nodes(l))
  BY <1>1, NodesApart
<1>3. DOMAIN l.R = {root} \cup A \cup Nodes(l) /\ DOMAIN l.L = {root} \cup A \cup Nodes(l)
  BY <1>1 DEF Shape
<1>4. IsFiniteSet({root} \cup A \cup Nodes(l))
  BY <1>2, FS_Singleton, FS_Union
<1> DEFINE R == l.R
           L == l.L
           S == A \ M
<1>5. /\ RingOf(R, L, root, S) /\ root \notin S /\ S \cup {root} \subseteq DOMAIN R
      /\ IsFiniteSet(DOMAIN R) /\ S \cup {root} \subseteq DOMAIN L /\ IsFiniteSet(DOMAIN L)
  BY <1>1, <1>2, <1>3, <1>4
<1> HIDE DEF R, L, S
<1>6. /\ Enumerates(Ring(R, root), S) /\ Ring(L, root) = Reverse(Ring(R, root))
      /\ R[root] = root <=> Ring(R, root) = <<>>
  BY <1>5, RingsAre
<1> QED
  BY <1>6 DEF R, L, S

(* Their sizes are numbers. *)
LEMMA SizesCount ==
    ASSUME NEW A, Shape(links, A), Counted(links, A), NEW c \in A
    PROVE  Size(c) \in Nat
<1>1. PICK X : X \subseteq Nodes(links) /\ links.siz[c] = Cardinality(X)
  BY DEF Counted
<1>2. IsFiniteSet(X)
  BY <1>1, NodesApart, FS_Subset
<1>3. Cardinality(X) \in Nat
  BY <1>2, FS_CardinalityType
<1> QED
  BY <1>1, <1>3 DEF Size

(* The smallest column is one of them. *)
LEMMA MinColumnIs ==
    ASSUME NEW A, NEW M, Holds(links, A, M), links.R[root] # root
    PROVE  MinColumn \in A \ M
<1> DEFINE ring == Ring(links.R, root)
           sizes == {Size(ring[i]) : i \in DOMAIN ring}
           smallest == {i \in DOMAIN ring : \A j \in DOMAIN ring : Size(ring[i]) <= Size(ring[j])}
<1>1. Enumerates(ring, A \ M) /\ ring # <<>>
  BY ColumnsLeft
<1>2. Shape(links, A) /\ Counted(links, A)
  BY DEF Holds
<1>3. \A c \in A : Size(c) \in Nat
  BY <1>2, SizesCount
<1>4. MinColumn = ring[Min(smallest)]
  BY DEF MinColumn
<1> HIDE DEF ring
<1>5. ring \in Seq(A \ M) /\ DOMAIN ring = 1..Len(ring) /\ Len(ring) \in Nat /\ Len(ring) # 0
  BY <1>1 DEF Enumerates
<1>6. \A i \in DOMAIN ring : ring[i] \in A \ M /\ Size(ring[i]) \in Nat
  BY <1>3, <1>5
<1>7. sizes \subseteq Nat /\ sizes # {}
  <2>1. 1 \in DOMAIN ring
    BY <1>5
  <2> QED
    BY <1>6, <2>1
<1>8. PICK i \in DOMAIN ring : \A j \in DOMAIN ring : Size(ring[i]) <= Size(ring[j])
  <2> HIDE DEF sizes
  <2>1. Min(sizes) \in sizes /\ \A x \in sizes : Min(sizes) <= x
    BY <1>7, LeastNumber
  <2> QED
    BY <2>1 DEF sizes
<1>9. smallest \subseteq Nat /\ smallest # {} /\ smallest \subseteq DOMAIN ring
  BY <1>5, <1>8
<1> HIDE DEF smallest
<1>10. Min(smallest) \in DOMAIN ring
  BY <1>9, LeastNumber
<1> QED
  BY <1>4, <1>6, <1>10

(* A column is chosen. *)
LEMMA ChooseLinks ==
    ASSUME LinksInv, ChooseColumn, UNCHANGED <<spaces, cache>>
    PROVE  LinksInv'
<1> DEFINE A == AllColumns(puzzle)
           c == MinColumn
           gr == Append(frames, [col |-> c, node |-> c])
<1>1. /\ mode = "call" /\ mode' = "next" /\ UNCHANGED <<solver, puzzle, board, built>>
      /\ links.R[root] # root /\ frames' = gr /\ links' = Cover(links, c)
  BY DEF ChooseColumn
<1>2. mode \in Dances /\ mode' \in Dances
  BY <1>1 DEF Dances
<1>3. /\ Holds(built, A, {}) /\ Dancing(mode, links, built, A, frames)
      /\ board = puzzle /\ board \in Boards
  BY <1>1, <1>2, WhileDancing DEF LinksInv
<1> HIDE DEF A, c
<1>4. PICK ks : Entered(ks, links, built, A, frames)
  BY <1>1, <1>3 DEF Dancing
<1>5. Holds(links, A, MetUpTo(built, frames, Len(frames)))
  BY <1>3, <1>4, EnteredHolds
<1>6. c \in A \ MetUpTo(built, frames, Len(frames))
  BY <1>1, <1>5, MinColumnIs DEF c
<1>7. Trying(ks, Cover(links, c), built, A, gr)
  <2> HIDE DEF gr
  <2>1. gr = Append(frames, [col |-> c, node |-> c])
    BY DEF gr
  <2> QED
    BY <1>3, <1>4, <1>6, <2>1, ChooseIsRight
<1> HIDE DEF gr
<1>8. Dancing(mode', links', built, A, frames')
  BY <1>1, <1>7 DEF Dancing
<1> QED
  BY <1>1, <1>2, <1>3, <1>8, DanceStep DEF A

(* The rows of an exact cover, taken from the frames. *)
LEMMA RowsOfFrames ==
    ASSUME NEW b, Rows(b), NEW fr, Len(fr) \in Nat, Chosen(b, fr) \subseteq Nodes(b)
    PROVE  {b.row[n] : n \in Chosen(b, fr)} = {b.row[fr[i].node] : i \in 1..Len(fr)}
<1>1. \A i \in 1..Len(fr) : fr[i].node \in Chosen(b, fr) /\ fr[i].node \in Nodes(b)
  BY DEF Chosen
<1>2. ASSUME NEW n \in Chosen(b, fr)
      PROVE  \E i \in 1..Len(fr) : b.row[n] = b.row[fr[i].node]
  <2>1. PICK i \in 1..Len(fr) : n \in {fr[i].node} \cup Others(b, fr[i].node)
    BY DEF Chosen
  <2>2. b.row[n] = b.row[fr[i].node]
    BY <1>1, <2>1, OthersAre
  <2> QED
    BY <2>2
<1> QED
  BY <1>1, <1>2

(* No column is left, and the board is filled in. *)
LEMMA FoundLinks ==
    ASSUME LinksInv, NoColumnLeft, UNCHANGED <<spaces, cache>>
    PROVE  LinksInv'
<1> DEFINE A == AllColumns(puzzle)
           T == Chosen(built, frames)
           ids == {built.row[n] : n \in T}
<1>1. /\ mode = "call" /\ mode' = "solved"
      /\ UNCHANGED <<solver, puzzle, frames, links, built>>
      /\ links.R[root] = root /\ board' = WithRows(board)
  BY DEF NoColumnLeft
<1>2. mode \in Dances /\ mode' \in Dances
  BY <1>1 DEF Dances
<1>3. /\ Holds(built, A, {}) /\ Dancing(mode, links, built, A, frames) /\ Rows(built)
      /\ BuiltUpTo(built, A, puzzle) /\ board = puzzle /\ puzzle \in Boards
  BY <1>1, <1>2, WhileDancing DEF LinksInv
<1>4. A = AllColumns(puzzle)
  OBVIOUS
<1> HIDE DEF A
<1>5. PICK ks : Entered(ks, links, built, A, frames)
  BY <1>1, <1>3 DEF Dancing
<1>6. SameNodes(built, links) /\ Len(frames) \in Nat /\ DOMAIN frames = 1..Len(frames)
  <2> DEFINE F == [col : A, node : A \cup Nodes(built)]
  <2>1. SameNodes(built, links) /\ Len(frames) \in Nat /\ frames \in Seq(F)
    BY <1>3, <1>5, EnteredHolds
  <2> HIDE DEF F
  <2> QED
    BY <2>1
<1>7. ExactCover(built, A, T)
  BY <1>1, <1>3, <1>5, NothingLeftIsCovered
<1>8. ids = {links.row[frames[i].node] : i \in DOMAIN frames}
  <2>1. T \subseteq Nodes(built)
    BY <1>7 DEF ExactCover
  <2>2. links.row = built.row
    BY <1>6 DEF SameNodes
  <2>3. ids = {built.row[frames[i].node] : i \in 1..Len(frames)}
    <3>1. /\ Rows(built) /\ Len(frames) \in Nat
          /\ Chosen(built, frames) \subseteq Nodes(built)
      BY <1>3, <1>6, <2>1
    <3>2. {built.row[n] : n \in Chosen(built, frames)} =
             {built.row[frames[i].node] : i \in 1..Len(frames)}
      BY ONLY <3>1, RowsOfFrames, ZenonT(60)
    <3> QED
      BY <3>2
  <2> QED
    BY <1>6, <2>2, <2>3
<1> HIDE DEF T, ids
<1>9. Filled(puzzle, ids, board')
  BY <1>1, <1>3, <1>8 DEF Filled, WithRows
<1>10. Solves(board', puzzle) /\ board' \in Boards
  <2> DEFINE s == board'
  <2>1. Filled(puzzle, ids, s)
    BY <1>9
  <2>2. ids = {built.row[n] : n \in T}
    BY DEF ids
  <2> HIDE DEF s
  <2>3. Solves(s, puzzle) /\ s \in Boards
    BY <1>3, <1>4, <1>7, <2>1, <2>2, CoverSolves
  <2> QED
    BY <2>3 DEF s
<1>11. Dancing(mode', links', built, A, frames')
  BY <1>1, <1>5 DEF Dancing
<1> QED
  BY <1>1, <1>2, <1>3, <1>10, <1>11, DanceStep DEF A

(* No step of a search spoils this. *)
LEMMA LinksSteps ==
    ASSUME LinksInv, [Next]_vars
    PROVE  LinksInv'
<1>1. CASE LinksStep /\ UNCHANGED <<spaces, cache>>
  BY <1>1, HeadersLinks, RowLinks, StartLinks, FoundLinks, ChooseLinks, TryLinks, ReturnLinks,
     TakeBackLinks DEF LinksStep
<1>2. CASE \E p \in Puzzles : ReadPuzzle(p)
  BY <1>2, ReadLinks
<1>3. CASE UNCHANGED vars
  <2>1. UNCHANGED <<solver, puzzle, board, frames, mode, spaces, links, built, occupied, arity>>
    BY <1>3 DEF vars
  <2>2. LinkTypes'
    BY <2>1 DEF LinksInv, LinkTypes
  <2>3. mode \in Dances => AllBuilt(built, AllColumns(puzzle), puzzle)'
    BY <2>1, SameHistory DEF LinksInv
  <2>4. mode = "build" => BuiltUpTo(links, AllColumns(puzzle), puzzle)'
    BY <2>1, SameCandidates DEF LinksInv, BuiltUpTo
  <2>5. AllColumns(puzzle)' = AllColumns(puzzle)
    BY <2>1, SameCandidates
  <2> QED
    BY <2>1, <2>2, <2>3, <2>4, <2>5 DEF LinksInv
<1> QED
  BY <1>1, <1>2, <1>3, LinkSteps

(* So the links are always in order. *)
LEMMA LinksAlways ==
    Spec => [](solver \in LinkSolvers => LinksInv)
<1> DEFINE I == solver \in LinkSolvers => LinksInv
<1>1. Init => I
  <2> SUFFICES ASSUME Init, solver \in LinkSolvers PROVE LinksInv
    OBVIOUS
  <2>1. NoPuzzle \in Boards
    BY BoardSizes DEF NoPuzzle, Boards
  <2>2. LinkTypes
    BY <2>1, BoardSizes DEF Init, LinkTypes
  <2> QED
    BY <2>2 DEF Init, LinksInv, Dances
<1>2. I /\ [Next]_vars => I'
  <2> SUFFICES ASSUME I, [Next]_vars PROVE I'
    OBVIOUS
  <2>1. solver' = solver
    BY SolverStays
  <2> QED
    BY <2>1, LinksSteps
<1> QED
  BY <1>1, <1>2, PTL DEF Spec
-----------------------------------------------------------------------------
(* What this says of the solvers. *)

(* The rows that are left in a column. *)
LEMMA ColumnRows ==
    ASSUME NEW b, NEW A, NEW p, AllBuilt(b, A, p), NEW M, NEW c \in A
    PROVE  {b.row[n] : n \in Column(b, M, c)} =
             {id \in Candidates(p) : RowSet(id) \cap M = {} /\ c \in RowSet(id)}
<1>1. BuiltUpTo(b, A, p) /\ \A id \in Candidates(p) : IsBuilt(b, id)
  BY DEF AllBuilt
<1>2. Rows(b) /\ \A n \in Nodes(b) : RowColumns(b, n) = RowSet(b.row[n])
  BY <1>1 DEF BuiltUpTo
<1>3. ASSUME NEW n \in Column(b, M, c)
      PROVE  /\ b.row[n] \in Candidates(p) /\ RowSet(b.row[n]) \cap M = {}
             /\ c \in RowSet(b.row[n])
  <2>1. n \in Nodes(b) /\ RowColumns(b, n) \cap M = {} /\ b.col[n] = c
    BY <1>3 DEF Column, InColumn, Live
  <2> QED
    BY <1>1, <1>2, <2>1, RowInCover
<1>4. ASSUME NEW id \in Candidates(p), RowSet(id) \cap M = {}, c \in RowSet(id)
      PROVE  \E n \in Column(b, M, c) : b.row[n] = id
  <2>1. PICK m \in Nodes(b) : b.row[m] = id
    BY <1>1 DEF IsBuilt
  <2>2. PICK n \in {m} \cup Others(b, m) : b.col[n] = c /\ b.row[n] = id
    BY <1>1, <1>4, <2>1, RowInCover
  <2>3. n \in Nodes(b)
    BY <1>2, <2>1, <2>2, OthersAre
  <2>4. RowColumns(b, n) \cap M = {}
    BY <1>2, <1>4, <2>2, <2>3
  <2> QED
    BY <2>2, <2>3, <2>4 DEF Column, InColumn, Live
<1> QED
  BY <1>3, <1>4

(* A column that is left, as the links up and down and its size tell. *)
LEMMA ColumnTold ==
    ASSUME NEW l, NEW A, NEW M, Holds(l, A, M), NEW c \in A \ M
    PROVE  /\ Enumerates(Ring(l.D, c), Column(l, M, c))
           /\ Ring(l.U, c) = Reverse(Ring(l.D, c)) /\ l.siz[c] = Len(Ring(l.D, c))
<1> DEFINE D == l.D
           U == l.U
           S == Column(l, M, c)
<1>1. Shape(l, A) /\ RingOf(D, U, c, S) /\ l.siz[c] = Cardinality(S)
  BY DEF Holds, ColumnsHold, Column
<1>2. /\ A \cap Nodes(l) = {} /\ IsFiniteSet(A) /\ IsFiniteSet(Nodes(l))
      /\ S \subseteq Nodes(l)
  BY <1>1, NodesApart DEF Column, InColumn, Live
<1>3. DOMAIN D = A \cup Nodes(l) /\ DOMAIN U = A \cup Nodes(l)
  BY <1>1 DEF Shape
<1>4. IsFiniteSet(A \cup Nodes(l)) /\ c \notin S /\ S \cup {c} \subseteq A \cup Nodes(l)
  BY <1>2, FS_Union
<1> HIDE DEF D, U, S
<1>5. Enumerates(Ring(D, c), S) /\ Ring(U, c) = Reverse(Ring(D, c))
  BY <1>1, <1>3, <1>4, RingsAre
<1>6. Len(Ring(D, c)) = Cardinality(S)
  BY <1>5, EnumeratesAll
<1> QED
  BY <1>1, <1>5, <1>6 DEF D, U, S

(* The frames hold nodes. *)
LEMMA FramesNodes ==
    ASSUME NEW ks, NEW l, NEW b, NEW A, NEW fr, Holds(b, A, {}), Entered(ks, l, b, A, fr),
           NEW i \in 1..Len(fr)
    PROVE  fr[i].node \in Nodes(b)
<1> DEFINE e == i - 1
<1>1. Len(fr) \in Nat /\ Levels(ks, b, A, fr, Len(fr))
  BY EnteredHolds DEF Entered
<1>2. e \in 0..Len(fr)
  BY <1>1
<1>3. Level(ks[e], ks[i], A, MetUpTo(b, fr, e), fr[i])
  BY <1>1 DEF Levels
<1> HIDE DEF e
<1>4. SameNodes(b, ks[e])
  BY <1>1, <1>2, LevelsHold
<1>5. fr[i].node \in Nodes(ks[e])
  BY <1>3 DEF Level, Column, InColumn, Live
<1> QED
  BY <1>4, <1>5 DEF SameNodes, Nodes

(* Neither solver ever mislays a node.  Whenever dance or solve is entered, after any
   number of columns and rows that were covered, tried and uncovered again, exactly the
   columns that no row on the stack has are linked to the root, each of them leads up and
   down to exactly the candidates that share no column with those rows, and its size is
   their number. *)
THEOREM SudokuLinksHoldWhatIsLeft ==
    Spec => []LinksHoldWhatIsLeft
<1>1. (solver \in LinkSolvers => LinksInv) => LinksHoldWhatIsLeft
  <2> SUFFICES ASSUME LinksInv, solver \in LinkSolvers, mode = "call"
               PROVE  LinksHoldWhatIsLeft
    BY DEF LinksHoldWhatIsLeft
  <2> DEFINE A == AllColumns(puzzle)
             M == MetUpTo(built, frames, Len(frames))
             columns(id) == ToSet(ColumnsOf(CellOf(id), ValueOf(id)))
             met == UNION {columns(links.row[frames[i].node]) : i \in DOMAIN frames}
             left == {id \in Candidates(puzzle) : columns(id) \cap met = {}}
             ring == Ring(links.R, root)
  <2>1. /\ Holds(built, A, {}) /\ AllBuilt(built, A, puzzle) /\ BuiltUpTo(built, A, puzzle)
        /\ Dancing(mode, links, built, A, frames)
    BY WhileDancing DEF Dances
  <2>2. Enumerates(ColumnOrder(puzzle), A)
    BY ColumnOrderIs
  <2> HIDE DEF A
  <2>3. ToSet(ColumnOrder(puzzle)) = A
    BY <2>2, EnumeratesAll
  <2>4. PICK ks : Entered(ks, links, built, A, frames)
    BY <2>1 DEF Dancing
  <2>5. /\ Len(frames) \in Nat /\ DOMAIN frames = 1..Len(frames)
        /\ Holds(links, A, M) /\ SameNodes(built, links)
    <3> DEFINE F == [col : A, node : A \cup Nodes(built)]
    <3>1. /\ Holds(links, A, M) /\ SameNodes(built, links) /\ Len(frames) \in Nat
          /\ frames \in Seq(F)
      BY <2>1, <2>4, EnteredHolds
    <3> HIDE DEF F, M
    <3> QED
      BY <3>1
  <2>6. \A i \in DOMAIN frames : frames[i].node \in Nodes(built)
    BY <2>1, <2>4, <2>5, FramesNodes
  <2>7. links.row = built.row
    BY <2>5 DEF SameNodes
  <2>8. \A n \in Nodes(built) : /\ built.row[n] \in Candidates(puzzle)
                                /\ RowColumns(built, n) = RowSet(built.row[n])
    BY <2>1 DEF BuiltUpTo
  <2>9. \A id \in Candidates(puzzle) : columns(id) = RowSet(id)
    <3>1. \A id \in Candidates(puzzle) : CellOf(id) \in Cells /\ ValueOf(id) \in Values
      BY CandidateNumbers DEF Candidates
    <3> QED
      BY <3>1, ColumnNumbers DEF RowSet
  <2> HIDE DEF columns
  <2>10. met = M
    <3>1. \A i \in DOMAIN frames :
             columns(links.row[frames[i].node]) = RowColumns(built, frames[i].node)
      BY <2>6, <2>7, <2>8, <2>9
    <3> QED
      BY <2>5, <3>1 DEF MetUpTo
  <2> HIDE DEF met, M
  <2>11. left = {id \in Candidates(puzzle) : RowSet(id) \cap M = {}}
    BY <2>9, <2>10
  <2>12. Enumerates(ring, A \ M) /\ Ring(links.L, root) = Reverse(ring)
    BY <2>5, ColumnsLeft
  <2> HIDE DEF ring
  <2>13. ToSet(ring) = A \ M
    BY <2>12, EnumeratesAll
  <2>14. ASSUME NEW c \in A \ M
         PROVE  /\ {links.row[n] : n \in ToSet(Ring(links.D, c))} =
                       {id \in left : c \in columns(id)}
                /\ Ring(links.U, c) = Reverse(Ring(links.D, c))
                /\ links.siz[c] = Len(Ring(links.D, c))
    <3>1. /\ Enumerates(Ring(links.D, c), Column(links, M, c))
          /\ Ring(links.U, c) = Reverse(Ring(links.D, c))
          /\ links.siz[c] = Len(Ring(links.D, c))
      BY <2>5, ColumnTold
    <3>2. Column(links, M, c) = Column(built, M, c)
      BY <2>1, <2>5, ColumnIs
    <3>3. ToSet(Ring(links.D, c)) = Column(built, M, c)
      BY <3>1, <3>2, EnumeratesAll
    <3>4. {built.row[n] : n \in Column(built, M, c)} =
             {id \in Candidates(puzzle) : RowSet(id) \cap M = {} /\ c \in RowSet(id)}
      BY <2>1, ColumnRows
    <3>5. {id \in left : c \in columns(id)} =
             {id \in Candidates(puzzle) : RowSet(id) \cap M = {} /\ c \in RowSet(id)}
      BY <2>9, <2>11
    <3> QED
      BY <2>7, <3>1, <3>3, <3>4, <3>5
  <2> HIDE DEF left
  <2>15. /\ ToSet(ring) = ToSet(ColumnOrder(puzzle)) \ met
         /\ Ring(links.L, root) = Reverse(ring)
         /\ \A c \in ToSet(ring) :
              /\ {links.row[n] : n \in ToSet(Ring(links.D, c))} = {id \in left : c \in columns(id)}
              /\ Ring(links.U, c) = Reverse(Ring(links.D, c))
              /\ links.siz[c] = Len(Ring(links.D, c))
    BY <2>3, <2>10, <2>12, <2>13, <2>14
  <2> QED
    BY <2>15 DEF LinksHoldWhatIsLeft, ring, left, met, columns, Candidates
<1> QED
  BY <1>1, LinksAlways, PTL

(* A program was started with one of the five solvers. *)
LEMMA SolverKnown ==
    Spec => [](solver \in Backtrackers \/ solver \in LinkSolvers)
<1> DEFINE I == solver \in Backtrackers \/ solver \in LinkSolvers
<1>1. Init => I
  BY DEF Init
<1>2. I /\ [Next]_vars => I'
  BY SolverStays
<1> QED
  BY <1>1, <1>2, PTL DEF Spec

(* Whatever the solver, a search that has failed leaves nothing behind: the board and the
   cache are the puzzle's again, and every single link of DLX and Dance is what it was
   before the search, however many columns and rows were covered and uncovered. *)
THEOREM SudokuFailureLeavesNoTrace ==
    Spec => []FailureLeavesNoTrace
<1>1. ASSUME solver \in LinkSolvers, LinksInv
      PROVE  FailureLeavesNoTrace
  <2>1. solver \notin Backtrackers
    BY <1>1 DEF LinkSolvers, Backtrackers
  <2>2. ASSUME mode = "failed"
        PROVE  board = puzzle /\ links = built
    BY <1>1, <2>2, WhileDancing DEF LinksInv, Dancing, Dances
  <2> QED
    BY <2>1, <2>2 DEF FailureLeavesNoTrace
<1>2. /\ solver \in Backtrackers \/ solver \in LinkSolvers
      /\ solver \in LinkSolvers => LinksInv
      /\ solver \in Backtrackers => FailureLeavesNoTrace
      => FailureLeavesNoTrace
  BY <1>1
<1> QED
  BY <1>2, SolverKnown, LinksAlways, SudokuBacktrackersLeaveNoTrace, PTL

(* The links and the frames, whatever the step of the search. *)
LEMMA LinksMeanwhile ==
    ASSUME LinksInv, mode \in Dances
    PROVE  /\ Shape(links, AllColumns(puzzle)) /\ Counted(links, AllColumns(puzzle))
           /\ SameNodes(built, links) /\ FrameTypes(built, AllColumns(puzzle), frames)
<1> DEFINE A == AllColumns(puzzle)
<1>1. Holds(built, A, {}) /\ Dancing(mode, links, built, A, frames)
  BY WhileDancing
<1> HIDE DEF A
<1>2. CASE mode \in {"call", "undo", "solved"}
  <2>1. PICK ks : Entered(ks, links, built, A, frames)
    BY <1>1, <1>2 DEF Dancing
  <2>2. /\ Holds(links, A, MetUpTo(built, frames, Len(frames))) /\ SameNodes(built, links)
        /\ FrameTypes(built, A, frames)
    BY <1>1, <2>1, EnteredHolds DEF FrameTypes
  <2> QED
    BY <2>2 DEF A, Holds
<1>3. CASE mode = "next"
  <2> DEFINE d == Len(frames)
  <2>1. PICK ks : Trying(ks, links, built, A, frames)
    BY <1>1, <1>3 DEF Dancing
  <2> DEFINE k == ks[d - 1]
             M == MetUpTo(built, frames, d - 1)
             c == frames[d].col
             n == frames[d].node
             C == Column(built, M, c)
  <2>2. WhileTrying(ks, links, built, A, frames, d, k, M, c, n, C)
    BY <1>1, <2>1, TryingMeans
  <2>3. FrameTypes(built, A, frames)
    BY <2>1 DEF Trying
  <2> HIDE DEF d, k, M, c, n, C
  <2>4. SameNodes(built, k) /\ SameNodes(k, links) /\ Holds(links, A, M \cup {c})
    BY <2>2 DEF WhileTrying, Covers
  <2>5. SameNodes(built, links)
    BY <2>4, SameNodesMore
  <2> QED
    BY <2>3, <2>4, <2>5 DEF A, Holds
<1>4. CASE mode = "failed"
  <2>1. links = built /\ frames = <<>>
    BY <1>1, <1>4 DEF Dancing
  <2> QED
    BY <1>1, <2>1 DEF A, Holds, SameNodes, FrameTypes
<1> QED
  BY <1>2, <1>3, <1>4 DEF Dances

(* The sizes of columns are in bounds. *)
LEMMA SizesFit ==
    ASSUME NEW p \in Boards, NEW b, BuiltUpTo(b, AllColumns(p), p),
           NEW l, Shape(l, AllColumns(p)), Counted(l, AllColumns(p)), SameNodes(b, l)
    PROVE  \A c \in DOMAIN l.siz : l.siz[c] \in 0..NUM
<1> DEFINE A == AllColumns(p)
<1>1. DOMAIN l.siz = A
  BY DEF Shape
<1>2. l.col = b.col /\ Nodes(l) = Nodes(b)
  BY DEF SameNodes, Nodes
<1>3. A = AllColumns(p) /\ BuiltUpTo(b, A, p) /\ Counted(l, A)
  OBVIOUS
<1> HIDE DEF A
<1>4. ASSUME NEW c \in A
      PROVE  l.siz[c] \in 0..NUM
  <2>1. PICK X : X \subseteq Nodes(l) /\ (\A x \in X : l.col[x] = c) /\ l.siz[c] = Cardinality(X)
    BY <1>3 DEF Counted
  <2>2. X \subseteq Nodes(b) /\ \A x \in X : b.col[x] = c
    BY <1>2, <2>1
  <2>3. Cardinality(X) \in 0..NUM
    BY <1>3, <2>2, ColumnFits
  <2> QED
    BY <2>1, <2>3
<1> QED
  BY <1>1, <1>4

(* Every variable keeps to its type in every solver: no arity and no size of a column goes
   below zero or above the number of values, and the frames of the links solvers hold
   columns and nodes that were built. *)
THEOREM SudokuTypes ==
    Spec => []TypeOK
<1>1. ASSUME solver \in LinkSolvers, LinksInv
      PROVE  TypeOK
  <2> DEFINE A == AllColumns(puzzle)
  <2>1. LinkTypes /\ solver \notin Backtrackers
    BY <1>1 DEF LinksInv, LinkSolvers, Backtrackers
  <2>2. mode \in Searching \cup Answered \cup {"idle"}
    BY <2>1 DEF LinkTypes, Dances, Searching, Answered
  <2>3. frames \in LinkFrames
    <3>1. CASE frames = <<>>
      BY <3>1 DEF LinkFrames
    <3>2. CASE mode \in Dances
      <4>1. /\ FrameTypes(built, A, frames) /\ SameNodes(built, links) /\ Shape(links, A)
            /\ Shape(built, A)
        BY <1>1, <3>2, LinksMeanwhile, WhileDancing
      <4>2. /\ A \subseteq 1..(4 * N) /\ links.tot = built.tot /\ built.tot \in Nat
            /\ Nodes(built) = (4 * N + 1)..built.tot /\ 4 * N \in Nat
        BY <4>1, BoardSizes DEF Shape, SameNodes, Nodes
      <4>3. built.tot >= 4 * N
        BY <1>1, <3>2, WhileDancing DEF BuiltUpTo
      <4> DEFINE F == [col : A, node : A \cup Nodes(built)]
                 G == [col : 1..(4 * N), node : 1..links.tot]
                 e == 4 * N
                 t == built.tot
      <4>4. A \cup Nodes(built) \subseteq 1..links.tot
        <5>1. /\ A \subseteq 1..e /\ Nodes(built) = (e + 1)..t /\ e \in Nat
              /\ t >= e /\ t \in Nat
          BY <4>2, <4>3
        <5>2. links.tot = t
          BY <4>2
        <5> HIDE DEF e, A, t
        <5>3. 1..e \subseteq 1..t /\ (e + 1)..t \subseteq 1..t
          BY ONLY <5>1
        <5> QED
          BY <5>1, <5>2, <5>3
      <4>5. F \subseteq G
        <5> HIDE DEF A
        <5> QED
          BY <4>2, <4>4
      <4>6. frames \in Seq(F)
        BY <4>1 DEF FrameTypes
      <4> HIDE DEF F, G
      <4>7. frames \in Seq(G)
        BY <4>5, <4>6
      <4> QED
        BY <4>7 DEF G, LinkFrames
    <3> QED
      BY <1>1, <2>1, <3>1, <3>2 DEF LinksInv, LinkTypes
  <2>4. \A c \in DOMAIN links.siz : links.siz[c] \in 0..NUM
    <3>1. CASE mode \in {"idle", "headers"}
      <4>1. DOMAIN links.siz = {}
        BY <1>1, <3>1 DEF LinksInv, NoLinks
      <4> QED
        BY <4>1
    <3>2. CASE mode = "build"
      <4>1. BuiltUpTo(links, A, puzzle) /\ SameNodes(links, links) /\ puzzle \in Boards
        BY <1>1, <2>1, <3>2 DEF LinksInv, LinkTypes, SameNodes
      <4>2. Shape(links, A) /\ Counted(links, A)
        BY <4>1, BuiltHolds DEF Holds
      <4> QED
        BY <4>1, <4>2, SizesFit
    <3>3. CASE mode \in Dances
      BY <1>1, <3>3, LinksMeanwhile, WhileDancing, SizesFit
    <3> QED
      BY <2>1, <3>1, <3>2, <3>3 DEF LinkTypes
  <2> QED
    BY <1>1, <2>1, <2>2, <2>3, <2>4 DEF TypeOK, LinkTypes
<1>2. /\ solver \in Backtrackers \/ solver \in LinkSolvers
      /\ solver \in LinkSolvers => LinksInv
      /\ solver \in Backtrackers => TypeOK
      => TypeOK
  BY <1>1
<1> QED
  BY <1>2, SolverKnown, LinksAlways, SudokuBacktrackersTypes, PTL

(* A links solver gives up only a puzzle that has no solution. *)
LEMMA GivenUpRightly ==
    ASSUME LinksInv, mode = "failed"
    PROVE  ~Solvable(puzzle) /\ board = puzzle
<1> DEFINE A == AllColumns(puzzle)
<1>1. /\ AllBuilt(built, A, puzzle) /\ puzzle \in Boards
      /\ \A T : ~ExactCover(built, A, T)
  BY WhileDancing DEF Dancing, Dances
<1>2. ASSUME NEW s, Solves(s, puzzle)
      PROVE  FALSE
  BY <1>1, <1>2, SolutionCovers
<1> QED
  BY <1>1, <1>2, SolvableMeans DEF LinksInv

(* What the links solvers promise: what they fill in is a solution with the clues of the
   puzzle, and they give up only a puzzle that has none. *)
LEMMA LinksAnswerRight ==
    Spec /\ solver \in LinkSolvers => Promise!Spec
<1> DEFINE Known == solver \in LinkSolvers
           Gives == mode = "failed" => ~Solvable(puzzle) /\ board = puzzle
           Inv == LinksInv /\ Gives
<1>1. ASSUME Init PROVE Promise!Init
  <2>1. NoPuzzle \in Boards
    BY BoardSizes DEF NoPuzzle, Boards
  <2>2. puzzle = NoPuzzle /\ board = puzzle /\ mode = "idle"
    BY <1>1 DEF Init
  <2>3. Verdict = "none"
    BY <2>2 DEF Verdict, Searching
  <2>4. (solver \in Backtrackers) \in BOOLEAN
    OBVIOUS
  <2>5. puzzle \in Promise!Boards
    BY <2>1, <2>2, SameBoards
  <2> QED
    BY <2>2, <2>3, <2>4, <2>5 DEF Promise!Init
<1>2. ASSUME Known, Inv, Inv', [Next]_vars PROVE [Promise!Next]_(Promise!vars)
  <2>0. solver' = solver
    BY <1>2, SolverStays
  <2>1. UNCHANGED (solver \in Backtrackers)
    BY <2>0
  <2>2. ASSUME UNCHANGED <<puzzle, board>>, UNCHANGED Verdict
        PROVE  UNCHANGED Promise!vars
    BY <2>1, <2>2 DEF Promise!vars
  <2>3. CASE UNCHANGED vars
    <3>1. UNCHANGED <<puzzle, board>> /\ UNCHANGED Verdict
      BY <2>3 DEF vars, Verdict
    <3> QED
      BY <2>2, <3>1
  <2>4. ASSUME NEW p \in Puzzles, ReadPuzzle(p) PROVE Promise!Next
    <3>1. /\ p \in Boards /\ puzzle' = p /\ board' = p /\ mode' = "headers"
          /\ mode \in Answered \cup {"idle"}
      BY <1>2, <2>4, PuzzlesAssumption DEF ReadPuzzle
    <3>2. Verdict # "searching" /\ Verdict' = "searching"
      BY <3>1 DEF Verdict, Answered, Searching
    <3>3. Promise!Ask
      BY <2>1, <3>1, <3>2, SameBoards DEF Promise!Ask
    <3> QED
      BY <3>3 DEF Promise!Next
  <2>5. CASE NoColumnLeft
    <3>1. mode = "call" /\ mode' = "solved" /\ UNCHANGED puzzle
      BY <2>5 DEF NoColumnLeft
    <3>2. Verdict = "searching" /\ Verdict' = "solved"
      BY <3>1 DEF Verdict, Searching
    <3>3. Solves(board', puzzle)
      BY <1>2, <3>1 DEF LinksInv
    <3>4. Promise!Solve
      BY <2>1, <3>1, <3>2, <3>3, SameBoards DEF Promise!Solve
    <3> QED
      BY <3>4 DEF Promise!Next
  <2>6. ASSUME mode \in Searching, mode' \in Searching, UNCHANGED <<puzzle, board>>
        PROVE  UNCHANGED Promise!vars
    <3>1. Verdict = "searching" /\ Verdict' = "searching"
      BY <2>6 DEF Verdict, Searching
    <3> QED
      BY <2>2, <2>6, <3>1
  <2>7. CASE BuildHeaders \/ BuildRow \/ StartDancing
    BY <2>6, <2>7 DEF Searching, BuildHeaders, BuildRow, StartDancing
  <2>8. CASE ChooseColumn \/ TryRow \/ TakeRowBack
    BY <2>6, <2>8 DEF Searching, ChooseColumn, TryRow, TakeRowBack
  <2>9. CASE OutOfRows
    <3>1. /\ mode = "next" /\ UNCHANGED <<puzzle, board>>
          /\ mode' = "failed" \/ mode' = "undo"
      BY <2>9 DEF OutOfRows, ReturnFalse
    <3>2. CASE mode' = "undo"
      BY <2>6, <3>1, <3>2 DEF Searching
    <3>3. CASE mode' = "failed"
      <4>1. Verdict = "searching" /\ Verdict' = "unsolvable"
        BY <3>1, <3>3 DEF Verdict, Searching
      <4>2. ~Solvable(puzzle) /\ board' = puzzle
        BY <1>2, <3>1, <3>3
      <4>3. Promise!GiveUp
        BY <2>1, <3>1, <4>1, <4>2, SameBoards DEF Promise!GiveUp
      <4> QED
        BY <4>3 DEF Promise!Next
    <3> QED
      BY <3>1, <3>2, <3>3
  <2> QED
    BY <1>2, <2>3, <2>4, <2>5, <2>7, <2>8, <2>9, LinkSteps DEF LinksStep
<1>3. Init => (Known => Promise!Init)
  BY <1>1
<1>4. Known /\ Inv /\ Inv' /\ [Next]_vars => [Promise!Next]_(Promise!vars)
  BY <1>2
<1>5. Known /\ [Next]_vars => Known'
  BY SolverStays
<1>6. (Known => LinksInv) => (Known => Inv)
  BY GivenUpRightly
<1> HIDE DEF Known, Inv
<1>7. Spec => [](Known => Inv)
  BY <1>6, LinksAlways, PTL DEF Known
<1>8. Spec /\ Known => Promise!Spec
  BY <1>3, <1>4, <1>5, <1>7, PTL DEF Spec, Promise!Spec
<1> QED
  BY <1>8 DEF Known

(* Every solver of lab1 implements SudokuAnswers, but for its liveness: whatever the board
   and the puzzle, the clues stay, a solution that is claimed is one (unless clues clash
   and the solver trusts them), and only a puzzle without a solution is given up, with the
   board as it was read. *)
THEOREM SudokuSolversAnswerRight ==
    Spec => Promise!Spec
<1>1. Init => solver \in Backtrackers \/ solver \in LinkSolvers
  BY DEF Init
<1>2. Spec => Init
  BY PTL DEF Spec
<1> QED
  BY <1>1, <1>2, LinksAnswerRight, SudokuBacktrackersAnswerRight
=============================================================================

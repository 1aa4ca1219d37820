---------------------------- MODULE BoardProofs ----------------------------
(***************************************************************************)
(* Proofs about Board and BoardOperator for every board, dice, catalogue,  *)
(* capacity and number of corrections.                                     *)
(***************************************************************************)
EXTENDS BoardOperator, FiniteSetTheorems, WellFoundedInduction, TLAPS

-----------------------------------------------------------------------------
(***************************************************************************)
(* Loops.  There is no induction over an operator here; but the rounds     *)
(* after which an invariant fails are a set of numbers, and a set of       *)
(* numbers has a least one.                                                *)
(***************************************************************************)
\* A set of numbers has a least one.
LEMMA LeastNumber ==
  ASSUME NEW T, T \subseteq Nat, T # {}
  PROVE  \E m \in T : \A k \in T : m <= k
<1>1. \E m \in T : \A k \in T : <<k, m>> \notin OpToRel(<, Nat)
  BY NatLessThanWellFounded, WFMin
<1>2. \A k, m \in Nat : k < m => <<k, m>> \in OpToRel(<, Nat)
  BY DEF OpToRel
<1>3. \A k, m \in Nat : ~(k < m) => m <= k
  OBVIOUS
<1>4. QED  BY <1>1, <1>2, <1>3

\* The values of a loop's variable after 0, 1 .. k rounds.
AreRounds(v, Body, x, k) == v = [i \in 0..k |-> IF i = 0 THEN x ELSE Body[v[i - 1]]]

\* They exist, for any number of rounds.
LEMMA RoundsExist ==
  ASSUME NEW Body, NEW x, NEW k \in Nat
  PROVE  \E v : AreRounds(v, Body, x, k)
<1> DEFINE Has(n) == \E v : v = [i \in 0..n |-> IF i = 0 THEN x ELSE Body[v[i - 1]]]
           Not == {n \in Nat : ~Has(n)}
<1>1. Has(0)
  <2>1. [i \in 0..0 |-> x] = [i \in 0..0 |-> IF i = 0 THEN x ELSE Body[[j \in 0..0 |-> x][i - 1]]]
    OBVIOUS
  <2>2. QED  BY <2>1
<1>2. ASSUME NEW n \in Nat, Has(n)
      PROVE  Has(n + 1)
  <2>1. PICK v : v = [i \in 0..n |-> IF i = 0 THEN x ELSE Body[v[i - 1]]]
    BY <1>2
  <2> DEFINE w == [i \in 0..(n + 1) |-> IF i = n + 1 THEN Body[v[n]] ELSE v[i]]
  <2>2. ASSUME NEW i \in 0..(n + 1)
        PROVE  w[i] = IF i = 0 THEN x ELSE Body[w[i - 1]]
    <3>1. CASE i = n + 1
      <4>1. w[i] = Body[v[n]] /\ w[i - 1] = v[n] /\ i # 0
        BY <3>1
      <4>2. QED  BY <4>1
    <3>2. CASE i # n + 1
      <4>1. i \in 0..n /\ w[i] = v[i] /\ (i # 0 => w[i - 1] = v[i - 1])
        BY <3>2
      <4>2. v[i] = IF i = 0 THEN x ELSE Body[v[i - 1]]
        BY <2>1, <4>1
      <4>3. QED  BY <4>1, <4>2
    <3>3. QED  BY <3>1, <3>2
  <2>3. DOMAIN w = 0..(n + 1) /\ w = [i \in 0..(n + 1) |-> w[i]]
    OBVIOUS
  <2> HIDE DEF w
  <2>4. w = [i \in 0..(n + 1) |-> IF i = 0 THEN x ELSE Body[w[i - 1]]]
    BY <2>2, <2>3, Zenon
  <2>5. QED  BY <2>4
<1> HIDE DEF Has
<1>3. Not = {}
  <2> SUFFICES ASSUME Not # {}
               PROVE  FALSE
    OBVIOUS
  <2>1. PICK m \in Not : \A n \in Not : m <= n
    BY LeastNumber
  <2>2. m # 0 /\ m - 1 \in Nat /\ m - 1 \notin Not
    BY <1>1, <2>1
  <2>3. Has(m - 1) /\ (m - 1) + 1 = m
    BY <2>2
  <2>4. QED  BY <1>2, <2>2, <2>3
<1>4. Has(k)
  BY <1>3
<1>5. QED  BY <1>4 DEF Has, AreRounds

\* What holds before the first round and is kept by each holds after the last.
LEMMA LoopRule ==
  ASSUME NEW S, NEW x \in S, NEW Body \in [S -> S], NEW k \in Nat, NEW Inv,
         <<0, x>> \in Inv,
         \A j \in 0..(k - 1), s \in S : <<j, s>> \in Inv => <<j + 1, Body[s]>> \in Inv
  PROVE  Rounds(Body, x, k) \in S /\ <<k, Rounds(Body, x, k)>> \in Inv
<1> DEFINE v == CHOOSE g : AreRounds(g, Body, x, k)
           Not == {i \in 0..k : ~(v[i] \in S /\ <<i, v[i]>> \in Inv)}
<1>1. \E g : AreRounds(g, Body, x, k)
  BY RoundsExist
<1>2. AreRounds(v, Body, x, k)
  BY <1>1
<1>3. Rounds(Body, x, k) = v[k]
  BY DEF Rounds, AreRounds
<1> HIDE DEF v
<1>4. v[0] = x /\ \A i \in 1..k : v[i] = Body[v[i - 1]]
  BY <1>2 DEF AreRounds
<1>5. Not = {}
  <2> SUFFICES ASSUME Not # {}
               PROVE  FALSE
    OBVIOUS
  <2>1. PICK m \in Not : \A n \in Not : m <= n
    <3>1. Not \subseteq Nat
      OBVIOUS
    <3> HIDE DEF Not
    <3>2. QED  BY <3>1, LeastNumber
  <2>2. m # 0 /\ m \in 1..k /\ m - 1 \in 0..(k - 1) /\ m - 1 \notin Not
    BY <1>4, <2>1
  <2>3. v[m - 1] \in S /\ <<m - 1, v[m - 1]>> \in Inv
    BY <2>2
  <2>4. v[m] = Body[v[m - 1]] /\ (m - 1) + 1 = m
    BY <1>4, <2>2
  <2>5. QED  BY <2>2, <2>3, <2>4
<1>6. QED  BY <1>3, <1>5
-----------------------------------------------------------------------------
(***************************************************************************)
(* Steps on the circle.                                                    *)
(***************************************************************************)

Ways == {Forward, Backward}

LEMMA Remainder ==
  ASSUME NEW a \in Int, NEW b \in Nat \ {0}
  PROVE  /\ a \in 0..(b - 1) => a % b = a
         /\ a \in (-b)..(-1) => a % b = a + b
         /\ a = b => a % b = 0
  OBVIOUS

\* How far it is from a cell to another, without a remainder.
LEMMA GapForm ==
  ASSUME NEW a \in Cells, NEW b \in Cells, NEW d \in Ways
  PROVE  Gap(a, b, d) = IF d * (b - a) > 0 THEN d * (b - a) ELSE d * (b - a) + Last
<1> DEFINE t == d * (b - a)
<1>1. Last \in Nat \ {0} /\ t \in (-Last + 1)..(Last - 1)
  BY LastAssumption DEF Cells, Ways, Forward, Backward
<1>2. Gap(a, b, d) = IF t % Last = 0 THEN Last ELSE t % Last
  BY DEF Gap
<1> HIDE DEF t
<1>3. CASE t > 0
  <2>1. t \in 0..(Last - 1)
    BY <1>1, <1>3
  <2>2. t % Last = t
    BY <1>1, <2>1, Remainder
  <2>3. QED  BY <1>1, <1>2, <1>3, <2>2 DEF t
<1>4. CASE t = 0
  <2>1. t % Last = 0
    BY <1>1, <1>4, Remainder
  <2>2. QED  BY <1>1, <1>2, <1>4, <2>1 DEF t
<1>5. CASE t < 0
  <2>1. t \in (-Last)..(-1)
    BY <1>1, <1>5
  <2>2. t % Last = t + Last
    BY <1>1, <2>1, Remainder
  <2>3. QED  BY <1>1, <1>2, <1>5, <2>2 DEF t
<1>6. QED  BY <1>1, <1>3, <1>4, <1>5

\* A step ends on the cell beside, or on the other end of the board.
LEMMA OneStep ==
  ASSUME NEW c \in Cells, NEW d \in Ways
  PROVE  /\ Walk(c, 1, d) \in Cells
         /\ Walk(c, 1, d) = IF c + d = Last + 1 THEN 1
                            ELSE IF c + d = 0 THEN Last
                            ELSE c + d
<1> DEFINE t == c - 1 + d * 1
<1>1. Last \in Nat \ {0} /\ t \in (-1)..Last /\ t = c - 1 + d
  BY LastAssumption DEF Cells, Ways, Forward, Backward
<1>2. Walk(c, 1, d) = (t % Last) + 1
  BY DEF Walk
<1> HIDE DEF t
<1>3. CASE t = -1
  <2>1. t \in (-Last)..(-1)
    BY <1>1, <1>3
  <2>2. t % Last = t + Last
    BY <1>1, <2>1, Remainder
  <2>3. QED  BY <1>1, <1>2, <1>3, <2>2, LastAssumption DEF Cells, Ways, Forward, Backward
<1>4. CASE t = Last
  <2>1. t % Last = 0
    BY <1>1, <1>4, Remainder
  <2>2. QED  BY <1>1, <1>2, <1>4, <2>1, LastAssumption DEF Cells, Ways, Forward, Backward
<1>5. CASE t \in 0..(Last - 1)
  <2>1. t % Last = t
    BY <1>1, <1>5, Remainder
  <2>2. QED  BY <1>1, <1>2, <1>5, <2>1, LastAssumption DEF Cells, Ways, Forward, Backward
<1>6. QED  BY <1>1, <1>3, <1>4, <1>5

\* The distances from a cell number the cells, 1 to Last, the cell itself last.
LEMMA GapNumbers ==
  ASSUME NEW a \in Cells, NEW b \in Cells, NEW d \in Ways
  PROVE  /\ Gap(a, b, d) \in 1..Last
         /\ Gap(a, b, d) = Last <=> a = b
         /\ \A c \in Cells : Gap(a, b, d) = Gap(a, c, d) => b = c
<1>1. Last \in Nat /\ Cells = 1..Last /\ d \in {1, -1}
  BY LastAssumption DEF Cells, Ways, Forward, Backward
<1>2. \A c \in Cells :
        Gap(a, c, d) = IF d * (c - a) > 0 THEN d * (c - a) ELSE d * (c - a) + Last
  BY GapForm
<1>3. CASE d = 1
  BY <1>1, <1>2, <1>3
<1>4. CASE d = -1
  BY <1>1, <1>2, <1>4
<1>5. QED  BY <1>1, <1>3, <1>4

\* Distances add up, to within a full turn.
LEMMA GapSum ==
  ASSUME NEW a \in Cells, NEW b \in Cells, NEW c \in Cells, NEW d \in Ways
  PROVE  Gap(a, c, d) = IF Gap(a, b, d) + Gap(b, c, d) > Last
                        THEN Gap(a, b, d) + Gap(b, c, d) - Last
                        ELSE Gap(a, b, d) + Gap(b, c, d)
<1>1. Last \in Nat /\ Cells = 1..Last /\ d \in {1, -1}
  BY LastAssumption DEF Cells, Ways, Forward, Backward
<1>2. /\ Gap(a, b, d) = IF d * (b - a) > 0 THEN d * (b - a) ELSE d * (b - a) + Last
      /\ Gap(b, c, d) = IF d * (c - b) > 0 THEN d * (c - b) ELSE d * (c - b) + Last
      /\ Gap(a, c, d) = IF d * (c - a) > 0 THEN d * (c - a) ELSE d * (c - a) + Last
  BY GapForm
<1>3. CASE d = 1
  BY <1>1, <1>2, <1>3
<1>4. CASE d = -1
  BY <1>1, <1>2, <1>4
<1>5. QED  BY <1>1, <1>3, <1>4

\* The next cell is one step away, and the distance from elsewhere grows by one.
LEMMA GapOnward ==
  ASSUME NEW a \in Cells, NEW b \in Cells, NEW d \in Ways
  PROVE  /\ Walk(b, 1, d) \in Cells
         /\ Gap(b, Walk(b, 1, d), d) = 1
         /\ Gap(a, b, d) < Last => Gap(a, Walk(b, 1, d), d) = Gap(a, b, d) + 1
<1> DEFINE w == Walk(b, 1, d)
<1>1. w \in Cells
  BY OneStep
<1>2. Gap(b, w, d) = 1
  <2>1. w = IF b + d = Last + 1 THEN 1 ELSE IF b + d = 0 THEN Last ELSE b + d
    BY OneStep
  <2>2. Gap(b, w, d) = IF d * (w - b) > 0 THEN d * (w - b) ELSE d * (w - b) + Last
    BY <1>1, GapForm
  <2> HIDE DEF w
  <2>3. QED  BY <2>1, <2>2, LastAssumption DEF Cells, Ways, Forward, Backward
<1> HIDE DEF w
<1>3. Gap(a, b, d) < Last => Gap(a, w, d) = Gap(a, b, d) + 1
  <2>1. Gap(a, b, d) \in 1..Last
    BY GapNumbers
  <2>2. Gap(a, w, d) = IF Gap(a, b, d) + 1 > Last
                       THEN Gap(a, b, d) + 1 - Last
                       ELSE Gap(a, b, d) + 1
    BY <1>1, <1>2, GapSum
  <2>3. QED  BY <2>1, <2>2, LastAssumption
<1>4. QED  BY <1>1, <1>2, <1>3 DEF w
-----------------------------------------------------------------------------
(***************************************************************************)
(* The ranking.                                                            *)
(***************************************************************************)

\* The free cells a walk meets up to a cell.
Met(gone, from, to, d) == {c \in Cells \ gone : Gap(from, c, d) <= Gap(from, to, d)}

LEMMA CellsAreFinite ==
  ASSUME NEW T, T \subseteq Cells
  PROVE  IsFiniteSet(T) /\ Cardinality(T) \in Nat
<1>1. IsFiniteSet(Cells)
  BY FS_Interval, LastAssumption DEF Cells
<1>2. IsFiniteSet(T)
  BY <1>1, FS_Subset
<1>3. QED  BY <1>2, FS_CardinalityType

\* The rank of a free cell is a number from 1 to the number of free cells.
LEMMA RankBounds ==
  ASSUME NEW gone, NEW a \in Cells, NEW b \in Cells \ gone, NEW d \in Ways
  PROVE  /\ Rank(gone, a, b, d) \in 1..Cardinality(Cells \ gone)
         /\ Cardinality(Cells \ gone) \in Nat
<1> DEFINE M == Met(gone, a, b, d)
           F == Cells \ gone
<1>1. M \subseteq F /\ b \in M /\ F \subseteq Cells /\ M \subseteq Cells
  BY GapNumbers DEF Met
<1>2. Rank(gone, a, b, d) = Cardinality(M)
  BY DEF Rank, Met
<1> HIDE DEF M, F
<1>3. IsFiniteSet(F) /\ IsFiniteSet(M) /\ Cardinality(F) \in Nat /\ Cardinality(M) \in Nat
  BY <1>1, CellsAreFinite
<1>4. Cardinality(M) <= Cardinality(F)
  BY <1>1, <1>3, FS_Subset
<1>5. Cardinality(M) # 0
  BY <1>1, <1>3, FS_EmptySet
<1>6. QED  BY <1>2, <1>3, <1>4, <1>5 DEF F

\* No two free cells have the same rank.
LEMMA RankIsUnique ==
  ASSUME NEW gone, NEW a \in Cells, NEW b \in Cells \ gone, NEW c \in Cells \ gone,
         NEW d \in Ways, Rank(gone, a, b, d) = Rank(gone, a, c, d)
  PROVE  b = c
<1>1. ASSUME NEW x \in Cells \ gone, NEW y \in Cells \ gone, Gap(a, x, d) < Gap(a, y, d)
      PROVE  Rank(gone, a, x, d) < Rank(gone, a, y, d)
  <2> DEFINE X == Met(gone, a, x, d)
             Y == Met(gone, a, y, d)
  <2>1. /\ X \subseteq Y /\ y \in Y /\ y \notin X /\ Y \subseteq Cells
        /\ Rank(gone, a, x, d) = Cardinality(X) /\ Rank(gone, a, y, d) = Cardinality(Y)
    <3>1. \A z \in Cells : Gap(a, z, d) \in Int
      BY GapNumbers
    <3>2. QED  BY <1>1, <3>1 DEF Met, Rank
  <2> HIDE DEF X, Y
  <2>2. IsFiniteSet(Y) /\ Cardinality(X) \in Nat /\ Cardinality(Y) \in Nat
    BY <2>1, CellsAreFinite
  <2>3. Cardinality(X) <= Cardinality(Y) /\ (Cardinality(X) = Cardinality(Y) => X = Y)
    BY <2>1, <2>2, FS_Subset
  <2>4. QED  BY <2>1, <2>2, <2>3
<1>2. Rank(gone, a, b, d) \in Int /\ Rank(gone, a, c, d) \in Int
  <2>1. \A x \in Cells \ gone : /\ Rank(gone, a, x, d) \in 1..Cardinality(Cells \ gone)
                                /\ Cardinality(Cells \ gone) \in Nat
    BY RankBounds
  <2>2. QED  BY <2>1
<1>3. Gap(a, b, d) = Gap(a, c, d)
  <2>1. Gap(a, b, d) \in Int /\ Gap(a, c, d) \in Int
    BY GapNumbers
  <2>2. ~(Gap(a, b, d) < Gap(a, c, d)) /\ ~(Gap(a, c, d) < Gap(a, b, d))
    BY <1>1, <1>2
  <2>3. QED  BY <2>1, <2>2
<1>4. QED  BY <1>3, GapNumbers

\* The first free cell met has rank 1.
LEMMA FirstRank ==
  ASSUME NEW gone, NEW a \in Cells, NEW b \in Cells \ gone, NEW d \in Ways,
         \A c \in Cells \ gone : Gap(a, b, d) <= Gap(a, c, d)
  PROVE  Rank(gone, a, b, d) = 1
<1>1. Met(gone, a, b, d) = {b}
  <2>1. ASSUME NEW c \in Met(gone, a, b, d)
        PROVE  c = b
    <3>1. c \in Cells \ gone /\ Gap(a, c, d) <= Gap(a, b, d)
      BY <2>1 DEF Met
    <3>2. Gap(a, b, d) <= Gap(a, c, d) /\ Gap(a, b, d) \in Int /\ Gap(a, c, d) \in Int
      BY <3>1, GapNumbers
    <3>3. QED  BY <3>1, <3>2, GapNumbers
  <2>2. b \in Met(gone, a, b, d)
    BY GapNumbers DEF Met
  <2>3. QED  BY <2>1, <2>2
<1>2. QED  BY <1>1, FS_Singleton DEF Rank, Met

\* The free cell that follows one on the walk has the next rank, or the first
\* one if the rank before was the last.
LEMMA NextRank ==
  ASSUME NEW gone, NEW a \in Cells, NEW b \in Cells \ gone, NEW c \in Cells \ gone,
         NEW d \in Ways, \A e \in Cells \ gone : Gap(b, c, d) <= Gap(b, e, d)
  PROVE  \/ /\ Gap(a, c, d) = Gap(a, b, d) + Gap(b, c, d)
            /\ Rank(gone, a, c, d) = Rank(gone, a, b, d) + 1
         \/ /\ Gap(a, c, d) = Gap(a, b, d) + Gap(b, c, d) - Last
            /\ Rank(gone, a, b, d) = Cardinality(Cells \ gone)
            /\ Rank(gone, a, c, d) = 1
<1> DEFINE G(x) == Gap(a, x, d)
           H(x) == Gap(b, x, d)
<1>1. \A x \in Cells : /\ G(x) \in 1..Last /\ H(x) \in 1..Last
                       /\ G(x) = IF G(b) + H(x) > Last THEN G(b) + H(x) - Last ELSE G(b) + H(x)
  BY GapNumbers, GapSum
<1>2. \A x, y \in Cells : G(x) = G(y) => x = y
  BY GapNumbers
<1>3. \A e \in Cells \ gone : H(c) <= H(e)
  OBVIOUS
<1>4. /\ Rank(gone, a, b, d) = Cardinality(Met(gone, a, b, d))
      /\ Rank(gone, a, c, d) = Cardinality(Met(gone, a, c, d))
      /\ Met(gone, a, b, d) = {x \in Cells \ gone : G(x) <= G(b)}
      /\ Met(gone, a, c, d) = {x \in Cells \ gone : G(x) <= G(c)}
  BY DEF Rank, Met
<1>5. CASE G(b) + H(c) <= Last
  <2>1. G(c) = G(b) + H(c)
    BY <1>1, <1>5, LastAssumption
  <2>2. Met(gone, a, c, d) = Met(gone, a, b, d) \cup {c} /\ c \notin Met(gone, a, b, d)
    <3>1. ASSUME NEW x \in Cells \ gone, G(x) <= G(c), ~(G(x) <= G(b))
          PROVE  x = c
      <4>1. G(x) = G(b) + H(x)
        BY <1>1, <3>1, LastAssumption
      <4>2. G(x) = G(c)
        BY <1>1, <1>3, <2>1, <3>1, <4>1, LastAssumption
      <4>3. QED  BY <1>2, <4>2
    <3>2. \A x \in Cells : G(x) <= G(b) => G(x) <= G(c)
      BY <1>1, <2>1, LastAssumption
    <3>3. ~(G(c) <= G(b)) /\ G(c) <= G(c)
      BY <1>1, <2>1, LastAssumption
    <3> HIDE DEF G, H
    <3>4. QED  BY <1>4, <3>1, <3>2, <3>3
  <2>3. IsFiniteSet(Met(gone, a, b, d))
    BY CellsAreFinite DEF Met
  <2>4. Rank(gone, a, c, d) = Rank(gone, a, b, d) + 1
    BY <1>4, <2>2, <2>3, FS_AddElement
  <2>5. QED  BY <2>1, <2>4
<1>6. CASE G(b) + H(c) > Last
  <2>1. G(c) = G(b) + H(c) - Last /\ G(c) <= G(b)
    BY <1>1, <1>6, LastAssumption
  <2>2. Met(gone, a, b, d) = Cells \ gone
    <3>1. ASSUME NEW x \in Cells \ gone
          PROVE  G(x) <= G(b)
      BY <1>1, <1>3, <1>6, LastAssumption
    <3> HIDE DEF G, H
    <3>2. QED  BY <1>4, <3>1
  <2>3. \A x \in Cells \ gone : G(c) <= G(x)
    BY <1>1, <1>3, <1>6, <2>1, LastAssumption
  <2>4. Rank(gone, a, c, d) = 1
    BY <2>3, FirstRank
  <2>5. QED  BY <1>4, <2>1, <2>2, <2>4
<1>7. QED  BY <1>1, <1>5, <1>6, LastAssumption
-----------------------------------------------------------------------------
(***************************************************************************)
(* The rounds of the walk.                                                 *)
(***************************************************************************)

\* Where the inner loop stands when it has skipped j cells: everything nearer to
\* where it started is consumed, and it goes on only from a consumed cell.
Searching(gone, c, d) ==
  {p \in (0..(Last - 1)) \X Cursors :
     LET e == p[2] IN
       /\ \A x \in Cells : Gap(c.at, x, d) < Gap(c.at, e.at, d) => x \in gone
       /\ e.at \in gone => Gap(c.at, e.at, d) = p[1] + 1
       /\ e.passes = c.passes + IF Gap(c.at, Start, d) <= Gap(c.at, e.at, d) THEN 1 ELSE 0
       /\ ~e.over}

\* The fields of a cursor one step on.
LEMMA OnwardFields ==
  ASSUME NEW c \in Cursors, NEW d \in Ways
  PROVE  /\ Onward(c, d) \in Cursors
         /\ Onward(c, d).at = Walk(c.at, 1, d)
         /\ Onward(c, d).passes = c.passes + IF Walk(c.at, 1, d) = Start THEN 1 ELSE 0
         /\ Onward(c, d).over = FALSE
<1>1. Walk(c.at, 1, d) \in Cells
  BY GapOnward DEF Cursors
<1>2. QED  BY <1>1 DEF Onward, Cursors

\* A step of the search keeps what it has found.
LEMMA SearchStep ==
  ASSUME NEW gone, NEW c \in Cursors, NEW d \in Ways,
         NEW j \in 0..(Last - 2), NEW e \in Cursors, <<j, e>> \in Searching(gone, c, d)
  PROVE  <<j + 1, Skip(gone, d)[e]>> \in Searching(gone, c, d)
<1> DEFINE a == c.at
           G(x) == Gap(a, x, d)
           w == Walk(e.at, 1, d)
<1>1. /\ \A x \in Cells : G(x) < G(e.at) => x \in gone
      /\ e.at \in gone => G(e.at) = j + 1
      /\ e.passes = c.passes + IF G(Start) <= G(e.at) THEN 1 ELSE 0
      /\ ~e.over
  BY DEF Searching
<1>2. /\ a \in Cells /\ e.at \in Cells /\ c.passes \in Nat /\ e.passes \in Nat
      /\ Last \in Nat /\ Last >= 2 /\ Start \in Cells
  BY LastAssumption DEF Cursors, Cells, Start
<1>3. Skip(gone, d)[e] = IF e.at \in gone THEN Onward(e, d) ELSE e
  BY DEF Skip
<1>4. j + 1 \in 0..(Last - 1)
  BY <1>2
<1>5. CASE e.at \notin gone
  BY <1>1, <1>3, <1>4, <1>5 DEF Searching
<1>6. CASE e.at \in gone
  <2>1. w \in Cells /\ G(w) = G(e.at) + 1 /\ G(e.at) = j + 1
    <3>1. G(e.at) = j + 1 /\ G(e.at) < Last
      BY <1>1, <1>2, <1>6
    <3>2. QED  BY <1>2, <3>1, GapOnward
  <2>2. \A x \in Cells : G(x) \in 1..Last /\ (G(x) = G(e.at) => x = e.at)
                         /\ (G(x) = G(w) => x = w)
    BY <1>2, <2>1, GapNumbers
  <2>3. /\ Onward(e, d) \in Cursors
        /\ Onward(e, d).at = w
        /\ Onward(e, d).passes = e.passes + IF w = Start THEN 1 ELSE 0
        /\ Onward(e, d).over = FALSE
    BY OnwardFields
  <2> HIDE DEF G, w
  <2>4. \A x \in Cells : G(x) < G(w) => x \in gone
    <3>1. \A x \in Cells : G(x) < G(w) => G(x) < G(e.at) \/ x = e.at
      BY <1>2, <2>1, <2>2
    <3>2. QED  BY <1>1, <1>6, <3>1
  <2>5. e.passes + (IF w = Start THEN 1 ELSE 0)
          = c.passes + IF G(Start) <= G(w) THEN 1 ELSE 0
    <3>1. G(Start) <= G(w) <=> G(Start) <= G(e.at) \/ w = Start
      BY <1>2, <2>1, <2>2
    <3>2. w = Start => ~(G(Start) <= G(e.at))
      BY <1>2, <2>1, <2>2
    <3>3. QED  BY <1>1, <1>2, <3>1, <3>2
  <2>6. G(w) = (j + 1) + 1
    BY <2>1
  <2>7. <<j + 1, Onward(e, d)>> \in Searching(gone, c, d)
    BY <1>4, <2>3, <2>4, <2>5, <2>6 DEF Searching, G
  <2>8. QED  BY <1>3, <1>6, <2>7
<1>7. QED  BY <1>5, <1>6

\* The inner loop finds the nearest free cell, and counts whether START is on
\* the way to it; if it ends on a consumed cell, every cell is consumed.
LEMMA NextFreeIsNearest ==
  ASSUME NEW gone, NEW c \in Cursors, NEW d \in Ways
  PROVE  LET e == NextFree(c, gone, d) IN
           /\ e \in Cursors
           /\ ~e.over
           /\ \A x \in Cells \ gone : Gap(c.at, e.at, d) <= Gap(c.at, x, d)
           /\ e.at \in gone => Cells \subseteq gone
           /\ e.passes = c.passes + IF Gap(c.at, Start, d) <= Gap(c.at, e.at, d) THEN 1 ELSE 0
<1> DEFINE e == NextFree(c, gone, d)
           o == Onward(c, d)
           Inv == Searching(gone, c, d)
<1>1. /\ c.at \in Cells /\ c.passes \in Nat /\ Start \in Cells
      /\ Last \in Nat /\ Last >= 2 /\ Last - 1 \in Nat
  BY LastAssumption DEF Cursors, Cells, Start
<1>2. o \in Cursors /\ o.at = Walk(c.at, 1, d) /\ o.over = FALSE
      /\ o.passes = c.passes + IF Walk(c.at, 1, d) = Start THEN 1 ELSE 0
  BY OnwardFields
<1>3. Skip(gone, d) \in [Cursors -> Cursors]
  BY OnwardFields DEF Skip
<1>4. \A x \in Cells : Gap(c.at, x, d) \in 1..Last
  BY <1>1, GapNumbers
<1>5. <<0, o>> \in Inv
  <2>1. Gap(c.at, o.at, d) = 1 /\ o.at \in Cells
    BY <1>1, <1>2, GapOnward
  <2>2. Gap(c.at, Start, d) <= 1 <=> o.at = Start
    BY <1>1, <1>4, <2>1, GapNumbers
  <2>3. \A x \in Cells : ~(Gap(c.at, x, d) < 1)
    BY <1>1, <1>4
  <2>4. o.passes = c.passes + IF Gap(c.at, Start, d) <= Gap(c.at, o.at, d) THEN 1 ELSE 0
    BY <1>2, <2>1, <2>2
  <2> HIDE DEF o
  <2>5. QED  BY <1>1, <1>2, <2>1, <2>3, <2>4 DEF Searching
<1>6. \A j \in 0..((Last - 1) - 1), s \in Cursors : <<j, s>> \in Inv => <<j + 1, Skip(gone, d)[s]>> \in Inv
  <2>1. \A j \in 0..((Last - 1) - 1) : j \in 0..(Last - 2)
    BY <1>1
  <2>2. QED  BY <2>1, SearchStep
<1>7. e = Rounds(Skip(gone, d), o, Last - 1)
  BY DEF NextFree
<1> HIDE DEF Inv, o
<1>8. e \in Cursors /\ <<Last - 1, e>> \in Inv
  <2> DEFINE B == Skip(gone, d)
             k == Last - 1
             r == Rounds(B, o, k)
  <2>1. B \in [Cursors -> Cursors] /\ k \in Nat /\ o \in Cursors /\ <<0, o>> \in Inv
        /\ \A j \in 0..(k - 1), s \in Cursors : <<j, s>> \in Inv => <<j + 1, B[s]>> \in Inv
    BY <1>1, <1>2, <1>3, <1>5, <1>6
  <2>2. e = r
    BY <1>7
  <2> HIDE DEF B, r, e
  <2>3. r \in Cursors /\ <<k, r>> \in Inv
    <3> HIDE DEF k
    <3>1. QED  BY <2>1, LoopRule DEF r
  <2>4. QED  BY <2>2, <2>3
<1> HIDE DEF e
<1>9. /\ \A x \in Cells : Gap(c.at, x, d) < Gap(c.at, e.at, d) => x \in gone
      /\ e.at \in gone => Gap(c.at, e.at, d) = (Last - 1) + 1
      /\ e.passes = c.passes + IF Gap(c.at, Start, d) <= Gap(c.at, e.at, d) THEN 1 ELSE 0
      /\ ~e.over
  BY <1>8 DEF Inv, Searching
<1>10. e.at \in Cells
  BY <1>8 DEF Cursors
<1>11. \A x \in Cells \ gone : Gap(c.at, e.at, d) <= Gap(c.at, x, d)
  BY <1>4, <1>9, <1>10, <1>1
<1>12. e.at \in gone => Cells \subseteq gone
  <2> SUFFICES ASSUME e.at \in gone, NEW x \in Cells
               PROVE  x \in gone
    OBVIOUS
  <2>1. Gap(c.at, e.at, d) = Last
    BY <1>1, <1>9
  <2>2. CASE x = e.at
    BY <2>2
  <2>3. CASE x # e.at
    <3>1. Gap(c.at, x, d) # Gap(c.at, e.at, d)
      BY <1>1, <1>10, <2>3, GapNumbers
    <3>2. QED  BY <1>1, <1>4, <1>9, <2>1, <3>1
  <2>4. QED  BY <2>2, <2>3
<1>13. QED  BY <1>8, <1>9, <1>11, <1>12 DEF e
\* Where the outer loop stands after k rounds.  Going on, it has met the free
\* cells `laps' times over and then up to where it is, the final cell never;
\* over, it is at the final cell or found no free cell.
Walked(gone, from, d) ==
  {p \in Nat \X Cursors :
     LET e == p[2]
         F == Cardinality(Cells \ gone)
         R(x) == Rank(gone, from, x, d)
         crossed == IF Gap(from, Start, d) <= Gap(from, e.at, d) THEN 1 ELSE 0
     IN  \/ p[1] = 0 /\ e.at = from /\ e.passes = 0 /\ ~e.over
         \/ /\ p[1] > 0 /\ ~e.over /\ e.at \notin gone
            /\ \E laps \in Nat : p[1] = laps * F + R(e.at) /\ e.passes = laps + crossed
            /\ \A f \in FinalCell(gone) : p[1] < R(f)
         \/ p[1] > 0 /\ e.over /\ e.at \in FinalCell(gone) /\ R(e.at) <= p[1] /\ e.passes = crossed
         \/ p[1] > 0 /\ e.over /\ Cells \subseteq gone /\ e.at \in gone}

\* A round of the outer loop keeps this.
LEMMA HopStep ==
  ASSUME NEW gone, NEW from \in Cells, NEW d \in Ways,
         NEW k \in Nat, NEW c \in Cursors, <<k, c>> \in Walked(gone, from, d)
  PROVE  /\ Hop(gone, d)[c] \in Cursors
         /\ <<k + 1, Hop(gone, d)[c]>> \in Walked(gone, from, d)
<1> DEFINE e == NextFree(c, gone, d)
           o == e.at \in gone \cup FinalCell(gone)
           h == [e EXCEPT !.over = o]
           F == Cardinality(Cells \ gone)
           R(x) == Rank(gone, from, x, d)
           G(x) == Gap(from, x, d)
           crossed(x) == IF G(Start) <= G(x) THEN 1 ELSE 0
<1>1. /\ e \in Cursors /\ ~e.over
      /\ \A x \in Cells \ gone : Gap(c.at, e.at, d) <= Gap(c.at, x, d)
      /\ e.at \in gone => Cells \subseteq gone
      /\ e.passes = c.passes + IF Gap(c.at, Start, d) <= Gap(c.at, e.at, d) THEN 1 ELSE 0
  BY NextFreeIsNearest
<1>2. Hop(gone, d)[c] = IF c.over THEN c ELSE h
  BY DEF Hop
<1>3. /\ c.at \in Cells /\ c.passes \in Nat /\ c.over \in BOOLEAN
      /\ e.at \in Cells /\ e.passes \in Nat /\ Start \in Cells
      /\ Last \in Nat /\ Last >= 2
  BY <1>1, LastAssumption DEF Cursors, Cells, Start
<1> HIDE DEF e
<1>4. /\ h \in Cursors /\ h.at = e.at /\ h.passes = e.passes
      /\ h.over <=> e.at \in gone \cup FinalCell(gone)
  <2>1. o \in BOOLEAN
    OBVIOUS
  <2> HIDE DEF o
  <2>2. h \in Cursors /\ h.at = e.at /\ h.passes = e.passes /\ h.over = o
    BY <1>1, <2>1 DEF Cursors
  <2> HIDE DEF h
  <2>3. QED  BY <2>2 DEF o
<1> HIDE DEF h
<1>5. FinalCell(gone) \subseteq Cells \ gone
  BY DEF FinalCell, CompletionCells
<1>6. \A x \in Cells \ gone : R(x) \in 1..F
  BY RankBounds
<1>7. F \in Nat
  BY CellsAreFinite
<1> HIDE DEF R, F
<1>8. \/ k = 0 /\ c.at = from /\ c.passes = 0 /\ ~c.over
      \/ /\ k > 0 /\ ~c.over /\ c.at \notin gone
         /\ \E laps \in Nat : k = laps * F + R(c.at) /\ c.passes = laps + crossed(c.at)
         /\ \A f \in FinalCell(gone) : k < R(f)
      \/ k > 0 /\ c.over /\ c.at \in FinalCell(gone) /\ R(c.at) <= k /\ c.passes = crossed(c.at)
      \/ k > 0 /\ c.over /\ Cells \subseteq gone /\ c.at \in gone
  BY DEF Walked, R, F
<1>9. CASE c.over
  <2>1. Hop(gone, d)[c] = c
    BY <1>2, <1>9
  <2>2. \/ c.at \in FinalCell(gone) /\ R(c.at) <= k + 1 /\ c.passes = crossed(c.at)
        \/ Cells \subseteq gone /\ c.at \in gone
    BY <1>5, <1>6, <1>7, <1>8, <1>9
  <2>3. k + 1 > 0 /\ k + 1 \in Nat
    OBVIOUS
  <2>4. <<k + 1, c>> \in Walked(gone, from, d)
    BY <1>9, <2>2, <2>3 DEF Walked, R, F
  <2>5. QED  BY <2>1, <2>4
<1>10. CASE ~c.over /\ e.at \in gone
  <2>1. h.over /\ h.at \in gone /\ Cells \subseteq gone /\ k + 1 \in Nat /\ k + 1 > 0
    BY <1>1, <1>4, <1>10
  <2>2. <<k + 1, h>> \in Walked(gone, from, d)
    BY <1>4, <2>1 DEF Walked
  <2>3. QED  BY <1>2, <1>4, <1>10, <2>2
<1>11. CASE ~c.over /\ e.at \notin gone
  <2>1. e.at \in Cells \ gone
    BY <1>3, <1>11
  <2>2. \E laps \in Nat : k + 1 = laps * F + R(e.at) /\ e.passes = laps + crossed(e.at)
    <3>1. CASE k = 0
      <4>1. c.at = from /\ c.passes = 0
        BY <1>8, <3>1
      <4>2. R(e.at) = 1
        BY <1>1, <2>1, <4>1, FirstRank DEF R
      <4>3. k + 1 = 0 * F + R(e.at) /\ e.passes = 0 + crossed(e.at)
        BY <1>1, <1>7, <3>1, <4>1, <4>2
      <4> HIDE DEF crossed
      <4>4. QED  BY <4>3
    <3>2. CASE k > 0
      <4>1. PICK laps \in Nat : k = laps * F + R(c.at) /\ c.passes = laps + crossed(c.at)
        BY <1>8, <1>11, <3>2
      <4>2. c.at \in Cells \ gone
        BY <1>3, <1>8, <1>11, <3>2
      <4>3. \/ G(e.at) = G(c.at) + Gap(c.at, e.at, d) /\ R(e.at) = R(c.at) + 1
            \/ /\ G(e.at) = G(c.at) + Gap(c.at, e.at, d) - Last
               /\ R(c.at) = F /\ R(e.at) = 1
        <5>1. \A x \in Cells \ gone : Gap(c.at, e.at, d) <= Gap(c.at, x, d)
          BY <1>1
        <5>2. QED  BY <2>1, <4>2, <5>1, NextRank, SMTT(30) DEF R, F
      <4>4. /\ G(Start) \in 1..Last /\ G(c.at) \in 1..Last /\ G(e.at) \in 1..Last
            /\ Gap(c.at, Start, d) \in 1..Last /\ Gap(c.at, e.at, d) \in 1..Last
            /\ G(Start) = IF G(c.at) + Gap(c.at, Start, d) > Last
                          THEN G(c.at) + Gap(c.at, Start, d) - Last
                          ELSE G(c.at) + Gap(c.at, Start, d)
        BY <1>3, GapNumbers, GapSum
      <4>5. /\ R(c.at) \in Nat /\ R(e.at) \in Nat
        BY <1>6, <1>7, <2>1, <4>2
      <4> HIDE DEF G
      <4>6. CASE G(e.at) = G(c.at) + Gap(c.at, e.at, d) /\ R(e.at) = R(c.at) + 1
        <5>1. crossed(e.at) = crossed(c.at) + IF Gap(c.at, Start, d) <= Gap(c.at, e.at, d) THEN 1 ELSE 0
          BY <1>3, <4>4, <4>6
        <5>2. e.passes = laps + crossed(e.at)
          BY <1>1, <1>3, <4>1, <5>1
        <5>3. k + 1 = laps * F + R(e.at)
          <6> DEFINE m == laps * F
          <6>1. m \in Nat
            BY <1>7
          <6> HIDE DEF m
          <6>2. k = m + R(c.at)
            BY <4>1 DEF m
          <6>3. k + 1 = m + R(e.at)
            BY <4>5, <4>6, <6>1, <6>2
          <6>4. QED  BY <6>3 DEF m
        <5>4. QED  BY <5>2, <5>3
      <4>7. CASE /\ G(e.at) = G(c.at) + Gap(c.at, e.at, d) - Last
                 /\ R(c.at) = F /\ R(e.at) = 1
        <5>1. 1 + crossed(e.at) = crossed(c.at) + IF Gap(c.at, Start, d) <= Gap(c.at, e.at, d) THEN 1 ELSE 0
          BY <1>3, <4>4, <4>7
        <5>2. e.passes = (laps + 1) + crossed(e.at)
          BY <1>1, <1>3, <4>1, <5>1
        <5>3. k + 1 = (laps + 1) * F + R(e.at)
          <6>1. (laps + 1) * F = laps * F + F
            BY <1>7
          <6>2. QED  BY <1>7, <4>1, <4>7, <6>1
        <5>4. laps + 1 \in Nat
          OBVIOUS
        <5> HIDE DEF crossed
        <5>5. QED  BY <5>2, <5>3, <5>4
      <4>8. QED  BY <4>3, <4>6, <4>7
    <3>3. QED  BY <3>1, <3>2
  <2>3. \A f \in FinalCell(gone) : k < R(f)
    BY <1>5, <1>6, <1>7, <1>8, <1>11
  <2>4. PICK laps \in Nat : k + 1 = laps * F + R(e.at) /\ e.passes = laps + crossed(e.at)
    BY <2>2
  <2>5. R(e.at) <= k + 1
    <3> DEFINE m == laps * F
    <3>1. m \in Nat
      BY <1>7
    <3>2. R(e.at) \in Nat
      BY <1>6, <1>7, <2>1
    <3> HIDE DEF m
    <3>3. k + 1 = m + R(e.at)
      BY <2>4 DEF m
    <3>4. QED  BY <3>1, <3>2, <3>3
  <2>6. k + 1 \in Nat /\ k + 1 > 0
    OBVIOUS
  <2>7. CASE e.at \in FinalCell(gone)
    <3>1. k + 1 = R(e.at) /\ R(e.at) <= F
      BY <1>6, <1>7, <2>1, <2>3, <2>5, <2>7
    <3>2. laps = 0
      <4>1. laps * F = 0 /\ F > 0
        BY <1>6, <1>7, <2>1, <2>4, <3>1
      <4>2. laps >= 1 => laps * F >= F
        BY <1>7
      <4>3. QED  BY <1>7, <4>1, <4>2
    <3>3. e.passes = crossed(e.at)
      BY <2>4, <3>2
    <3>4. <<k + 1, h>> \in Walked(gone, from, d)
      BY <1>4, <2>5, <2>6, <2>7, <3>3 DEF Walked, R
    <3>5. QED  BY <1>2, <1>4, <1>11, <3>4
  <2>8. CASE e.at \notin FinalCell(gone)
    <3>1. \A f \in FinalCell(gone) : k + 1 < R(f)
      <4> SUFFICES ASSUME NEW f \in FinalCell(gone)
                   PROVE  k + 1 < R(f)
        OBVIOUS
      <4>1. f \in Cells \ gone /\ R(f) \in Nat /\ R(f) <= F /\ k < R(f)
        BY <1>5, <1>6, <1>7, <2>3
      <4>2. CASE laps = 0
        <5>1. R(e.at) = k + 1
          BY <1>6, <1>7, <2>1, <2>4, <4>2
        <5>2. R(e.at) # R(f)
          BY <2>1, <2>8, <4>1, RankIsUnique DEF R
        <5>3. QED  BY <4>1, <5>1, <5>2
      <4>3. CASE laps # 0
        <5>1. laps * F >= F
          BY <1>7, <4>3
        <5>2. k + 1 >= F + 1
          BY <1>6, <1>7, <2>1, <2>4, <5>1
        <5>3. QED  BY <1>7, <4>1, <5>2
      <4>4. QED  BY <4>2, <4>3
    <3>2. ~h.over /\ h.at \notin gone
      BY <1>4, <1>11, <2>8
    <3>3. <<k + 1, h>> \in Walked(gone, from, d)
      BY <1>4, <2>4, <2>6, <3>1, <3>2 DEF Walked, R, F
    <3>4. QED  BY <1>2, <1>4, <1>11, <3>3
  <2>9. QED  BY <2>7, <2>8
<1>12. QED  BY <1>3, <1>9, <1>10, <1>11
\* n = q * m + r with r from 1 to m.
LEMMA Laps ==
  ASSUME NEW m \in Nat \ {0}, NEW q \in Nat, NEW r \in 1..m, NEW n \in Nat, n = q * m + r
  PROVE  (n - 1) \div m = q /\ ((n - 1) % m) + 1 = r
<1> DEFINE p == q * m
           a == n - 1
<1>1. p \in Nat /\ a \in Nat /\ a = p + (r - 1)
  OBVIOUS
<1>2. a \div m = q
  OBVIOUS
<1>3. a % m = r - 1
  OBVIOUS
<1>4. QED  BY <1>2, <1>3

\* Where the walk stands when it ends.
LEMMA WalkEnds ==
  ASSUME NEW gone, NEW from \in Cells, NEW n \in Nat \ {0}, NEW d \in Ways
  PROVE  LET end == LoopMove(gone, from, n, d) IN
           end \in Cursors /\ <<n, end>> \in Walked(gone, from, d)
<1> DEFINE begin == [at |-> from, passes |-> 0, over |-> FALSE]
           end == LoopMove(gone, from, n, d)
           Inv == Walked(gone, from, d)
<1>1. begin \in Cursors /\ <<0, begin>> \in Inv
  BY DEF Cursors, Walked
<1>2. \A c \in Cursors : Hop(gone, d)[c] \in Cursors
  <2>1. ASSUME NEW c \in Cursors
        PROVE  Hop(gone, d)[c] \in Cursors
    <3> DEFINE e == NextFree(c, gone, d)
               o == e.at \in gone \cup FinalCell(gone)
    <3>1. e \in Cursors
      BY NextFreeIsNearest
    <3>2. o \in BOOLEAN
      OBVIOUS
    <3>3. Hop(gone, d)[c] = IF c.over THEN c ELSE [e EXCEPT !.over = o]
      BY DEF Hop
    <3> HIDE DEF e, o
    <3>4. QED  BY <3>1, <3>2, <3>3 DEF Cursors
  <2>2. QED  BY <2>1
<1>3. Hop(gone, d) \in [Cursors -> Cursors]
  <2>1. Hop(gone, d) = [c \in Cursors |-> Hop(gone, d)[c]]
    BY DEF Hop
  <2>2. QED  BY <1>2, <2>1
<1>4. \A j \in 0..(n - 1), c \in Cursors : <<j, c>> \in Inv => <<j + 1, Hop(gone, d)[c]>> \in Inv
  BY HopStep
<1> DEFINE B == Hop(gone, d)
           r == Rounds(B, begin, n)
<1>5. end = r
  BY DEF LoopMove
<1>6. /\ B \in [Cursors -> Cursors] /\ n \in Nat /\ begin \in Cursors /\ <<0, begin>> \in Inv
      /\ \A j \in 0..(n - 1), s \in Cursors : <<j, s>> \in Inv => <<j + 1, B[s]>> \in Inv
  BY <1>1, <1>3, <1>4
<1> HIDE DEF B, r, begin, Inv, end
<1>7. r \in Cursors /\ <<n, r>> \in Inv
  BY <1>6, LoopRule DEF r
<1>8. QED  BY <1>5, <1>7 DEF end, Inv

\* For every board, whatever is consumed, from every cell and in both
\* directions: the walk of compute_movement, cell by cell, ends where the
\* ranking of the free cells says, and meets START as often; and it ends, on a
\* single cell, as long as a cell is free.
THEOREM WalkEndsAtItsRank ==
  \A gone \in SUBSET Cells, from \in Cells, n \in Nat \ {0}, d \in {Forward, Backward} :
    /\ LoopAgrees(gone, from, n, d)
    /\ gone # Cells => LoopMove(gone, from, n, d).at \in Cells \ gone
<1> SUFFICES ASSUME NEW gone \in SUBSET Cells, NEW from \in Cells, NEW n \in Nat \ {0},
                    NEW d \in {Forward, Backward}
             PROVE  /\ LoopAgrees(gone, from, n, d)
                    /\ gone # Cells => LoopMove(gone, from, n, d).at \in Cells \ gone
  OBVIOUS
<1> DEFINE end == LoopMove(gone, from, n, d)
           F == Cardinality(Cells \ gone)
           R(x) == Rank(gone, from, x, d)
           crossed == IF Gap(from, Start, d) <= Gap(from, end.at, d) THEN 1 ELSE 0
<1>1. d \in Ways
  BY DEF Ways
<1>2. end \in Cursors /\ <<n, end>> \in Walked(gone, from, d)
  BY <1>1, WalkEnds
<1> HIDE DEF end
<1>3. /\ end.at \in Cells
      /\ \/ /\ end.at \notin gone
            /\ \E laps \in Nat : n = laps * F + R(end.at) /\ end.passes = laps + crossed
            /\ \A f \in FinalCell(gone) : n < R(f)
         \/ end.at \in FinalCell(gone) /\ R(end.at) <= n /\ end.passes = crossed
         \/ Cells \subseteq gone /\ end.at \in gone
  BY <1>2 DEF Walked, Cursors
<1>4. FinalCell(gone) \subseteq Cells \ gone
  BY DEF FinalCell, CompletionCells
<1>5. \A x, y \in FinalCell(gone) : x = y
  BY DEF FinalCell
<1>6. \A x \in Cells \ gone : R(x) \in 1..F
  BY <1>1, RankBounds
<1>7. F \in Nat
  BY CellsAreFinite
<1>8. \A x, y \in Cells \ gone : R(x) = R(y) => x = y
  BY <1>1, RankIsUnique
<1>9. Destinations(gone, from, n, d) =
         IF {c \in FinalCell(gone) : R(c) <= n} # {}
         THEN {c \in FinalCell(gone) : R(c) <= n}
         ELSE {c \in Cells \ gone : R(c) = ((n - 1) % F) + 1}
  BY DEF Destinations
<1>10. StartPasses(gone, from, end.at, n, d) =
         (IF FinalCell(gone) # {} THEN 0 ELSE (n - 1) \div F) + crossed
  BY DEF StartPasses
<1>11. LoopAgrees(gone, from, n, d) <=>
         IF end.at \in gone
         THEN Destinations(gone, from, n, d) = {}
         ELSE /\ Destinations(gone, from, n, d) = {end.at}
              /\ StartPasses(gone, from, end.at, n, d) = end.passes
  BY DEF LoopAgrees, end
<1> HIDE DEF R, F, crossed
<1>12. ASSUME Cells \subseteq gone, end.at \in gone
       PROVE  LoopAgrees(gone, from, n, d)
  <2>1. Destinations(gone, from, n, d) = {}
    BY <1>4, <1>9, <1>12
  <2>2. QED  BY <1>11, <1>12, <2>1
<1>13. ASSUME end.at \in FinalCell(gone), R(end.at) <= n, end.passes = crossed
       PROVE  LoopAgrees(gone, from, n, d)
  <2>1. Destinations(gone, from, n, d) = {end.at}
    BY <1>5, <1>9, <1>13
  <2>2. StartPasses(gone, from, end.at, n, d) = end.passes
    BY <1>10, <1>13 DEF crossed
  <2>3. QED  BY <1>4, <1>11, <1>13, <2>1, <2>2
<1>14. ASSUME end.at \notin gone,
              \E laps \in Nat : n = laps * F + R(end.at) /\ end.passes = laps + crossed,
              \A f \in FinalCell(gone) : n < R(f)
       PROVE  LoopAgrees(gone, from, n, d)
  <2>1. PICK laps \in Nat : n = laps * F + R(end.at) /\ end.passes = laps + crossed
    BY <1>14
  <2>2. end.at \in Cells \ gone /\ R(end.at) \in 1..F /\ F \in Nat \ {0}
    BY <1>3, <1>6, <1>7, <1>14
  <2>3. (n - 1) \div F = laps /\ ((n - 1) % F) + 1 = R(end.at)
    <3> DEFINE r == R(end.at)
    <3>1. n \in Nat /\ n = laps * F + r /\ r \in 1..F /\ F \in Nat \ {0}
      BY <2>1, <2>2
    <3> HIDE DEF r
    <3>2. (n - 1) \div F = laps /\ ((n - 1) % F) + 1 = r
      BY <3>1, Laps
    <3>3. QED  BY <3>2 DEF r
  <2>4. {c \in FinalCell(gone) : R(c) <= n} = {}
    <3>1. \A f \in FinalCell(gone) : ~(R(f) <= n)
      BY <1>4, <1>6, <1>7, <1>14
    <3>2. QED  BY <3>1
  <2>5. Destinations(gone, from, n, d) = {end.at}
    <3>1. Destinations(gone, from, n, d) = {c \in Cells \ gone : R(c) = R(end.at)}
      BY <1>9, <2>3, <2>4
    <3>2. QED  BY <1>8, <2>2, <3>1
  <2>6. FinalCell(gone) # {} => laps = 0
    <3> SUFFICES ASSUME NEW f \in FinalCell(gone), laps # 0
                 PROVE  FALSE
      OBVIOUS
    <3>1. n < R(f) /\ R(f) <= F /\ R(f) \in Nat
      BY <1>4, <1>6, <1>7, <1>14
    <3>2. laps * F >= F
      BY <1>7
    <3>3. QED  BY <1>7, <2>1, <2>2, <3>1, <3>2
  <2>7. StartPasses(gone, from, end.at, n, d) = end.passes
    BY <1>10, <2>1, <2>3, <2>6
  <2>8. QED  BY <1>11, <1>14, <2>5, <2>7
<1>15. LoopAgrees(gone, from, n, d)
  BY <1>3, <1>12, <1>13, <1>14
<1>16. gone # Cells => end.at \in Cells \ gone
  BY <1>3, <1>4
<1>17. QED  BY <1>15, <1>16 DEF end

\* So a walk ends on one cell, and one only.
COROLLARY OneDestination ==
  \A gone \in SUBSET Cells, from \in Cells, n \in Nat \ {0}, d \in {Forward, Backward} :
    gone # Cells => \E c \in Cells \ gone : Destinations(gone, from, n, d) = {c}
<1> SUFFICES ASSUME NEW gone \in SUBSET Cells, gone # Cells, NEW from \in Cells,
                    NEW n \in Nat \ {0}, NEW d \in {Forward, Backward}
             PROVE  \E c \in Cells \ gone : Destinations(gone, from, n, d) = {c}
  OBVIOUS
<1>1. /\ LoopAgrees(gone, from, n, d)
      /\ LoopMove(gone, from, n, d).at \in Cells \ gone
  BY WalkEndsAtItsRank
<1>2. QED  BY <1>1 DEF LoopAgrees

-----------------------------------------------------------------------------
(***************************************************************************)
(* What the steps of the team share.                                       *)
(***************************************************************************)

\* A walk ends on a cell of the board that is not consumed, whatever it shows
\* and whichever way it goes.
LEMMA DestinationsAreFree ==
  ASSUME NEW taken, NEW from, NEW n, NEW d
  PROVE  Destinations(taken, from, n, d) \subseteq Cells \ taken
BY DEF Destinations, FinalCell, CompletionCells

\* START is on the board, and 0 is not.
LEMMA StartIsACell == Start \in Cells /\ NoCell \notin Cells
BY LastAssumption DEF Start, Cells, NoCell

\* A landing keeps the types of what it writes.
LEMMA LandingTypes ==
  ASSUME TypeOK, NEW c \in Cells, NEW r \in 0..MaxRolls, FinalizeLanding(c, r)
  PROVE  /\ position' \in Cells
         /\ consumed' \subseteq Cells
         /\ rolls' \in 0..MaxRolls
         /\ landings' \in Nat
         /\ relanded' \subseteq Cells
BY BoardAssumption DEF FinalizeLanding, Grant, TypeOK

\* A held card is a row, not the empty place of a card never drawn.
LEMMA HeldIsARow ==
  ASSUME TypeOK, NEW c \in Held
  PROVE  c \in CellsOf("CHANCE") /\ cards[c] \in CardRows
BY DEF TypeOK, Held, NotDrawn

\* What is opened at a cell is a row of it.
LEMMA OpenedIsARow ==
  ASSUME TypeOK, NEW c \in Cells, NEW h \in OpenedAt(c)
  PROVE  access[h] \in Accesses /\ access[h].cell = c
<1>1. NoCell # c
  BY StartIsACell
<1>2. h \in Challenges /\ access[h].cell = c
  BY DEF OpenedAt
<1>3. QED
  BY <1>1, <1>2 DEF NoAccess, TypeOK

\* A card that is used stays a row.
LEMMA SpendTypes ==
  ASSUME TypeOK, NEW c \in Held, Spend(c)
  PROVE  cards' \in [CellsOf("CHANCE") -> CardRows \cup {NotDrawn}]
<1>1. [cards[c] EXCEPT !.status = "used"] \in CardRows
  BY HeldIsARow DEF CardRows
<1>2. QED
  BY <1>1 DEF Spend, TypeOK

\* A team spawns well typed.
LEMMA InitType == Init => TypeOK
<1>1. Init => cards \in [CellsOf("CHANCE") -> CardRows \cup {NotDrawn}]
  BY DEF Init
<1>2. Init => /\ rolls \in 0..MaxRolls
              /\ candidate \in [CellsOf("CHALLENGE") ->
                                 [Challenges -> {"NONE", "OFFERED", "SELECTED"}]]
              /\ access \in [Challenges -> Accesses \cup {NoAccess}]
              /\ published \subseteq Challenges
  BY BoardAssumption DEF Init, NoCandidate
<1>3. Init => /\ position \in Cells
              /\ airportUsed \in BOOLEAN
              /\ active \in Challenges \cup {NoChallenge}
              /\ consumed \subseteq Cells
              /\ pending \in Rolls \cup {NoRoll}
  BY StartIsACell DEF Init
<1>4. Init => /\ spun \subseteq CellsOf("ROULETTE")
              /\ spent \in Nat
              /\ landings \in Nat
              /\ relanded \subseteq Cells
  BY DEF Init
<1>5. QED
  BY <1>1, <1>2, <1>3, <1>4, Zenon DEF TypeOK

\* Looking at candidates and opening one touch nothing but challenges.
LEMMA PickingKeepsTheBoard ==
  ASSUME ListCandidates \/ \E h \in Challenges : OpenChallenge(h)
  PROVE  UNCHANGED <<position, rolls, airportUsed, consumed, pending, cards, published,
                     spun, spent, landings, relanded>>
BY DEF ListCandidates, OpenChallenge, teamVars, historyVars

\* Candidates are listed, and challenges opened, at challenge cells.
LEMMA ListTypes ==
  ASSUME TypeOK, ListCandidates
  PROVE  candidate' \in [CellsOf("CHALLENGE") ->
                           [Challenges -> {"NONE", "OFFERED", "SELECTED"}]]
<1>1. PICK new \in [Challenges -> {"NONE", "OFFERED", "SELECTED"}] :
        candidate' = [candidate EXCEPT ![position] = new]
  <2>1. CASE OpenedAt(position) # {}
    <3>1. NoCandidate \in [Challenges -> {"NONE", "OFFERED", "SELECTED"}]
      BY DEF NoCandidate
    <3>2. QED  BY <2>1, <3>1 DEF ListCandidates
  <2>2. CASE OpenedAt(position) = {}
    <3>1. PICK new \in Samples :
            candidate' = [candidate EXCEPT ![position] =
                            [h \in Challenges |-> CASE h \in new  -> "OFFERED"
                                                    [] h \in Kept -> candidate[position][h]
                                                    [] OTHER      -> "NONE"]]
      BY <2>2 DEF ListCandidates
    <3>2. \A h \in Kept : candidate[position][h] \in {"OFFERED", "SELECTED"}
      BY DEF Kept
    <3>3. QED  BY <3>1, <3>2
  <2>3. QED  BY <2>1, <2>2
<1>2. QED
  BY <1>1 DEF TypeOK

LEMMA OpenTypes ==
  ASSUME TypeOK, NEW h \in Challenges, OpenChallenge(h)
  PROVE  /\ active' \in Challenges \cup {NoChallenge}
         /\ candidate' \in [CellsOf("CHALLENGE") ->
                              [Challenges -> {"NONE", "OFFERED", "SELECTED"}]]
         /\ access' \in [Challenges -> Accesses \cup {NoAccess}]
<1>1. position \in CellsOf("CHALLENGE")
  BY DEF OpenChallenge, ChallengeNotSelected, CellsOf, TypeOK
<1>2. QED
  BY <1>1 DEF OpenChallenge, Accesses, TypeOK

-----------------------------------------------------------------------------
\* Every step keeps the types.
LEMMA TypeStep == TypeOK /\ [Next]_vars => TypeOK'
<1> SUFFICES ASSUME TypeOK, [Next]_vars
             PROVE  TypeOK'
  OBVIOUS
<1> USE BoardAssumption DEF challengeVars
<1>1. CASE Recharge
  BY <1>1 DEF Recharge, TypeOK, historyVars
<1>2. CASE RollAndLand
  <2>1. PICK to \in Cells : FinalizeLanding(to, rolls - 1)
    BY <1>2, DestinationsAreFree DEF RollAndLand
  <2>2. PICK r \in 0..MaxRolls : r = rolls - 1 /\ FinalizeLanding(to, r)
    BY <1>2, <2>1 DEF RollAndLand, CanRoll, TypeOK
  <2>3. QED
    BY <1>2, <2>2, LandingTypes DEF RollAndLand, TypeOK
<1>3. CASE RollAndHold
  <2>1. pending' \in Rolls
    BY <1>3, DestinationsAreFree DEF RollAndHold, Rolls, TypeOK
  <2>2. QED
    BY <1>3, <2>1 DEF RollAndHold, CanRoll, TypeOK
<1>4. CASE ConfirmRoll
  <2>1. pending.to \in Cells /\ FinalizeLanding(pending.to, rolls)
    BY <1>4 DEF ConfirmRoll, MayConfirmRoll, TypeOK, Rolls
  <2>2. PICK to \in Cells : to = pending.to /\ FinalizeLanding(to, rolls)
    BY <2>1
  <2>3. QED
    BY <1>4, <2>2, LandingTypes DEF ConfirmRoll, TypeOK
<1>5. ASSUME NEW c \in Cells, AirportMove(c)
      PROVE  TypeOK'
  BY <1>5, LandingTypes DEF AirportMove, TypeOK
<1>6. CASE SpinRoulette
  BY <1>6 DEF SpinRoulette, TypeOK, CellsOf, teamVars, historyVars
<1>7. ASSUME \/ ListCandidates \/ \E h \in Challenges : OpenChallenge(h)
      PROVE  TypeOK'
  BY <1>7, ListTypes, OpenTypes
     DEF ListCandidates, OpenChallenge, TypeOK, teamVars, historyVars
<1>8. ASSUME NEW h \in Challenges, NEW inTime \in BOOLEAN,
             SolveChallenge(h, inTime)
      PROVE  TypeOK'
  <2>1. access' \in [Challenges -> Accesses \cup {NoAccess}]
    BY <1>8 DEF SolveChallenge, TypeOK, Accesses
  <2>2. rolls' \in 0..MaxRolls
    BY <1>8 DEF SolveChallenge, Grant, TypeOK
  <2>3. QED
    BY <1>8, <2>1, <2>2 DEF SolveChallenge, TypeOK, historyVars
<1>9. ASSUME NEW kind \in CardKinds, DrawCard(kind)
      PROVE  TypeOK'
  <2>1. [kind |-> kind, status |-> "held", choice |-> NoChoice] \in CardRows
    BY DEF CardRows, Choices
  <2>2. rolls' \in 0..MaxRolls
    BY <1>9 DEF DrawCard, Grant, TypeOK
  <2>3. cards' \in [CellsOf("CHANCE") -> CardRows \cup {NotDrawn}]
    BY <1>9, <2>1 DEF DrawCard, TypeOK
  <2>4. QED
    BY <1>9, <2>2, <2>3 DEF DrawCard, TypeOK, historyVars
<1>10. ASSUME NEW c \in CellsOf("CHANCE"), DiscardCard(c)
       PROVE  TypeOK'
  BY <1>10, HeldIsARow
     DEF DiscardCard, TypeOK, CardRows, teamVars, historyVars
<1>11. ASSUME NEW c \in CellsOf("CHANCE"), UseReRoll(c)
       PROVE  TypeOK'
  <2>1. PICK to \in Cells : FinalizeLanding(to, rolls)
    BY <1>11, DestinationsAreFree DEF UseReRoll
  <2>2. cards' \in [CellsOf("CHANCE") -> CardRows \cup {NotDrawn}]
    BY <1>11, SpendTypes DEF UseReRoll, MayUse
  <2>3. QED
    BY <1>11, <2>1, <2>2, LandingTypes DEF UseReRoll, TypeOK
<1>12. ASSUME NEW c \in CellsOf("CHANCE"), NEW offset \in Offsets, UseMoveOffset(c, offset)
       PROVE  TypeOK'
  <2>1. PICK to \in Cells : FinalizeLanding(to, rolls)
    BY <1>12, DestinationsAreFree DEF UseMoveOffset
  <2>2. cards' \in [CellsOf("CHANCE") -> CardRows \cup {NotDrawn}]
    BY <1>12, SpendTypes DEF UseMoveOffset, MayUse
  <2>3. QED
    BY <1>12, <2>1, <2>2, LandingTypes DEF UseMoveOffset, TypeOK
<1>13. ASSUME NEW c \in CellsOf("CHANCE"), NEW to \in Cells, UseFreeMove(c, to)
       PROVE  TypeOK'
  <2>1. cards' \in [CellsOf("CHANCE") -> CardRows \cup {NotDrawn}]
    BY <1>13, SpendTypes DEF UseFreeMove, MayUse
  <2>2. QED
    BY <1>13, <2>1, LandingTypes DEF UseFreeMove, TypeOK
<1>14. ASSUME NEW c \in CellsOf("CHANCE"), UseExtraRoll(c)
       PROVE  TypeOK'
  <2>1. cards' \in [CellsOf("CHANCE") -> CardRows \cup {NotDrawn}]
    BY <1>14, SpendTypes DEF UseExtraRoll, MayUse
  <2>2. QED
    BY <1>14, <2>1 DEF UseExtraRoll, Grant, TypeOK, historyVars
<1>15. ASSUME NEW c \in CellsOf("CHANCE"), UseRollTwice(c)
       PROVE  TypeOK'
  <2>1. PICK first \in DiceTotals, second \in DiceTotals :
          /\ \E to \in Destinations(consumed, position, first, Forward) :
               pending' = [from |-> position, number |-> first, to |-> to]
          /\ cards' = [cards EXCEPT ![c].choice = <<first, second>>]
    BY <1>15 DEF UseRollTwice
  <2>2. pending' \in Rolls
    BY <2>1, DestinationsAreFree DEF Rolls, TypeOK
  <2>3. cards' \in [CellsOf("CHANCE") -> CardRows \cup {NotDrawn}]
    <3>1. cards[c] \in CardRows
      BY <1>15, HeldIsARow DEF UseRollTwice, MayUse
    <3>2. [cards[c] EXCEPT !.choice = <<first, second>>] \in CardRows
      BY <3>1 DEF CardRows, Choices
    <3>3. QED
      BY <2>1, <3>2 DEF TypeOK
  <2>4. QED
    BY <1>15, <2>2, <2>3 DEF UseRollTwice, CanRoll, TypeOK
<1>16. ASSUME NEW c \in CellsOf("CHANCE"), NEW which \in 1..2, ConfirmChoice(c, which)
       PROVE  TypeOK'
  <2>1. PICK to \in Cells : FinalizeLanding(to, rolls)
    BY <1>16, DestinationsAreFree DEF ConfirmChoice, ChoiceEnds
  <2>2. cards' \in [CellsOf("CHANCE") -> CardRows \cup {NotDrawn}]
    <3>1. cards[c] \in CardRows
      BY <1>16, HeldIsARow DEF ConfirmChoice, Choosing
    <3>2. [cards[c] EXCEPT !.status = "used", !.choice = NoChoice] \in CardRows
      BY <3>1 DEF CardRows, Choices
    <3>3. QED
      BY <1>16, <3>2 DEF ConfirmChoice, TypeOK
  <2>3. QED
    BY <1>16, <2>1, <2>2, LandingTypes DEF ConfirmChoice, TypeOK
<1>17. CASE UNCHANGED vars
  BY <1>17 DEF vars, teamVars, historyVars, TypeOK
<1>18. QED
  BY <1>1, <1>2, <1>3, <1>4, <1>5, <1>6, <1>7, <1>8, <1>9, <1>10, <1>11, <1>12,
     <1>13, <1>14, <1>15, <1>16, <1>17
     DEF Next, Dice, Cell, Chance

-----------------------------------------------------------------------------
\* Type correctness of the board.
THEOREM TypeCorrect == Spec => []TypeOK
BY InitType, TypeStep, PTL DEF Spec

\* The same of a team's game: wherever the piece stands, for every throw.
THEOREM ClosedFormHolds == Spec => []ClosedFormAgrees
<1>1. TypeOK => ClosedFormAgrees
  <2> SUFFICES ASSUME TypeOK, NEW n \in DiceTotals, NEW d \in {Forward, Backward}
               PROVE  LoopAgrees(consumed, position, n, d)
    BY DEF ClosedFormAgrees
  <2>1. position \in Cells /\ n \in Nat \ {0}
    BY BoardAssumption DEF TypeOK
  <2>2. consumed \in SUBSET Cells
    BY DEF TypeOK
  <2>3. QED  BY <2>1, <2>2, WalkEndsAtItsRank
<1>2. QED  BY <1>1, TypeCorrect, PTL

-----------------------------------------------------------------------------
(***************************************************************************)
(* The choose card.                                                        *)
(***************************************************************************)
ChoiceInv ==
  /\ ChoiceOwnsPending
  /\ \A c \in Choosing : cards[c].kind = "ROLL_TWICE_CHOOSE"

\* A choice opens with no move pending and one card in hand, and nothing that
\* may happen before it is made draws a card or ends the pending move without
\* spending the one card in hand.
LEMMA ChoiceStep == TypeOK /\ ChoiceInv /\ [Next]_vars => ChoiceInv'
<1> SUFFICES ASSUME TypeOK, ChoiceInv, [Next]_vars
             PROVE  ChoiceInv'
  OBVIOUS
<1>1. ASSUME pending = NoRoll
      PROVE  Choosing = {}
  BY <1>1 DEF ChoiceInv, ChoiceOwnsPending
<1>2. ASSUME Choosing' = {}
      PROVE  ChoiceInv'
  BY <1>2 DEF ChoiceInv, ChoiceOwnsPending
<1>3. CASE Choosing = {} /\ UNCHANGED cards
  BY <1>2, <1>3 DEF Choosing, Held
<1>4. CASE UNCHANGED <<pending, cards>>
  BY <1>4 DEF ChoiceInv, ChoiceOwnsPending, Choosing, Held
<1>5. ASSUME NEW kind \in CardKinds, DrawCard(kind)
      PROVE  ChoiceInv'
  <2>1. Choosing = {}
    BY <1>1, <1>5 DEF DrawCard
  <2>2. Choosing' = {}
    BY <1>5, <2>1 DEF DrawCard, Choosing, Held, TypeOK
  <2>3. QED  BY <1>2, <2>2
<1>6. ASSUME NEW c \in CellsOf("CHANCE"), DiscardCard(c)
      PROVE  ChoiceInv'
  <2>1. Choosing = {}
    BY <1>6 DEF DiscardCard, AwaitingDiscard, ChoiceInv, ChoiceOwnsPending
  <2>2. Choosing' = {}
    BY <1>6, <2>1 DEF DiscardCard, Choosing, Held, TypeOK
  <2>3. QED  BY <1>2, <2>2
<1>7. ASSUME NEW c \in Held, Held = {c}, Spend(c)
      PROVE  ChoiceInv'
  <2>1. Choosing' = {}
    BY <1>7 DEF Spend, Choosing, Held, TypeOK
  <2>2. QED  BY <1>2, <2>1
<1>8. ASSUME NEW c \in CellsOf("CHANCE"), NEW kind, MayUse(c, kind)
      PROVE  Held = {c}
  BY <1>8 DEF MayUse, AwaitingDiscard, Held
<1>9. ASSUME NEW c \in CellsOf("CHANCE"), UseRollTwice(c)
      PROVE  ChoiceInv'
  <2>1. /\ Held = {c} /\ pending = NoRoll
        /\ cards[c].kind = "ROLL_TWICE_CHOOSE"
    BY <1>8, <1>9 DEF UseRollTwice, MayUse, CanRoll
  <2>2. PICK first \in DiceTotals, second \in DiceTotals :
          /\ \E to \in Destinations(consumed, position, first, Forward) :
               pending' = [from |-> position, number |-> first, to |-> to]
          /\ cards' = [cards EXCEPT ![c].choice = <<first, second>>]
    BY <1>9 DEF UseRollTwice
  <2>3. pending' # NoRoll /\ pending'.number = first
    BY <2>2, DestinationsAreFree, NoRollAssumption DEF Rolls, TypeOK
  <2>4. Held' = {c} /\ Choosing' \subseteq {c}
    BY <2>1, <2>2 DEF Held, Choosing, TypeOK
  <2>5. cards'[c].choice = <<first, second>> /\ cards'[c].kind = cards[c].kind
    BY <2>1, <2>2, HeldIsARow DEF TypeOK, CardRows
  <2>6. QED
    BY <2>1, <2>3, <2>4, <2>5 DEF ChoiceInv, ChoiceOwnsPending
<1>10. ASSUME NEW c \in CellsOf("CHANCE"), NEW which \in 1..2, ConfirmChoice(c, which)
       PROVE  ChoiceInv'
  <2>1. Held = {c}
    BY <1>10 DEF ConfirmChoice, ChoiceInv, ChoiceOwnsPending
  <2>2. Choosing' = {}
    BY <1>10, <2>1 DEF ConfirmChoice, Choosing, Held, TypeOK
  <2>3. QED  BY <1>2, <2>2
<1>11. ASSUME NEW c \in CellsOf("CHANCE"),
              \/ UseReRoll(c)
              \/ \E offset \in Offsets : UseMoveOffset(c, offset)
              \/ \E to \in Cells : UseFreeMove(c, to)
              \/ UseExtraRoll(c)
       PROVE  ChoiceInv'
  <2>1. Spend(c) /\ \E kind \in AllCardKinds : MayUse(c, kind)
    BY <1>11 DEF UseReRoll, UseMoveOffset, UseFreeMove, UseExtraRoll, AllCardKinds
  <2>2. c \in Held
    BY <2>1 DEF MayUse
  <2>3. QED  BY <1>7, <1>8, <2>1, <2>2
<1>12. CASE Dice
  BY <1>1, <1>3, <1>4, <1>12
     DEF Dice, Recharge, RollAndLand, RollAndHold, ConfirmRoll, MayConfirmRoll, CanRoll
<1>13. CASE Cell
  BY <1>4, <1>13, PickingKeepsTheBoard
     DEF Cell, AirportMove, SpinRoulette, SolveChallenge
<1>14. CASE UNCHANGED vars
  BY <1>4, <1>14 DEF vars
<1>15. QED
  BY <1>5, <1>6, <1>9, <1>10, <1>11, <1>12, <1>13, <1>14 DEF Next, Chance

-----------------------------------------------------------------------------
(***************************************************************************)
(* Movement.                                                               *)
(***************************************************************************)

\* The piece stands on a cell it has landed on, or where it spawned; a held
\* throw ends on a consumed cell only when the airport was used under it, and
\* then it is the first to do so.
PlaceInv ==
  /\ position \in consumed \/ position = Start
  /\ pending # NoRoll /\ pending.to \in consumed => airportUsed /\ relanded = {}
  /\ relanded # {} => airportUsed
  /\ PendingThrownHere

\* The steps of the team, told by what they do to its place: it lands on a
\* free cell with no throw left pending, it leaves an airport, it confirms a
\* held throw, it holds a throw, or it stays where it is.
Lands ==
  /\ pending' = NoRoll
  /\ UNCHANGED airportUsed
  /\ \E c \in Cells \ consumed, r \in 0..MaxRolls : FinalizeLanding(c, r)

Holds ==
  /\ pending = NoRoll
  /\ pending' \in Rolls
  /\ pending'.from = position
  /\ pending'.to \notin consumed
  /\ UNCHANGED <<position, consumed, airportUsed, landings, relanded>>

Stays == UNCHANGED <<position, consumed, pending, airportUsed, landings, relanded>>

\* Every step lands, holds, stays, confirms or leaves by airport.
LEMMA StepsByPlace ==
  ASSUME TypeOK, PlaceInv, [Next]_vars
  PROVE  Lands \/ Holds \/ Stays \/ ConfirmRoll \/ \E c \in Cells : AirportMove(c)
<1>1. CASE \/ ListCandidates \/ \E h \in Challenges : OpenChallenge(h)
           \/ Recharge \/ UNCHANGED vars
  BY <1>1, PickingKeepsTheBoard DEF Recharge, vars, teamVars, historyVars, Stays
<1>2. CASE RollAndLand
  <2>1. PICK to \in Cells \ consumed : FinalizeLanding(to, rolls - 1)
    BY <1>2, DestinationsAreFree DEF RollAndLand
  <2>2. PICK r \in 0..MaxRolls : r = rolls - 1 /\ FinalizeLanding(to, r)
    BY <1>2, <2>1, BoardAssumption DEF RollAndLand, CanRoll, TypeOK
  <2>3. QED
    BY <1>2, <2>2 DEF RollAndLand, CanRoll, Lands
<1>3. CASE RollAndHold
  <2>1. PICK n \in DiceTotals :
          \E to \in Destinations(consumed, position, n, Forward) :
            pending' = [from |-> position, number |-> n, to |-> to]
    BY <1>3 DEF RollAndHold
  <2>2. QED
    BY <1>3, <2>1, DestinationsAreFree
       DEF RollAndHold, CanRoll, Rolls, TypeOK, Holds
<1>4. CASE SpinRoulette
  <2>1. position \in consumed
    BY <1>4, BoardAssumption DEF SpinRoulette, PlaceInv, TypeOK
  <2>2. QED
    BY <1>4, <2>1 DEF SpinRoulette, Stays, teamVars, historyVars
<1>5. ASSUME NEW h \in Challenges, NEW inTime \in BOOLEAN,
             SolveChallenge(h, inTime)
      PROVE  Stays
  BY <1>5 DEF SolveChallenge, Stays, historyVars
<1>6. ASSUME NEW kind \in CardKinds, DrawCard(kind)
      PROVE  Stays
  <2>1. position \in consumed
    BY <1>6, BoardAssumption DEF DrawCard, PlaceInv, TypeOK
  <2>2. QED
    BY <1>6, <2>1 DEF DrawCard, Stays, historyVars
<1>7. ASSUME NEW c \in CellsOf("CHANCE"), DiscardCard(c) \/ UseExtraRoll(c)
      PROVE  Stays
  BY <1>7 DEF DiscardCard, UseExtraRoll, Stays, teamVars, historyVars
<1>8. ASSUME NEW c \in CellsOf("CHANCE"), UseRollTwice(c)
      PROVE  Holds
  <2>1. PICK n \in DiceTotals :
          \E to \in Destinations(consumed, position, n, Forward) :
            pending' = [from |-> position, number |-> n, to |-> to]
    BY <1>8 DEF UseRollTwice
  <2>2. QED
    BY <1>8, <2>1, DestinationsAreFree
       DEF UseRollTwice, CanRoll, Rolls, TypeOK, Holds
<1>9. ASSUME NEW c \in CellsOf("CHANCE"), UseReRoll(c)
      PROVE  Lands
  <2>1. PICK to \in Cells \ consumed : FinalizeLanding(to, rolls)
    BY <1>9, DestinationsAreFree DEF UseReRoll
  <2>2. PICK r \in 0..MaxRolls : r = rolls /\ FinalizeLanding(to, r)
    BY <2>1 DEF TypeOK
  <2>3. QED
    BY <1>9, <2>2 DEF UseReRoll, Lands
<1>10. ASSUME NEW c \in CellsOf("CHANCE"), NEW offset \in Offsets, UseMoveOffset(c, offset)
       PROVE  Lands
  <2>1. PICK to \in Cells \ consumed : FinalizeLanding(to, rolls)
    BY <1>10, DestinationsAreFree DEF UseMoveOffset
  <2>2. PICK r \in 0..MaxRolls : r = rolls /\ FinalizeLanding(to, r)
    BY <2>1 DEF TypeOK
  <2>3. QED
    BY <1>10, <2>2 DEF UseMoveOffset, Lands
<1>11. ASSUME NEW c \in CellsOf("CHANCE"), NEW to \in Cells, UseFreeMove(c, to)
       PROVE  Lands
  <2>1. PICK r \in 0..MaxRolls : r = rolls /\ FinalizeLanding(to, r)
    BY <1>11 DEF UseFreeMove, TypeOK
  <2>2. QED
    BY <1>11, <2>1 DEF UseFreeMove, MayUse, PostRollKinds, Lands
<1>12. ASSUME NEW c \in CellsOf("CHANCE"), NEW which \in 1..2, ConfirmChoice(c, which)
       PROVE  Lands
  <2>1. PICK to \in Cells \ consumed : FinalizeLanding(to, rolls)
    BY <1>12, DestinationsAreFree DEF ConfirmChoice, ChoiceEnds
  <2>2. PICK r \in 0..MaxRolls : r = rolls /\ FinalizeLanding(to, r)
    BY <2>1 DEF TypeOK
  <2>3. QED
    BY <1>12, <2>2 DEF ConfirmChoice, Lands
<1>13. QED
  BY <1>1, <1>2, <1>3, <1>4, <1>5, <1>6, <1>7, <1>8, <1>9, <1>10, <1>11, <1>12
     DEF Next, Dice, Cell, Chance

\* The place of the piece and of the pending throw.
LEMMA PlaceStep == TypeOK /\ PlaceInv /\ [Next]_vars => PlaceInv'
<1> SUFFICES ASSUME TypeOK, PlaceInv, [Next]_vars
             PROVE  PlaceInv'
  OBVIOUS
<1>1. CASE Lands
  BY <1>1 DEF Lands, FinalizeLanding, PlaceInv, PendingThrownHere
<1>2. CASE Holds
  BY <1>2 DEF Holds, PlaceInv, PendingThrownHere
<1>3. CASE Stays
  BY <1>3 DEF Stays, PlaceInv, PendingThrownHere
<1>4. CASE ConfirmRoll
  BY <1>4 DEF ConfirmRoll, MayConfirmRoll, FinalizeLanding, PlaceInv, PendingThrownHere
<1>5. ASSUME NEW c \in Cells, AirportMove(c)
      PROVE  PlaceInv'
  BY <1>5 DEF AirportMove, FinalizeLanding, PlaceInv, PendingThrownHere
<1>6. QED
  BY <1>1, <1>2, <1>3, <1>4, <1>5, StepsByPlace

\* What a landing is to the tour: a visit of a free cell, or the one stray.
LEMMA TourStep ==
  ASSUME TypeOK, PlaceInv, [Next]_vars
  PROVE  [TheTour!Next]_(TheTour!vars)
<1>1. CASE Lands
  <2>1. PICK c \in Cells \ consumed, r \in 0..MaxRolls : FinalizeLanding(c, r)
    BY <1>1 DEF Lands
  <2>2. TheTour!Visit(c)
    BY <2>1 DEF FinalizeLanding, TheTour!Visit
  <2>3. QED  BY <2>2 DEF TheTour!Next
<1>2. CASE Holds \/ Stays
  BY <1>2 DEF Holds, Stays, TheTour!vars
<1>3. CASE ConfirmRoll
  <2>1. pending.to \in Cells
    BY <1>3 DEF ConfirmRoll, MayConfirmRoll, TypeOK, Rolls
  <2>2. CASE pending.to \in consumed
    <3>1. TheTour!Stray(pending.to)
      BY <1>3, <2>1, <2>2
         DEF ConfirmRoll, MayConfirmRoll, FinalizeLanding, PlaceInv, TypeOK, TheTour!Stray
    <3>2. QED  BY <2>1, <3>1 DEF TheTour!Next
  <2>3. CASE pending.to \notin consumed
    <3>1. TheTour!Visit(pending.to)
      BY <1>3, <2>1, <2>3 DEF ConfirmRoll, FinalizeLanding, TheTour!Visit
    <3>2. QED  BY <2>1, <3>1 DEF TheTour!Next
  <2>4. QED  BY <2>2, <2>3
<1>4. ASSUME NEW c \in Cells, AirportMove(c)
      PROVE  TheTour!Next
  <2>1. TheTour!Visit(c)
    BY <1>4 DEF AirportMove, FinalizeLanding, TheTour!Visit
  <2>2. QED  BY <2>1 DEF TheTour!Next
<1>5. QED
  BY <1>1, <1>2, <1>3, <1>4, StepsByPlace

-----------------------------------------------------------------------------
(***************************************************************************)
(* Counting landings.                                                      *)
(***************************************************************************)
LEMMA BoardIsFinite == IsFiniteSet(Cells)
BY LastAssumption, FS_Interval DEF Cells

\* RelandsOnceAtMost counts what PlaceInv says.
RelandInv ==
  /\ landings = Cardinality(consumed) + Cardinality(relanded)
  /\ Cardinality(relanded) <= 1

\* Only the confirmation of a throw held over an airport move lands on a
\* consumed cell.
LEMMA RelandStep == TypeOK /\ PlaceInv /\ RelandInv /\ [Next]_vars => RelandInv'
<1> SUFFICES ASSUME TypeOK, PlaceInv, RelandInv, [Next]_vars
             PROVE  RelandInv'
  OBVIOUS
<1>1. /\ IsFiniteSet(consumed) /\ Cardinality(consumed) \in Nat
      /\ IsFiniteSet(relanded) /\ Cardinality(relanded) \in Nat
  BY BoardIsFinite, FS_Subset, FS_CardinalityType DEF TypeOK
<1>2. ASSUME NEW c \in Cells \ consumed, NEW r, FinalizeLanding(c, r)
      PROVE  RelandInv'
  <2>1. Cardinality(consumed \cup {c}) = Cardinality(consumed) + 1
    BY <1>1, <1>2, FS_AddElement
  <2>2. QED
    BY <1>1, <1>2, <2>1 DEF FinalizeLanding, RelandInv
<1>3. CASE ConfirmRoll
  <2>1. PICK c \in Cells, r \in 0..MaxRolls : c = pending.to /\ FinalizeLanding(c, r)
    BY <1>3 DEF ConfirmRoll, MayConfirmRoll, TypeOK, Rolls
  <2>2. CASE c \notin consumed
    BY <1>2, <2>1, <2>2
  <2>3. CASE c \in consumed
    <3>1. relanded = {}
      BY <1>3, <2>1, <2>3 DEF ConfirmRoll, MayConfirmRoll, PlaceInv
    <3>2. /\ relanded' = {c} /\ consumed' = consumed
          /\ landings' = landings + 1
      BY <2>1, <2>3, <3>1 DEF FinalizeLanding
    <3>3. Cardinality(relanded) = 0 /\ Cardinality(relanded') = 1
      BY <3>1, <3>2, FS_EmptySet, FS_Singleton
    <3>4. QED
      BY <1>1, <3>2, <3>3 DEF RelandInv
  <2>4. QED  BY <2>2, <2>3
<1>4. CASE Lands
  BY <1>2, <1>4 DEF Lands
<1>5. CASE Holds \/ Stays
  BY <1>5 DEF Holds, Stays, RelandInv
<1>6. ASSUME NEW c \in Cells, AirportMove(c)
      PROVE  RelandInv'
  <2>1. PICK r : FinalizeLanding(c, r)
    BY <1>6 DEF AirportMove
  <2>2. QED
    BY <1>2, <1>6, <2>1 DEF AirportMove
<1>7. QED
  BY <1>3, <1>4, <1>5, <1>6, StepsByPlace

\* Only a free-travel card that is used adds to FreeMovesUsed.
LEMMA FreeMovesStep ==
  ASSUME TypeOK, ChoiceInv, [Next]_vars
  PROVE  \/ UNCHANGED FreeMovesUsed
         \/ \E c \in CellsOf("CHANCE") \ FreeMovesUsed, to \in Cells :
              UseFreeMove(c, to) /\ FreeMovesUsed' = FreeMovesUsed \cup {c}
<1>1. CASE UNCHANGED cards
  BY <1>1 DEF FreeMovesUsed
<1>2. ASSUME NEW c \in CellsOf("CHANCE"), NEW row,
             cards' = [cards EXCEPT ![c] = row],
             ~(cards[c].kind = "FREE_MOVE" /\ cards[c].status = "used"),
             ~(row.kind = "FREE_MOVE" /\ row.status = "used")
      PROVE  UNCHANGED FreeMovesUsed
  BY <1>2 DEF FreeMovesUsed, TypeOK
<1>3. ASSUME NEW kind \in CardKinds, DrawCard(kind)
      PROVE  UNCHANGED FreeMovesUsed
  BY <1>3 DEF DrawCard, FreeMovesUsed, TypeOK, NotDrawn
<1>4. ASSUME NEW c \in CellsOf("CHANCE"), DiscardCard(c)
      PROVE  UNCHANGED FreeMovesUsed
  BY <1>4, HeldIsARow DEF DiscardCard, Held, FreeMovesUsed, TypeOK, CardRows
<1>5. ASSUME NEW c \in Held, Spend(c), cards[c].kind # "FREE_MOVE"
      PROVE  UNCHANGED FreeMovesUsed
  BY <1>5, HeldIsARow DEF Spend, FreeMovesUsed, TypeOK, CardRows
<1>6. ASSUME NEW c \in CellsOf("CHANCE"), UseReRoll(c)
      PROVE  UNCHANGED FreeMovesUsed
  BY <1>5, <1>6 DEF UseReRoll, MayUse
<1>7. ASSUME NEW c \in CellsOf("CHANCE"), NEW offset \in Offsets, UseMoveOffset(c, offset)
      PROVE  UNCHANGED FreeMovesUsed
  BY <1>5, <1>7 DEF UseMoveOffset, MayUse
<1>8. ASSUME NEW c \in CellsOf("CHANCE"), UseExtraRoll(c)
      PROVE  UNCHANGED FreeMovesUsed
  BY <1>5, <1>8 DEF UseExtraRoll, MayUse
<1>9. ASSUME NEW c \in CellsOf("CHANCE"), UseRollTwice(c)
      PROVE  UNCHANGED FreeMovesUsed
  BY <1>9, HeldIsARow
     DEF UseRollTwice, MayUse, Held, FreeMovesUsed, TypeOK, CardRows
<1>10. ASSUME NEW c \in CellsOf("CHANCE"), NEW which \in 1..2, ConfirmChoice(c, which)
       PROVE  UNCHANGED FreeMovesUsed
  <2>1. c \in Held /\ cards[c].kind = "ROLL_TWICE_CHOOSE"
    BY <1>10 DEF ConfirmChoice, ChoiceInv, Choosing
  <2>2. QED
    BY <1>10, <2>1, HeldIsARow
       DEF ConfirmChoice, FreeMovesUsed, TypeOK, CardRows
<1>11. ASSUME NEW c \in CellsOf("CHANCE"), NEW to \in Cells, UseFreeMove(c, to)
       PROVE  c \notin FreeMovesUsed /\ FreeMovesUsed' = FreeMovesUsed \cup {c}
  <2>1. c \in Held /\ cards[c].kind = "FREE_MOVE" /\ Spend(c)
    BY <1>11 DEF UseFreeMove, MayUse
  <2>2. QED
    BY <2>1, HeldIsARow DEF Spend, Held, FreeMovesUsed, TypeOK, CardRows
<1>12. CASE Dice \/ Cell \/ UNCHANGED vars
  BY <1>1, <1>12, PickingKeepsTheBoard
     DEF Dice, Recharge, RollAndLand, RollAndHold, ConfirmRoll, Cell, AirportMove,
         SpinRoulette, SolveChallenge, vars
<1>13. QED
  BY <1>3, <1>4, <1>6, <1>7, <1>8, <1>9, <1>10, <1>11, <1>12 DEF Next, Chance

\* The used free-travel cards can be counted.
LEMMA FreeMovesAreFinite ==
  /\ IsFiniteSet(FreeMovesUsed) /\ Cardinality(FreeMovesUsed) \in Nat
  /\ Cardinality(FreeMovesUsed)' \in Nat
<1>1. FreeMovesUsed \subseteq Cells /\ FreeMovesUsed' \subseteq Cells
  BY DEF FreeMovesUsed, CellsOf
<1>2. QED
  BY <1>1, BoardIsFinite, FS_Subset, FS_CardinalityType

\* Landings and throws still to land, less the dice, the airport move and the
\* cards that paid for them.
Balance ==
  landings + (IF pending = NoRoll THEN 0 ELSE 1)
    - (spent + (IF airportUsed THEN 1 ELSE 0) + Cardinality(FreeMovesUsed))

\* Every action of the team books its die and its landing together.
LEMMA BalanceStep ==
  ASSUME TypeOK, ChoiceInv, [Next]_vars
  PROVE  UNCHANGED Balance
<1>1. Cardinality(FreeMovesUsed) \in Nat
  BY FreeMovesAreFinite
<1>2. ASSUME NEW c \in CellsOf("CHANCE"), NEW to \in Cells, UseFreeMove(c, to)
      PROVE  UNCHANGED Balance
  <2>1. c \notin FreeMovesUsed /\ FreeMovesUsed' = FreeMovesUsed \cup {c}
    <3>1. c \in Held /\ cards[c].kind = "FREE_MOVE" /\ Spend(c)
      BY <1>2 DEF UseFreeMove, MayUse
    <3>2. QED
      BY <3>1, HeldIsARow DEF Spend, Held, FreeMovesUsed, TypeOK, CardRows
  <2>2. Cardinality(FreeMovesUsed') = Cardinality(FreeMovesUsed) + 1
    BY <2>1, FreeMovesAreFinite, FS_AddElement
  <2>3. QED
    BY <1>1, <1>2, <2>2
       DEF UseFreeMove, FinalizeLanding, Balance, TypeOK
<1>3. CASE UNCHANGED FreeMovesUsed
  <2>1. ASSUME UNCHANGED <<landings, spent, airportUsed, pending>>
        PROVE  UNCHANGED Balance
    BY <1>3, <2>1 DEF Balance
  <2>2. ASSUME pending # NoRoll, pending' = NoRoll, landings' = landings + 1,
               UNCHANGED <<spent, airportUsed>>
        PROVE  UNCHANGED Balance
    BY <1>1, <1>3, <2>2 DEF Balance, TypeOK
  <2>3. ASSUME pending = NoRoll, pending' # NoRoll, spent' = spent + 1,
               UNCHANGED <<landings, airportUsed>>
        PROVE  UNCHANGED Balance
    BY <1>1, <1>3, <2>3 DEF Balance, TypeOK
  <2>4. CASE RollAndLand
    BY <1>1, <1>3, <2>4
       DEF RollAndLand, CanRoll, FinalizeLanding, Balance, TypeOK
  <2>5. CASE RollAndHold
    <3>1. pending' # NoRoll
      BY <2>5, DestinationsAreFree, NoRollAssumption
         DEF RollAndHold, Rolls, TypeOK
    <3>2. QED
      BY <2>3, <2>5, <3>1 DEF RollAndHold, CanRoll
  <2>6. CASE ConfirmRoll
    BY <2>2, <2>6 DEF ConfirmRoll, MayConfirmRoll, FinalizeLanding
  <2>7. ASSUME NEW c \in Cells, AirportMove(c)
        PROVE  UNCHANGED Balance
    BY <1>1, <1>3, <2>7
       DEF AirportMove, FinalizeLanding, Balance, TypeOK
  <2>8. ASSUME NEW c \in CellsOf("CHANCE"), UseRollTwice(c)
        PROVE  UNCHANGED Balance
    <3>1. pending' # NoRoll
      BY <2>8, DestinationsAreFree, NoRollAssumption
         DEF UseRollTwice, Rolls, TypeOK
    <3>2. QED
      BY <2>3, <2>8, <3>1 DEF UseRollTwice, CanRoll
  <2>9. ASSUME NEW c \in CellsOf("CHANCE"),
               \/ UseReRoll(c)
               \/ \E offset \in Offsets : UseMoveOffset(c, offset)
               \/ \E which \in 1..2 : ConfirmChoice(c, which)
        PROVE  UNCHANGED Balance
    BY <2>2, <2>9
       DEF UseReRoll, UseMoveOffset, ConfirmChoice, MayUse, PostRollKinds,
           FinalizeLanding
  <2>10. CASE Recharge \/ UNCHANGED vars
    BY <2>1, <2>10 DEF Recharge, vars, historyVars, teamVars
  <2>11. CASE SpinRoulette \/ ListCandidates \/ \E h \in Challenges : OpenChallenge(h)
    BY <2>1, <2>11, PickingKeepsTheBoard DEF SpinRoulette, historyVars, teamVars
  <2>12. ASSUME NEW h \in Challenges, NEW inTime \in BOOLEAN,
                SolveChallenge(h, inTime)
         PROVE  UNCHANGED Balance
    BY <2>1, <2>12 DEF SolveChallenge, historyVars
  <2>13. ASSUME NEW kind \in CardKinds, DrawCard(kind)
         PROVE  UNCHANGED Balance
    BY <2>1, <2>13 DEF DrawCard, historyVars
  <2>14. ASSUME NEW c \in CellsOf("CHANCE"), DiscardCard(c) \/ UseExtraRoll(c)
         PROVE  UNCHANGED Balance
    BY <2>1, <2>14 DEF DiscardCard, UseExtraRoll, historyVars, teamVars
  <2>15. QED
    BY <1>2, <2>4, <2>5, <2>6, <2>7, <2>8, <2>9, <2>10, <2>11, <2>12, <2>13, <2>14
       DEF Next, Dice, Cell, Chance
<1>4. QED
  BY <1>2, <1>3, FreeMovesStep

\* The balance is zero.
LEMMA DieStep ==
  TypeOK /\ ChoiceInv /\ DieLandsOnce /\ [Next]_vars => DieLandsOnce'
<1> SUFFICES ASSUME TypeOK, ChoiceInv, DieLandsOnce, [Next]_vars
             PROVE  DieLandsOnce'
  OBVIOUS
<1>1. Cardinality(FreeMovesUsed) \in Nat
  BY FreeMovesAreFinite
<1>2. Cardinality(FreeMovesUsed)' \in Nat
  BY FreeMovesAreFinite
<1>3. {landings, spent, landings', spent'} \subseteq Nat
  BY TypeStep DEF TypeOK
<1>4. Balance = 0
  BY <1>1, <1>3 DEF DieLandsOnce, Balance
<1>5. QED
  BY <1>2, <1>3, <1>4, BalanceStep DEF DieLandsOnce, Balance

-----------------------------------------------------------------------------
\* No handler takes a consumed cell back, and on a completed board none of
\* them touches the dice: throws are refused and rewards are nothing.
LEMMA CompletedStep ==
  Completed /\ [Next]_vars => Completed' /\ rolls' = rolls /\ spent' = spent
<1> SUFFICES ASSUME Completed, [Next]_vars
             PROVE  Completed' /\ rolls' = rolls /\ spent' = spent
  OBVIOUS
<1>1. ASSUME consumed \subseteq consumed'
      PROVE  Completed'
  BY <1>1 DEF Completed, CompletedBy
<1>2. ASSUME NEW c, FinalizeLanding(c, rolls)
      PROVE  Completed' /\ rolls' = rolls
  BY <1>2 DEF FinalizeLanding, Grant, Completed, CompletedBy
<1>3. CASE Dice
  BY <1>2, <1>3 DEF Dice, Recharge, RollAndLand, RollAndHold, CanRoll, ConfirmRoll
<1>4. CASE Cell
  BY <1>1, <1>2, <1>4, PickingKeepsTheBoard
     DEF Cell, AirportMove, SpinRoulette, SolveChallenge, Grant, Completed, teamVars,
         historyVars
<1>5. CASE Chance
  <2>1. ASSUME NEW kind \in CardKinds, DrawCard(kind)
        PROVE  Completed' /\ rolls' = rolls /\ spent' = spent
    BY <1>1, <2>1 DEF DrawCard, Grant, Completed, CompletedBy, historyVars
  <2>2. ASSUME NEW c \in CellsOf("CHANCE"), DiscardCard(c)
        PROVE  Completed' /\ rolls' = rolls /\ spent' = spent
    BY <1>1, <2>2 DEF DiscardCard, teamVars, historyVars
  <2>3. ASSUME NEW c \in CellsOf("CHANCE"),
               \/ UseReRoll(c)
               \/ \E offset \in Offsets : UseMoveOffset(c, offset)
               \/ \E which \in 1..2 : ConfirmChoice(c, which)
        PROVE  Completed' /\ rolls' = rolls /\ spent' = spent
    BY <1>2, <2>3 DEF UseReRoll, UseMoveOffset, ConfirmChoice
  <2>4. ASSUME NEW c \in CellsOf("CHANCE"),
               \/ UseExtraRoll(c) \/ UseRollTwice(c)
               \/ \E to \in Cells : UseFreeMove(c, to)
        PROVE  FALSE
    BY <2>4 DEF UseExtraRoll, UseRollTwice, UseFreeMove, MayUse, PostRollKinds, CanRoll
  <2>5. QED  BY <1>5, <2>1, <2>2, <2>3, <2>4 DEF Chance
<1>6. CASE UNCHANGED vars
  BY <1>1, <1>6 DEF vars, teamVars, historyVars
<1>7. QED
  BY <1>3, <1>4, <1>5, <1>6 DEF Next

-----------------------------------------------------------------------------
(* The theorems *)

IInv == TypeOK /\ ChoiceInv /\ PlaceInv /\ RelandInv /\ DieLandsOnce

\* No card is drawn, no cell visited and no die spent at the start.
LEMMA InitInv == Init => IInv
<1> SUFFICES ASSUME Init
             PROVE  IInv
  OBVIOUS
<1>1. Choosing = {} /\ FreeMovesUsed = {}
  BY DEF Init, Choosing, Held, FreeMovesUsed, NotDrawn
<1>2. ChoiceInv
  BY <1>1 DEF ChoiceInv, ChoiceOwnsPending
<1>3. PlaceInv
  BY DEF Init, PlaceInv, PendingThrownHere
<1>4. Cardinality({}) = 0
  BY FS_EmptySet
<1>5. RelandInv
  BY <1>4 DEF Init, RelandInv
<1>6. DieLandsOnce
  BY <1>1, <1>4 DEF Init, DieLandsOnce
<1>7. QED
  BY <1>2, <1>3, <1>5, <1>6, InitType DEF IInv

\* The parts together are inductive.
LEMMA InvStep == IInv /\ [Next]_vars => IInv'
BY TypeStep, ChoiceStep, PlaceStep, RelandStep, DieStep DEF IInv

\* Every reachable state of a team satisfies the inductive invariant.
LEMMA Invariance == Spec => []IInv
BY InitInv, InvStep, PTL DEF Spec

\* On every board and with every catalogue, a die buys exactly one landing:
\* no path through hold, confirm, card or airport loses or doubles it.
THEOREM EveryDieLandsOnce == Spec => []DieLandsOnce
<1>1. IInv => DieLandsOnce
  BY DEF IInv
<1>2. QED  BY <1>1, Invariance, PTL

\* Open numbers always belong to the pending throw and to the one card held.
THEOREM ChoicesOwnTheirThrow == Spec => []ChoiceOwnsPending
<1>1. IInv => ChoiceOwnsPending
  BY DEF IInv, ChoiceInv
<1>2. QED  BY <1>1, Invariance, PTL

\* Only an airport comes between the piece and the throw it holds.
THEOREM ThrowsAreHeldHere == Spec => []PendingThrownHere
<1>1. IInv => PendingThrownHere
  BY DEF IInv, PlaceInv
<1>2. QED  BY <1>1, Invariance, PTL

\* Landings and consumed cells agree up to one landing after an airport move.
THEOREM OneRelandingAtMost == Spec => []RelandsOnceAtMost
<1>1. IInv => RelandsOnceAtMost
  BY DEF IInv, PlaceInv, RelandInv, RelandsOnceAtMost
<1>2. QED  BY <1>1, Invariance, PTL

\* The game is a tour of the board: every step maps to a visit of a free cell,
\* to the one stray, or to a stutter.
THEOREM PlayIsATour == Spec => IsATour
<1>1. Init => TheTour!Init
  BY DEF Init, TheTour!Init
<1>2. IInv /\ [Next]_vars => [TheTour!Next]_(TheTour!vars)
  BY TourStep DEF IInv
<1>3. QED
  BY <1>1, <1>2, Invariance, PTL DEF Spec, IsATour, TheTour!Spec

\* Play never reopens a completed board nor moves a die on it.
THEOREM CompletionStays == Spec => CompletionIsFinal
<1>1. [Next]_vars => (Completed => Completed' /\ rolls' = rolls /\ spent' = spent)
  BY CompletedStep
<1>2. QED
  BY <1>1, PTL DEF Spec, CompletionIsFinal

\* What a game costs.
DiceBudget == spent <= Last /\ landings <= Last + 1

\* A team throws no more dice than the board has cells, and lands at most once
\* more than that: each landing takes a cell, but for the one relanding, and a
\* relanding costs the airport move, which is a landing without a throw.
THEOREM GamesAreShort == Spec => []DiceBudget
<1>1. IInv => DiceBudget
  <2> SUFFICES ASSUME IInv
               PROVE  DiceBudget
    OBVIOUS
  <2> USE DEF IInv
  <2>1. IsFiniteSet(Cells) /\ Cardinality(Cells) = Last
    BY FS_Interval, LastAssumption DEF Cells
  <2>2. /\ Cardinality(consumed) \in Nat /\ Cardinality(relanded) \in Nat
        /\ Cardinality(consumed) <= Last
        /\ Cardinality(consumed) = Last => consumed = Cells
    BY <2>1, FS_Subset, FS_CardinalityType DEF TypeOK
  <2>3. /\ landings = Cardinality(consumed) + Cardinality(relanded)
        /\ Cardinality(relanded) <= 1
        /\ Cardinality(relanded) # 0 => relanded # {}
    BY FS_EmptySet DEF RelandInv
  <2>4. Cardinality(FreeMovesUsed) \in Nat
    BY FreeMovesAreFinite
  <2>5. landings <= Last + 1
    BY <2>2, <2>3, LastAssumption
  <2>6. relanded # {} => airportUsed
    BY DEF PlaceInv
  <2>7. landings + (IF pending = NoRoll THEN 0 ELSE 1)
          = spent + (IF airportUsed THEN 1 ELSE 0) + Cardinality(FreeMovesUsed)
    BY DEF DieLandsOnce
  <2>8. spent \in Nat /\ landings \in Nat /\ Last \in Nat
    BY LastAssumption DEF TypeOK
  <2>9. CASE pending = NoRoll
    BY <2>2, <2>3, <2>4, <2>5, <2>6, <2>7, <2>8, <2>9 DEF DiceBudget
  <2>10. CASE pending # NoRoll
    <3>1. pending.to \in Cells
      BY <2>10 DEF TypeOK, Rolls
    <3>2. CASE pending.to \in consumed
      <4>1. airportUsed /\ Cardinality(relanded) = 0
        BY <2>10, <3>2, FS_EmptySet DEF PlaceInv
      <4>2. QED  BY <2>2, <2>3, <2>4, <2>5, <2>7, <2>8, <2>10, <4>1 DEF DiceBudget
    <3>3. CASE pending.to \notin consumed
      <4>1. Cardinality(consumed) < Last
        BY <2>2, <2>8, <3>1, <3>3
      <4>2. QED  BY <2>2, <2>3, <2>4, <2>5, <2>6, <2>7, <2>8, <2>10, <4>1 DEF DiceBudget
    <3>4. QED  BY <3>2, <3>3
  <2>11. QED  BY <2>9, <2>10
<1>2. QED  BY <1>1, Invariance, PTL

-----------------------------------------------------------------------------
(***************************************************************************)
(* The operators' corrections.                                             *)
(***************************************************************************)

\* A correction leaves every row well typed.
LEMMA OperatorTypes ==
  ASSUME TypeOK, Operator
  PROVE  TypeOK'
<1>1. ASSUME NEW c \in Cells, NEW consume \in BOOLEAN, MovePiece(c, consume)
      PROVE  TypeOK'
  <2>1. ASSUME NEW e \in Choosing
        PROVE  [cards[e] EXCEPT !.status = "used", !.choice = NoChoice] \in CardRows
    BY HeldIsARow DEF Choosing, CardRows, Choices
  <2>2. cards' \in [CellsOf("CHANCE") -> CardRows \cup {NotDrawn}]
    BY <1>1, <2>1 DEF MovePiece, TypeOK
  <2>3. QED
    BY <1>1, <2>2 DEF MovePiece, TypeOK, challengeVars, historyVars
<1>2. ASSUME NEW c \in Cells, NEW consume \in BOOLEAN, ResetCell(c, consume)
      PROVE  TypeOK'
  <2>1. NoCandidate \in [Challenges -> {"NONE", "OFFERED", "SELECTED"}]
    BY DEF NoCandidate
  <2>2. /\ candidate' \in [CellsOf("CHALLENGE") ->
                             [Challenges -> {"NONE", "OFFERED", "SELECTED"}]]
        /\ access' \in [Challenges -> Accesses \cup {NoAccess}]
    BY <1>2, <2>1 DEF ResetCell, DropChallenge, TypeOK
  <2>3. QED
    BY <1>2, <2>2 DEF ResetCell, TypeOK, historyVars
<1>3. ASSUME NEW c \in CellsOf("CHALLENGE"), NEW status \in {"OPENED", "CLEARED"},
             MarkCell(c, status)
      PROVE  TypeOK'
  <2>1. c \in Cells
    BY DEF CellsOf
  <2>2. PICK h \in OpenedAt(c) :
          /\ access' = [access EXCEPT ![h].status = status]
          /\ active' \in {active, NoChallenge, h}
    BY <1>3 DEF MarkCell
  <2>3. access' \in [Challenges -> Accesses \cup {NoAccess}]
    <3>1. [access[h] EXCEPT !.status = status] \in Accesses
      BY <2>1, <2>2, OpenedIsARow DEF Accesses
    <3>2. QED
      BY <2>2, <3>1 DEF OpenedAt, TypeOK
  <2>4. QED
    BY <1>3, <2>1, <2>2, <2>3 DEF MarkCell, OpenedAt, TypeOK, historyVars
<1>4. ASSUME NEW amount \in DiceAdjustments, AdjustDice(amount)
      PROVE  TypeOK'
  <2>1. rolls' \in 0..MaxRolls
    BY <1>4, BoardAssumption, OperatorAssumption DEF AdjustDice, TypeOK
  <2>2. QED
    BY <1>4, <2>1 DEF AdjustDice, TypeOK, challengeVars, historyVars
<1>5. ASSUME NEW h \in Challenges, ChangeVisibility(h)
      PROVE  TypeOK'
  BY <1>5 DEF ChangeVisibility, TypeOK, teamVars, historyVars
<1>6. QED
  BY <1>1, <1>2, <1>3, <1>4, <1>5 DEF Operator

\* A forced move closes the card that waits for a choice; the other
\* corrections touch neither the cards nor the throw.
LEMMA OperatorChoice ==
  ASSUME TypeOK, ChoiceInv, Operator
  PROVE  ChoiceInv'
<1>1. ASSUME NEW c \in Cells, NEW consume \in BOOLEAN, MovePiece(c, consume)
      PROVE  ChoiceInv'
  <2>1. Choosing' = {}
    <3>1. ASSUME NEW e \in CellsOf("CHANCE"), e \in Choosing
          PROVE  cards'[e].status = "used"
      BY <1>1, <3>1, HeldIsARow DEF MovePiece, CardRows, Choosing
    <3>2. ASSUME NEW e \in CellsOf("CHANCE"), e \notin Choosing
          PROVE  cards'[e] = cards[e]
      BY <1>1, <3>2 DEF MovePiece
    <3>3. QED
      BY <3>1, <3>2 DEF Choosing, Held
  <2>2. QED
    BY <2>1 DEF ChoiceInv, ChoiceOwnsPending
<1>2. CASE UNCHANGED <<pending, cards>>
  BY <1>2 DEF ChoiceInv, ChoiceOwnsPending, Choosing, Held
<1>3. QED
  BY <1>1, <1>2 DEF Operator, ResetCell, MarkCell, AdjustDice, ChangeVisibility

\* A correction does not use a free-travel card: the card it closes is a
\* choose card.
LEMMA OperatorFreeMoves ==
  ASSUME TypeOK, ChoiceInv, Operator
  PROVE  UNCHANGED FreeMovesUsed
<1>1. ASSUME NEW c \in Cells, NEW consume \in BOOLEAN, MovePiece(c, consume)
      PROVE  UNCHANGED FreeMovesUsed
  <2>1. ASSUME NEW e \in CellsOf("CHANCE"), e \in Choosing
        PROVE  cards[e].kind # "FREE_MOVE" /\ cards'[e].kind # "FREE_MOVE"
    BY <1>1, <2>1, HeldIsARow DEF MovePiece, CardRows, ChoiceInv, Choosing
  <2>2. ASSUME NEW e \in CellsOf("CHANCE"), e \notin Choosing
        PROVE  cards'[e] = cards[e]
    BY <1>1, <2>2 DEF MovePiece
  <2>3. QED
    BY <2>1, <2>2 DEF FreeMovesUsed
<1>2. CASE UNCHANGED cards
  BY <1>2 DEF FreeMovesUsed
<1>3. QED
  BY <1>1, <1>2 DEF Operator, ResetCell, MarkCell, AdjustDice, ChangeVisibility

\* What of the challenges a step can change.
LEMMA ChallengeSteps ==
  ASSUME [Next]_vars
  PROVE  \/ UNCHANGED <<active, candidate, access, published>>
         \/ ListCandidates
         \/ \E h \in Challenges : OpenChallenge(h)
         \/ \E h \in Challenges, inTime \in BOOLEAN : SolveChallenge(h, inTime)
<1> USE DEF challengeVars, teamVars
<1>1. CASE Dice \/ UNCHANGED vars
  BY <1>1 DEF Dice, Recharge, RollAndLand, RollAndHold, ConfirmRoll, vars
<1>2. CASE Chance
  BY <1>2 DEF Chance, DrawCard, DiscardCard, UseReRoll, UseMoveOffset, UseFreeMove,
              UseExtraRoll, UseRollTwice, ConfirmChoice
<1>3. CASE Cell
  BY <1>3 DEF Cell, AirportMove, SpinRoulette
<1>4. QED
  BY <1>1, <1>2, <1>3 DEF Next

\* A cell with nothing opened holds the piece until its team opens something.
LEMMA UnopenedHoldsThePiece ==
  ASSUME [Next]_vars, ChallengeNotSelected, pending = NoRoll
  PROVE  UNCHANGED <<position, pending>>
<1> USE DEF teamVars
<1>1. CASE Dice \/ UNCHANGED vars
  BY <1>1 DEF Dice, Recharge, RollAndLand, RollAndHold, CanRoll, ConfirmRoll,
              MayConfirmRoll, vars
<1>2. CASE Chance
  BY <1>2 DEF Chance, DrawCard, DiscardCard, UseReRoll, UseMoveOffset, UseFreeMove,
              UseExtraRoll, UseRollTwice, CanRoll, ConfirmChoice, MayUse,
              PostRollKinds, ChallengeNotSelected
<1>3. CASE Cell
  BY <1>3, PickingKeepsTheBoard
     DEF Cell, AirportMove, SpinRoulette, SolveChallenge, ChallengeNotSelected
<1>4. QED
  BY <1>1, <1>2, <1>3 DEF Next

\* ActiveIsOpened, with why its exception lasts: no throw can take the piece
\* away from the cell where a solved challenge was made active again.
ActiveInv ==
  active # NoChallenge =>
    \/ access[active].status = "OPENED"
    \/ /\ access[active].status = "CLEARED"
       /\ access[active].cell # position
       /\ ChallengeNotSelected
       /\ pending = NoRoll

\* What the team's own handlers do to the active challenge: an opening sets it,
\* to an access that may be old; the solve ends it.
LEMMA ActiveByPlay ==
  ASSUME TypeOK, ActiveInv, [Next]_vars
  PROVE  ActiveInv'
<1>1. CASE UNCHANGED <<active, access>>
  BY <1>1, UnopenedHoldsThePiece DEF ActiveInv, ChallengeNotSelected, OpenedAt
<1>2. CASE ListCandidates
  BY <1>1, <1>2 DEF ListCandidates, teamVars
<1>3. ASSUME NEW h \in Challenges, OpenChallenge(h)
      PROVE  ActiveInv'
  <2>1. position \in CellsOf("CHALLENGE")
    BY <1>3 DEF OpenChallenge, ChallengeNotSelected, CellsOf, TypeOK
  <2>2. active' = h /\ UNCHANGED <<position, pending>> /\ pending = NoRoll
    BY <1>3 DEF OpenChallenge
  <2>3. CASE access[h] = NoAccess
    BY <1>3, <2>2, <2>3 DEF OpenChallenge, TypeOK, ActiveInv
  <2>4. CASE access[h] # NoAccess
    <3>1. access' = access /\ access[h].status \in {"OPENED", "CLEARED"}
      BY <1>3, <2>4 DEF OpenChallenge, TypeOK, Accesses
    <3>2. access[h].cell # position /\ ChallengeNotSelected
      BY <1>3 DEF OpenChallenge, ChallengeNotSelected, OpenedAt
    <3>3. ChallengeNotSelected'
      BY <2>2, <3>1, <3>2 DEF ChallengeNotSelected, OpenedAt
    <3>4. QED
      BY <2>2, <3>1, <3>2, <3>3 DEF ActiveInv
  <2>5. QED  BY <2>3, <2>4
<1>4. ASSUME NEW h \in Challenges, NEW inTime \in BOOLEAN, SolveChallenge(h, inTime)
      PROVE  ActiveInv'
  <2>1. /\ access' = [access EXCEPT ![h].status = "CLEARED"]
        /\ active' = IF active = h THEN NoChallenge ELSE active
        /\ UNCHANGED <<position, pending>>
    BY <1>4 DEF SolveChallenge
  <2>2. \A g \in Challenges : access'[g].cell = access[g].cell
    BY <1>4, <2>1 DEF SolveChallenge, TypeOK, Accesses
  <2>3. active' # NoChallenge => active' = active /\ access'[active] = access[active]
    BY <2>1 DEF TypeOK
  <2>4. ChallengeNotSelected => ChallengeNotSelected'
    BY <2>1, <2>2 DEF ChallengeNotSelected, OpenedAt
  <2>5. QED
    BY <2>1, <2>3, <2>4 DEF ActiveInv
<1>5. QED
  BY <1>1, <1>2, <1>3, <1>4, ChallengeSteps

\* What a correction does to it: a challenge that is dropped or cleared takes
\* the timer with it, and so does a forced move.
LEMMA ActiveByOperator ==
  ASSUME TypeOK, ActiveInv, Operator
  PROVE  ActiveInv'
<1>1. ASSUME NEW c \in Cells, NEW consume \in BOOLEAN, MovePiece(c, consume)
      PROVE  ActiveInv'
  <2>1. access' = access /\ pending' = NoRoll
    BY <1>1 DEF MovePiece, challengeVars
  <2>2. active' # NoChallenge => UNCHANGED <<active, position>>
    BY <1>1 DEF MovePiece
  <2>3. QED
    BY <2>1, <2>2 DEF ActiveInv, ChallengeNotSelected, OpenedAt
<1>2. ASSUME NEW c \in Cells, NEW consume \in BOOLEAN, ResetCell(c, consume)
      PROVE  ActiveInv'
  <2>1. /\ access' = [h \in Challenges |-> IF h \in OpenedAt(c) THEN NoAccess ELSE access[h]]
        /\ active' = IF active \in OpenedAt(c) THEN NoChallenge ELSE active
        /\ UNCHANGED <<position, pending>>
    BY <1>2 DEF ResetCell, DropChallenge
  <2>2. active' # NoChallenge => active' = active /\ access'[active] = access[active]
    BY <2>1 DEF TypeOK
  <2>3. ChallengeNotSelected => ChallengeNotSelected'
    <3>1. \A h \in Challenges : access'[h] = access[h] \/ access'[h].cell = NoCell
      BY <2>1 DEF NoAccess
    <3>2. position # NoCell
      BY StartIsACell DEF TypeOK
    <3>3. QED
      BY <2>1, <3>1, <3>2 DEF ChallengeNotSelected, OpenedAt
  <2>4. QED
    BY <2>1, <2>2, <2>3 DEF ActiveInv
<1>3. ASSUME NEW c \in CellsOf("CHALLENGE"), NEW status \in {"OPENED", "CLEARED"},
             MarkCell(c, status)
      PROVE  ActiveInv'
  <2>1. PICK h \in OpenedAt(c) :
          /\ access' = [access EXCEPT ![h].status = status]
          /\ active' = IF status = "CLEARED"
                       THEN IF active = h THEN NoChallenge ELSE active
                       ELSE IF position = c /\ active = NoChallenge THEN h ELSE active
          /\ UNCHANGED <<position, pending>>
    BY <1>3 DEF MarkCell
  <2>2. h \in Challenges /\ access[h] \in Accesses
    BY <2>1, OpenedIsARow DEF OpenedAt, CellsOf
  <2>3. \A g \in Challenges : access'[g].cell = access[g].cell
    BY <2>1, <2>2 DEF TypeOK, Accesses
  <2>4. ChallengeNotSelected => ChallengeNotSelected'
    BY <2>1, <2>3 DEF ChallengeNotSelected, OpenedAt
  <2>5. CASE active' = h
    <3>1. status = "OPENED"
      BY <2>1, <2>2, <2>5, BoardAssumption
    <3>2. access'[h].status = "OPENED"
      BY <2>1, <2>2, <3>1 DEF TypeOK, Accesses
    <3>3. QED
      BY <2>5, <3>2 DEF ActiveInv
  <2>6. CASE active' # h
    <3>1. active' # NoChallenge => active' = active /\ access'[active] = access[active]
      BY <2>1, <2>2, <2>6 DEF TypeOK
    <3>2. QED
      BY <2>1, <2>4, <3>1 DEF ActiveInv
  <2>7. QED  BY <2>5, <2>6
<1>4. ASSUME \/ \E amount \in DiceAdjustments : AdjustDice(amount)
             \/ \E h \in Challenges : ChangeVisibility(h)
      PROVE  ActiveInv'
  BY <1>4 DEF AdjustDice, ChangeVisibility, challengeVars, teamVars, ActiveInv,
              ChallengeNotSelected, OpenedAt
<1>5. QED
  BY <1>1, <1>2, <1>3, <1>4 DEF Operator

-----------------------------------------------------------------------------
(***************************************************************************)
(* Challenges of a difficulty and cells of it.  While a cell of a ready    *)
(* board has nothing opened, fewer challenges of its difficulty are opened *)
(* than are published, whatever the other cells have taken.                *)
(***************************************************************************)
\* What is opened or offered at a cell is of its difficulty, and no cell has
\* two accesses.
SlotInv ==
  /\ \A h \in Challenges : access[h] # NoAccess => LevelOf[h] = CellLevel[access[h].cell]
  /\ \A g, h \in Challenges :
       access[g] # NoAccess /\ access[g].cell = access[h].cell => g = h
  /\ \A c \in CellsOf("CHALLENGE"), h \in Challenges :
       candidate[c][h] # "NONE" => LevelOf[h] = CellLevel[c]

\* In play every selected candidate has its access; an operator may take it.
SelectedInv ==
  \A c \in CellsOf("CHALLENGE"), h \in Challenges :
    candidate[c][h] = "SELECTED" => access[h] # NoAccess

\* A listing keeps what it keeps and adds offers of the cell's difficulty.
LEMMA ListedCandidates ==
  ASSUME TypeOK, ListCandidates,
         NEW c \in CellsOf("CHALLENGE"), NEW h \in Challenges
  PROVE  \/ candidate'[c][h] = "NONE"
         \/ candidate'[c][h] = candidate[c][h]
         \/ c = position /\ h \in Free /\ candidate'[c][h] = "OFFERED"
<1>1. CASE OpenedAt(position) # {}
  BY <1>1 DEF ListCandidates, NoCandidate, TypeOK
<1>2. CASE OpenedAt(position) = {}
  <2>1. PICK new \in SUBSET Free :
          candidate' = [candidate EXCEPT ![position] =
                          [g \in Challenges |-> CASE g \in new  -> "OFFERED"
                                                  [] g \in Kept -> candidate[position][g]
                                                  [] OTHER      -> "NONE"]]
    BY <1>2 DEF ListCandidates, Samples
  <2>2. CASE c # position
    BY <2>1, <2>2 DEF TypeOK
  <2>3. CASE c = position
    <3>1. candidate'[c][h] = CASE h \in new  -> "OFFERED"
                               [] h \in Kept -> candidate[position][h]
                               [] OTHER      -> "NONE"
      BY <2>1, <2>3 DEF TypeOK
    <3>2. CASE h \in new
      BY <2>3, <3>1, <3>2
    <3>3. CASE h \notin new
      BY <2>3, <3>1, <3>3
    <3>4. QED  BY <3>2, <3>3
  <2>4. QED  BY <2>2, <2>3
<1>3. QED  BY <1>1, <1>2

\* An opening selects the candidate and keeps an access that is there.
LEMMA OpenedRows ==
  ASSUME TypeOK, NEW h \in Challenges, OpenChallenge(h)
  PROVE  /\ position \in CellsOf("CHALLENGE")
         /\ candidate[position][h] = "OFFERED"
         /\ \A c \in CellsOf("CHALLENGE"), g \in Challenges :
              candidate'[c][g] = IF c = position /\ g = h THEN "SELECTED" ELSE candidate[c][g]
         /\ \A g \in Challenges :
              access'[g] = IF g = h /\ access[h] = NoAccess
                           THEN [cell |-> position, status |-> "OPENED"]
                           ELSE access[g]
         /\ \A g \in Challenges : access[g].cell # position
<1>1. position \in CellsOf("CHALLENGE")
  BY DEF OpenChallenge, ChallengeNotSelected, CellsOf, TypeOK
<1>2. candidate' = [candidate EXCEPT ![position][h] = "SELECTED"]
  BY DEF OpenChallenge
<1>3. access' = IF access[h] = NoAccess
                THEN [access EXCEPT ![h] = [cell |-> position, status |-> "OPENED"]]
                ELSE access
  BY DEF OpenChallenge
<1>4. \A c \in CellsOf("CHALLENGE"), g \in Challenges :
        candidate'[c][g] = IF c = position /\ g = h THEN "SELECTED" ELSE candidate[c][g]
  BY <1>1, <1>2 DEF TypeOK
<1>5. \A g \in Challenges :
        access'[g] = IF g = h /\ access[h] = NoAccess
                     THEN [cell |-> position, status |-> "OPENED"]
                     ELSE access[g]
  BY <1>3 DEF TypeOK
<1>6. QED
  BY <1>1, <1>4, <1>5 DEF OpenChallenge, ChallengeNotSelected, OpenedAt

\* A row that changes its status only is the row of the same cell.
LEMMA MarkedRows ==
  ASSUME TypeOK, NEW h \in Challenges, access[h] # NoAccess,
         NEW status \in {"OPENED", "CLEARED"},
         access' = [access EXCEPT ![h].status = status]
  PROVE  \A g \in Challenges : /\ access'[g].cell = access[g].cell
                               /\ access'[g] # NoAccess <=> access[g] # NoAccess
<1>1. access[h] \in Accesses
  BY DEF TypeOK
<1>2. access'[h] = [access[h] EXCEPT !.status = status]
  BY DEF TypeOK
<1>3. access'[h].cell = access[h].cell /\ access'[h].status = status
  BY <1>1, <1>2 DEF Accesses
<1>4. access'[h] # NoAccess
  BY <1>3 DEF NoAccess
<1>5. \A g \in Challenges : g # h => access'[g] = access[g]
  BY DEF TypeOK
<1>6. QED
  BY <1>3, <1>4, <1>5

\* Play keeps difficulties and cells apart, and loses no selection.
LEMMA SlotByPlay ==
  ASSUME TypeOK, SlotInv, [Next]_vars
  PROVE  SlotInv' /\ (SelectedInv => SelectedInv')
<1>1. CASE UNCHANGED <<candidate, access>>
  BY <1>1 DEF SlotInv, SelectedInv
<1>2. CASE ListCandidates
  <2>1. UNCHANGED access
    BY <1>2 DEF ListCandidates
  <2>2. ASSUME NEW c \in CellsOf("CHALLENGE"), NEW h \in Challenges,
               candidate'[c][h] # "NONE"
        PROVE  LevelOf[h] = CellLevel[c]
    BY <1>2, <2>2, ListedCandidates DEF SlotInv, Free, Playable
  <2>3. ASSUME SelectedInv, NEW c \in CellsOf("CHALLENGE"), NEW h \in Challenges,
               candidate'[c][h] = "SELECTED"
        PROVE  access[h] # NoAccess
    BY <1>2, <2>3, ListedCandidates DEF SelectedInv
  <2>4. QED
    BY <2>1, <2>2, <2>3 DEF SlotInv, SelectedInv
<1>3. ASSUME NEW h \in Challenges, OpenChallenge(h)
      PROVE  SlotInv' /\ (SelectedInv => SelectedInv')
  <2>1. LevelOf[h] = CellLevel[position]
    BY <1>3, OpenedRows DEF SlotInv
  <2>2. ASSUME NEW g \in Challenges, access'[g] # NoAccess
        PROVE  LevelOf[g] = CellLevel[access'[g].cell]
    BY <1>3, <2>1, <2>2, OpenedRows DEF SlotInv
  <2>3. ASSUME NEW f \in Challenges, NEW g \in Challenges,
               access'[f] # NoAccess, access'[f].cell = access'[g].cell
        PROVE  f = g
    <3> DEFINE New == [cell |-> position, status |-> "OPENED"]
    <3>1. \A e \in Challenges :
            /\ access[e].cell # position
            /\ access'[e] = IF e = h /\ access[h] = NoAccess THEN New ELSE access[e]
      BY <1>3, OpenedRows
    <3>2. New.cell = position
      OBVIOUS
    <3> HIDE DEF New
    <3>3. QED
      BY <2>3, <3>1, <3>2 DEF SlotInv
  <2>4. ASSUME NEW c \in CellsOf("CHALLENGE"), NEW g \in Challenges,
               candidate'[c][g] # "NONE"
        PROVE  LevelOf[g] = CellLevel[c]
    BY <1>3, <2>1, <2>4, OpenedRows DEF SlotInv
  <2>5. ASSUME SelectedInv, NEW c \in CellsOf("CHALLENGE"), NEW g \in Challenges,
               candidate'[c][g] = "SELECTED"
        PROVE  access'[g] # NoAccess
    <3>1. \A e \in Challenges :
            /\ access[e] # NoAccess => access'[e] = access[e]
            /\ e = h /\ access[h] = NoAccess => access'[e].status = "OPENED"
      BY <1>3, OpenedRows
    <3>2. g # h => access[g] # NoAccess
      BY <1>3, <2>5, OpenedRows DEF SelectedInv
    <3>3. QED
      BY <3>1, <3>2 DEF NoAccess
  <2>6. QED
    BY <2>2, <2>3, <2>4, <2>5 DEF SlotInv, SelectedInv
<1>4. ASSUME NEW h \in Challenges, NEW inTime \in BOOLEAN, SolveChallenge(h, inTime)
      PROVE  SlotInv' /\ (SelectedInv => SelectedInv')
  <2>1. \A g \in Challenges : /\ access'[g].cell = access[g].cell
                              /\ access'[g] # NoAccess <=> access[g] # NoAccess
    BY <1>4, MarkedRows DEF SolveChallenge
  <2>2. UNCHANGED candidate
    BY <1>4 DEF SolveChallenge
  <2>3. QED
    BY <2>1, <2>2 DEF SlotInv, SelectedInv
<1>5. QED
  BY <1>1, <1>2, <1>3, <1>4, ChallengeSteps

\* So do the corrections, but for the selection of a dropped challenge at
\* another cell.
LEMMA SlotByOperator ==
  ASSUME TypeOK, SlotInv, Operator
  PROVE  SlotInv'
<1>1. ASSUME NEW c \in Cells, NEW consume \in BOOLEAN, ResetCell(c, consume)
      PROVE  SlotInv'
  <2>1. \A h \in Challenges : access'[h] = IF h \in OpenedAt(c) THEN NoAccess ELSE access[h]
    BY <1>1 DEF ResetCell, DropChallenge
  <2>2. \A e \in CellsOf("CHALLENGE"), h \in Challenges :
          candidate'[e][h] # "NONE" => candidate'[e][h] = candidate[e][h]
    BY <1>1 DEF ResetCell, DropChallenge, NoCandidate
  <2>3. \A h \in Challenges : access[h] # NoAccess => access[h].cell # NoCell
    BY StartIsACell DEF TypeOK, Accesses, CellsOf
  <2>4. NoAccess.cell = NoCell
    BY DEF NoAccess
  <2>5. \A g, h \in Challenges :
          access'[g] # NoAccess /\ access'[g].cell = access'[h].cell => g = h
    BY <2>1, <2>3, <2>4 DEF SlotInv
  <2>6. \A h \in Challenges : access'[h] # NoAccess => LevelOf[h] = CellLevel[access'[h].cell]
    BY <2>1 DEF SlotInv
  <2>7. QED
    BY <2>2, <2>5, <2>6 DEF SlotInv
<1>2. ASSUME NEW c \in CellsOf("CHALLENGE"), NEW status \in {"OPENED", "CLEARED"},
             MarkCell(c, status)
      PROVE  SlotInv'
  <2>1. PICK h \in OpenedAt(c) : access' = [access EXCEPT ![h].status = status]
    BY <1>2 DEF MarkCell
  <2>2. h \in Challenges /\ access[h] # NoAccess
    BY <2>1, StartIsACell DEF OpenedAt, CellsOf, NoAccess
  <2>3. \A g \in Challenges : /\ access'[g].cell = access[g].cell
                              /\ access'[g] # NoAccess <=> access[g] # NoAccess
    BY <2>1, <2>2, MarkedRows
  <2>4. UNCHANGED candidate
    BY <1>2 DEF MarkCell
  <2>5. QED
    BY <2>3, <2>4 DEF SlotInv
<1>3. CASE UNCHANGED <<candidate, access>>
  BY <1>3 DEF SlotInv
<1>4. QED
  BY <1>1, <1>2, <1>3 DEF Operator, MovePiece, AdjustDice, ChangeVisibility, challengeVars

\* Nothing is opened or offered when the team spawns.
LEMMA SlotInit == Init => SlotInv /\ SelectedInv
<1> SUFFICES ASSUME Init
             PROVE  SlotInv /\ SelectedInv
  OBVIOUS
<1>1. /\ \A h \in Challenges : access[h] = NoAccess
      /\ \A c \in CellsOf("CHALLENGE"), h \in Challenges : candidate[c][h] = "NONE"
  BY DEF Init, NoCandidate
<1>2. QED
  BY <1>1 DEF SlotInv, SelectedInv

-----------------------------------------------------------------------------
\* What holds of a game with corrections.
OperatedInv ==
  /\ TypeOK
  /\ forfeited \in Nat
  /\ ChoiceInv
  /\ ActiveInv
  /\ SlotInv
  /\ DieLandsOrIsForfeited

\* The throw a forced move drops is the one it counts.
LEMMA OperatorForfeits ==
  ASSUME OperatedInv, Operator
  PROVE  forfeited' \in Nat /\ DieLandsOrIsForfeited'
<1> USE DEF OperatedInv
<1>1. Cardinality(FreeMovesUsed) \in Nat /\ UNCHANGED FreeMovesUsed
  BY FreeMovesAreFinite, OperatorFreeMoves
<1>2. ASSUME NEW c \in Cells, NEW consume \in BOOLEAN, MovePiece(c, consume)
      PROVE  forfeited' \in Nat /\ DieLandsOrIsForfeited'
  <2>1. {landings, spent, forfeited} \subseteq Nat
    BY DEF TypeOK
  <2>2. /\ UNCHANGED <<landings, spent, airportUsed>> /\ pending' = NoRoll
        /\ forfeited' = forfeited + IF pending = NoRoll THEN 0 ELSE 1
    BY <1>2 DEF MovePiece, historyVars
  <2>3. Cardinality(FreeMovesUsed)' = Cardinality(FreeMovesUsed)
    BY <1>1
  <2>4. forfeited' \in Nat
    BY <2>1, <2>2
  <2>5. DieLandsOrIsForfeited'
    BY <1>1, <2>1, <2>2, <2>3 DEF DieLandsOrIsForfeited
  <2>6. QED  BY <2>4, <2>5
<1>3. CASE UNCHANGED <<landings, forfeited, pending, spent, airportUsed>>
  BY <1>1, <1>3 DEF DieLandsOrIsForfeited
<1>4. QED
  BY <1>2, <1>3
     DEF Operator, ResetCell, MarkCell, AdjustDice, ChangeVisibility, historyVars,
         teamVars

\* The team spawns with no timer, no throw and nothing forfeited.
LEMMA OperatedInit == OperatorInit => OperatedInv
<1> SUFFICES ASSUME OperatorInit
             PROVE  OperatedInv
  OBVIOUS
<1>1. IInv
  BY InitInv DEF OperatorInit
<1>2. ActiveInv
  BY DEF OperatorInit, Init, ActiveInv
<1>3. DieLandsOrIsForfeited
  BY <1>1 DEF OperatorInit, IInv, DieLandsOnce, DieLandsOrIsForfeited, TypeOK
<1>4. QED
  BY <1>1, <1>2, <1>3, SlotInit DEF OperatorInit, IInv, OperatedInv

\* The team's steps and the corrections keep it together.
LEMMA OperatedStep == OperatedInv /\ [OperatorNext]_allVars => OperatedInv'
<1> SUFFICES ASSUME OperatedInv, [OperatorNext]_allVars
             PROVE  OperatedInv'
  OBVIOUS
<1>1. ASSUME [Next]_vars, UNCHANGED operatorVars
      PROVE  OperatedInv'
  <2>1. TypeOK' /\ ChoiceInv' /\ ActiveInv' /\ SlotInv'
    BY <1>1, TypeStep, ChoiceStep, ActiveByPlay, SlotByPlay DEF OperatedInv
  <2>2. Balance' = Balance
    BY <1>1, BalanceStep DEF OperatedInv
  <2>3. DieLandsOrIsForfeited'
    <3>1. /\ {landings, spent, forfeited} \subseteq Nat
          /\ {landings', spent'} \subseteq Nat /\ forfeited' = forfeited
      BY <1>1, <2>1 DEF OperatedInv, TypeOK, operatorVars
    <3>2. Balance = -forfeited
      BY <3>1, FreeMovesAreFinite DEF OperatedInv, Balance, DieLandsOrIsForfeited
    <3>3. QED
      BY <2>2, <3>1, <3>2, FreeMovesAreFinite DEF Balance, DieLandsOrIsForfeited
  <2>4. QED
    BY <1>1, <2>1, <2>3 DEF OperatedInv, operatorVars
<1>2. CASE Operator
  BY <1>2, OperatorTypes, OperatorChoice, ActiveByOperator, SlotByOperator,
     OperatorForfeits
     DEF OperatedInv
<1>3. QED
  BY <1>1, <1>2 DEF OperatorNext, Play, allVars

\* Every reachable state of a game with corrections satisfies it.
LEMMA OperatedInvariance == OperatorSpec => []OperatedInv
BY OperatedInit, OperatedStep, PTL DEF OperatorSpec

\* However often the operators correct a board, every throw lands once or is
\* the throw that a forced move dropped.
THEOREM ThrowsLandOrAreForfeited == OperatorSpec => []DieLandsOrIsForfeited
<1>1. OperatedInv => DieLandsOrIsForfeited
  BY DEF OperatedInv
<1>2. QED  BY <1>1, OperatedInvariance, PTL

\* The solve timer never runs for a challenge that is solved, dropped or not
\* opened.
THEOREM TimersRunForOpened == OperatorSpec => []ActiveIsOpened
<1>1. OperatedInv => ActiveIsOpened
  BY DEF OperatedInv, ActiveInv, ActiveIsOpened
<1>2. QED  BY <1>1, OperatedInvariance, PTL

\* No correction leaves open numbers whose throw is gone.
THEOREM CorrectionsKeepChoices == OperatorSpec => []ChoiceOwnsPending
<1>1. OperatedInv => ChoiceOwnsPending
  BY DEF OperatedInv, ChoiceInv
<1>2. QED  BY <1>1, OperatedInvariance, PTL

\* Open numbers of either kind can be walked from where the throw was made.
LEMMA PendingIsResolvable == TypeOK /\ ChoiceOwnsPending => PendingCanBeResolved
<1> SUFFICES ASSUME TypeOK, ChoiceOwnsPending
             PROVE  PendingCanBeResolved
  OBVIOUS
<1> SUFFICES ASSUME pending # NoRoll, consumed # Cells, NEW c \in Choosing, NEW which \in 1..2
             PROVE  ChoiceEnds(c, which) # {}
  BY DEF PendingCanBeResolved, MayConfirmRoll
<1>1. cards[c].choice \in DiceTotals \X DiceTotals
  BY HeldIsARow DEF Choosing, CardRows, Choices
<1>2. cards[c].choice[which] \in Nat \ {0}
  <2>1. cards[c].choice[which] \in DiceTotals
    BY <1>1
  <2>2. QED  BY <2>1, BoardAssumption
<1>3. pending.from \in Cells /\ consumed \in SUBSET Cells
  BY DEF TypeOK, Rolls
<1>4. \E e \in Cells \ consumed : ChoiceEnds(c, which) = {e}
  <2> DEFINE n == cards[c].choice[which]
             from == pending.from
  <2>1. ChoiceEnds(c, which) = Destinations(consumed, from, n, Forward)
    BY DEF ChoiceEnds
  <2>2. n \in Nat \ {0} /\ from \in Cells
    BY <1>2, <1>3
  <2> HIDE DEF n, from
  <2>3. QED  BY <1>3, <2>1, <2>2, OneDestination
<1>5. QED  BY <1>4

\* Whatever the operators correct, a team with a pending throw and a free cell
\* can end it: the throw is confirmed, or either of the two open numbers, whose
\* walks find a cell.
THEOREM PendingThrowsEnd == OperatorSpec => []PendingCanBeResolved
<1>1. OperatedInv => PendingCanBeResolved
  BY PendingIsResolvable DEF OperatedInv, ChoiceInv
<1>2. QED  BY <1>1, OperatedInvariance, PTL

\* A finite set has subsets of every size.
LEMMA SubsetOfSize ==
  ASSUME NEW S, IsFiniteSet(S), NEW k \in Nat, k <= Cardinality(S)
  PROVE  \E T \in SUBSET S : Cardinality(T) = k
<1>1. Cardinality(S) \in Nat /\ ExistsBijection(1..Cardinality(S), S)
  BY FS_CardinalityType
<1>2. PICK f \in Bijection(1..Cardinality(S), S) : TRUE
  BY <1>1 DEF ExistsBijection
<1> DEFINE T == {f[i] : i \in 1..k}
           g == [i \in 1..k |-> f[i]]
<1>3. 1..k \subseteq 1..Cardinality(S)
  BY <1>1
<1>4. /\ f \in [1..Cardinality(S) -> S]
      /\ \A i, j \in 1..Cardinality(S) : f[i] = f[j] => i = j
  BY <1>2 DEF Bijection, Injection, IsInjective
<1>5. T \in SUBSET S
  BY <1>3, <1>4
<1>6. g \in Bijection(1..k, T)
  BY <1>3, <1>4 DEF Bijection, Injection, Surjection, IsInjective
<1>7. IsFiniteSet(1..k) /\ Cardinality(1..k) = k
  BY FS_Interval
<1> HIDE DEF T, g
<1>8. Cardinality(T) = k
  BY <1>6, <1>7, FS_Bijection DEF ExistsBijection
<1>9. QED  BY <1>5, <1>8

\* On a ready board a cell with nothing opened finds a challenge that is
\* published and nowhere opened: the others have room in the other cells.
LEMMA SpareChallenge ==
  ASSUME TypeOK, SlotInv, Ready, ChallengeNotSelected
  PROVE  \E h \in Playable(CellLevel[position]) : access[h] = NoAccess
<1> DEFINE level == CellLevel[position]
           S == Playable(level)
           L == LevelCells(level)
           T == L \ {position}
           f == [h \in S |-> access[h].cell]
<1>1. position \in CellsOf("CHALLENGE")
  BY DEF ChallengeNotSelected, CellsOf, TypeOK
<1>2. IsFiniteSet(S)
  BY BoardAssumption, FS_Subset DEF Playable, TypeOK
<1>3. IsFiniteSet(L) /\ position \in L
  BY <1>1, BoardIsFinite, FS_Subset DEF LevelCells, CellsOf
<1>4. Cardinality(L) <= Cardinality(S)
  BY <1>1 DEF Ready
<1> SUFFICES ASSUME \A h \in S : access[h] # NoAccess
             PROVE  FALSE
  OBVIOUS
<1>5. f \in [S -> T]
  <2> SUFFICES ASSUME NEW h \in S
               PROVE  access[h].cell \in T
    OBVIOUS
  <2>1. h \in Challenges /\ LevelOf[h] = level /\ access[h] \in Accesses
    BY DEF Playable, TypeOK
  <2>2. CellLevel[access[h].cell] = level /\ access[h].cell \in CellsOf("CHALLENGE")
    BY <2>1 DEF SlotInv, Accesses
  <2>3. access[h].cell # position
    BY <2>1 DEF ChallengeNotSelected, OpenedAt
  <2>4. QED  BY <2>2, <2>3 DEF LevelCells
<1>6. \A g, h \in S : f[g] = f[h] => g = h
  BY DEF SlotInv, Playable, TypeOK
<1> HIDE DEF S, L, f
<1>7. /\ IsFiniteSet(T)
      /\ Cardinality(L) \in Nat /\ Cardinality(S) \in Nat
      /\ Cardinality(T) = Cardinality(L) - 1
  BY <1>2, <1>3, FS_RemoveElement, FS_CardinalityType
<1> HIDE DEF T
<1>8. Cardinality(T) < Cardinality(S)
  BY <1>4, <1>7
<1>9. \E g, h \in S : g # h /\ f[g] = f[h]
  BY <1>2, <1>5, <1>7, <1>8, FS_PigeonHole
<1>10. QED  BY <1>6, <1>9

\* Something can be opened at the cell: at once, or when the candidates have
\* been looked at.
CanPick ==
  \/ \E h \in published : candidate[position][h] = "OFFERED"
  \/ \E new \in Samples : new # {}

\* A candidate that was selected here lost its access: it belonged to another
\* cell, which an operator has reset.  It keeps a place and cannot be opened.
SelectionLost ==
  \E h \in Challenges : candidate[position][h] = "SELECTED" /\ access[h] = NoAccess

LEMMA ReadyOffers ==
  ASSUME TypeOK, SlotInv, Ready, ChallengeNotSelected, ~SelectionLost
  PROVE  CanPick
<1> SUFFICES ASSUME ~\E h \in published : candidate[position][h] = "OFFERED"
             PROVE  \E new \in Samples : new # {}
  BY DEF CanPick
<1>1. Kept = {}
  BY DEF Kept, SelectionLost
<1>2. Free # {} /\ Free \subseteq Challenges
  BY <1>1, SpareChallenge DEF Free, Playable, TypeOK
<1>3. IsFiniteSet(Free) /\ Cardinality(Free) \in Nat /\ Cardinality(Free) # 0
  BY <1>2, BoardAssumption, FS_Subset, FS_CardinalityType, FS_EmptySet
<1>4. Cardinality(Kept) = 0 /\ Offers \in Nat \ {0}
  BY <1>1, FS_EmptySet, BoardAssumption
<1>5. CASE Cardinality(Free) <= Offers
  <2>1. Free \in Samples
    BY <1>3, <1>4, <1>5 DEF Samples
  <2>2. QED  BY <1>2, <2>1
<1>6. CASE ~(Cardinality(Free) <= Offers)
  <2>1. PICK new \in SUBSET Free : Cardinality(new) = Offers
    BY <1>3, <1>4, <1>6, SubsetOfSize
  <2>2. new \in Samples
    BY <1>3, <1>4, <1>6, <2>1 DEF Samples
  <2>3. new # {}
    BY <1>4, <2>1, FS_EmptySet
  <2>4. QED  BY <2>2, <2>3
<1>7. QED  BY <1>5, <1>6

\* What a team on an unfinished board can do next.
HasAMove ==
  \/ MayConfirmRoll
  \/ pending # NoRoll /\ \E c \in Choosing : \A which \in 1..2 : ChoiceEnds(c, which) # {}
  \/ pending = NoRoll /\ ChallengeNotSelected /\ CanPick
  \/ CanRoll /\ \A n \in DiceTotals : Destinations(consumed, position, n, Forward) # {}
  \/ pending = NoRoll /\ ~ChallengeNotSelected /\ rolls = 0

\* A throw finds a cell on an unfinished board, whatever the dice show.
LEMMA ForwardFindsACell ==
  \A gone \in SUBSET Cells, from \in Cells, n \in Nat \ {0} :
    gone # Cells => Destinations(gone, from, n, Forward) # {}
<1> SUFFICES ASSUME NEW gone \in SUBSET Cells, gone # Cells, NEW from \in Cells,
                    NEW n \in Nat \ {0}
             PROVE  Destinations(gone, from, n, Forward) # {}
  OBVIOUS
<1>1. \E c \in Cells \ gone : Destinations(gone, from, n, Forward) = {c}
  BY OneDestination
<1>2. QED  BY <1>1

LEMMA ThrowsLand ==
  consumed \in SUBSET Cells /\ consumed # Cells /\ position \in Cells =>
    \A n \in DiceTotals : Destinations(consumed, position, n, Forward) # {}
<1>1. \A n \in DiceTotals : n \in Nat \ {0}
  BY BoardAssumption
<1>2. consumed \in SUBSET Cells /\ consumed # Cells /\ position \in Cells =>
        \A n \in Nat \ {0} : Destinations(consumed, position, n, Forward) # {}
  BY ForwardFindsACell
<1>3. QED  BY <1>1, <1>2

LEMMA MovesExist ==
  ASSUME TypeOK, ChoiceOwnsPending, SlotInv, Ready, ~Completed,
         ChallengeNotSelected => ~SelectionLost
  PROVE  HasAMove
<1>1. consumed \in SUBSET Cells /\ position \in Cells /\ rolls \in Nat
  BY BoardAssumption DEF TypeOK
<1>2. consumed # Cells
  BY DEF Completed, CompletedBy, CompletionCells
<1>3. CASE pending # NoRoll
  BY <1>2, <1>3, PendingIsResolvable DEF PendingCanBeResolved, HasAMove
<1>4. CASE pending = NoRoll /\ ChallengeNotSelected
  BY <1>4, ReadyOffers DEF HasAMove
<1>5. CASE pending = NoRoll /\ ~ChallengeNotSelected /\ rolls # 0
  <2>1. CanRoll
    BY <1>1, <1>5 DEF CanRoll
  <2>2. \A n \in DiceTotals : Destinations(consumed, position, n, Forward) # {}
    BY <1>1, <1>2, ThrowsLand
  <2>3. QED  BY <2>1, <2>2 DEF HasAMove
<1>6. CASE pending = NoRoll /\ ~ChallengeNotSelected /\ rolls = 0
  BY <1>6 DEF HasAMove
<1>7. QED  BY <1>3, <1>4, <1>5, <1>6

\* On a ready board a team that has not finished can go on.
NeverStuck == Ready /\ ~Completed => HasAMove

\* What a team left to itself keeps.
PlayInv == TypeOK /\ ChoiceInv /\ SlotInv /\ SelectedInv

LEMMA PlayInvariance == Spec => []PlayInv
<1>1. Init => PlayInv
  BY InitInv, SlotInit DEF IInv, PlayInv
<1>2. PlayInv /\ [Next]_vars => PlayInv'
  BY TypeStep, ChoiceStep, SlotByPlay DEF PlayInv
<1>3. QED  BY <1>1, <1>2, PTL DEF Spec

\* The safety part of EventuallyCompleted: while the board is ready, a team on
\* an unfinished board can end its pending throw, open a challenge where it
\* stands (once it has seen the candidates), throw and find a cell for whatever
\* the dice show, or it waits for nothing but its next die.
THEOREM TeamsAreNeverStuck == Spec => []NeverStuck
<1>1. PlayInv => NeverStuck
  <2> SUFFICES ASSUME PlayInv, Ready, ~Completed
               PROVE  HasAMove
    BY DEF NeverStuck
  <2>1. ChallengeNotSelected => ~SelectionLost
    BY DEF PlayInv, SelectedInv, SelectionLost, ChallengeNotSelected, CellsOf, TypeOK
  <2>2. QED
    BY <2>1, MovesExist DEF PlayInv, ChoiceInv
<1>2. QED  BY <1>1, PlayInvariance, PTL

\* The same with corrections, but for one case that they can bring about: a
\* challenge that was selected at this cell, though it was opened at another,
\* and was dropped there.
THEOREM CorrectionsLeaveAMove ==
  OperatorSpec => [](NeverStuck \/ (ChallengeNotSelected /\ SelectionLost))
<1>1. OperatedInv => NeverStuck \/ (ChallengeNotSelected /\ SelectionLost)
  <2> SUFFICES ASSUME OperatedInv, Ready, ~Completed,
                      ~(ChallengeNotSelected /\ SelectionLost)
               PROVE  HasAMove
    BY DEF NeverStuck
  <2>1. QED
    BY MovesExist DEF OperatedInv, ChoiceInv
<1>2. QED  BY <1>1, OperatedInvariance, PTL
=============================================================================

---------------------------- MODULE BoardProofs -----------------------------
(***************************************************************************)
(* Facts about the cells of a board of any size, what a click uncovers,    *)
(* what the two rules of BasicSolver conclude and where their loops end,   *)
(* and about finite sets: a smallest part and a largest number, parts of a *)
(* given size, and the sums of FiniteSetsExt.                              *)
(***************************************************************************)
EXTENDS Minefield, FiniteSetTheorems, TLAPS

\* Being a neighbor is symmetric, and no cell
\* is its own.
LEMMA NeighborsSymmetric ==
    ASSUME NEW c \in Cell, NEW d \in Cell
    PROVE  /\ Neighbors[c] \subseteq Cell
           /\ c \notin Neighbors[c]
           /\ d \in Neighbors[c] <=> c \in Neighbors[d]
  <1>1. /\ Neighbors[c] = {e \in Cell : e # c /\ e[1] - c[1] \in -1..1 /\ e[2] - c[2] \in -1..1}
        /\ Neighbors[d] = {e \in Cell : e # d /\ e[1] - d[1] \in -1..1 /\ e[2] - d[2] \in -1..1}
    BY DEF Neighbors
  <1>2. c[1] \in Int /\ c[2] \in Int /\ d[1] \in Int /\ d[2] \in Int
    BY BoardAssumption DEF Cell
  <1>3. \A i, j \in Int : i - j \in -1..1 <=> j - i \in -1..1
    OBVIOUS
  <1>4. QED
    BY <1>1, <1>2, <1>3

\* A board is finite.
LEMMA CellsFinite == IsFiniteSet(Cell)
  <1>1. IsFiniteSet(1..Rows) /\ IsFiniteSet(1..Cols)
    BY BoardAssumption, FS_Interval
  <1>2. QED
    BY <1>1, FS_Product DEF Cell

LEMMA NeighborsAreCells == ASSUME NEW c \in Cell PROVE Neighbors[c] \subseteq Cell
  BY NeighborsSymmetric

\* A cascade uncovers no mine.
LEMMA CascadeSafe ==
    ASSUME mines \subseteq Cell, NEW S, S \subseteq Cell \ mines, NEW U, U \subseteq Cell
    PROVE  Beside(S, U) \subseteq Cell \ mines
  <1>1. ASSUME NEW z \in S, NEW d \in Neighbors[z], Adjacent(z) = 0
        PROVE  d \notin mines
    <2>1. z \in Cell /\ z \notin mines /\ Neighbors[z] \subseteq Cell
      BY NeighborsAreCells
    <2>2. IsFiniteSet(Neighbors[z] \cap mines)
      BY <2>1, CellsFinite, FS_Subset
    <2>3. Cardinality(Neighbors[z] \cap mines) = 0
      BY <1>1, <2>1 DEF Adjacent
    <2>4. Neighbors[z] \cap mines = {}
      BY <2>2, <2>3, FS_EmptySet
    <2>5. QED
      BY <2>4
  <1>2. QED
    BY <1>1 DEF Beside, BesideZeros

-----------------------------------------------------------------------------
(* Finite sets, and sums over them.                                        *)

\* Among parts of a finite set there is one with no other inside it.
LEMMA Minimal ==
    ASSUME NEW S, IsFiniteSet(S), NEW T, T \subseteq SUBSET S, T # {}
    PROVE  \E x \in T : \A y \in T : y \subseteq x => y = x
  <1>1. IsWellFoundedOn(StrictSubsetOrdering(S), SUBSET S)
    BY FS_StrictSubsetOrderingWellFounded, FS_FiniteSubsetsOfFinite
  <1>2. PICK x \in T : \A y \in T : <<y, x>> \notin StrictSubsetOrdering(S)
    BY <1>1, WFMin
  <1>3. QED
    BY <1>2 DEF StrictSubsetOrdering

\* A bounded set of numbers has a largest.
LEMMA LargestIs ==
    ASSUME NEW n \in Nat, NEW S, S \subseteq 0..n, S # {}
    PROVE  Max(S) \in S /\ \A y \in S : y <= Max(S)
  <1> DEFINE above(y) == (y + 1)..n
             T == {above(y) : y \in S}
  <1>1. IsFiniteSet(0..n) /\ T \subseteq SUBSET (0..n) /\ T # {}
    <2>1. 0 \in Int /\ n \in Int
      OBVIOUS
    <2>2. IsFiniteSet(0..n)
      BY <2>1, FS_Interval
    <2>3. \A y \in S : above(y) \in SUBSET (0..n)
      OBVIOUS
    <2> HIDE DEF above
    <2>4. QED
      BY <2>2, <2>3
  <1>2. PICK x \in T : \A y \in T : y \subseteq x => y = x
    <2>1. PICK U : U = T
      OBVIOUS
    <2>2. PICK I : I = 0..n
      OBVIOUS
    <2>3. IsFiniteSet(I) /\ U \subseteq SUBSET I /\ U # {}
      BY <1>1, <2>1, <2>2
    <2>4. \E x \in U : \A y \in U : y \subseteq x => y = x
      BY <2>3, Minimal
    <2>5. QED
      BY <2>1, <2>4
  <1>3. PICK m \in S : x = above(m)
    OBVIOUS
  <1>4. ASSUME NEW y \in S, y > m PROVE FALSE
    <2>1. above(y) \subseteq above(m) /\ y \in above(m) /\ y \notin above(y)
      BY <1>4
    <2>2. QED
      BY <1>2, <1>3, <2>1
  <1>5. \A y \in S : y <= m
    BY <1>4
  <1>6. \E z \in S : \A y \in S : z >= y
    BY <1>5
  <1>7. Max(S) \in S /\ \A y \in S : Max(S) >= y
    BY <1>6 DEF Max
  <1>8. QED
    BY <1>7

\* A finite set has parts of every size.
LEMMA PartOfSize ==
    ASSUME NEW S, IsFiniteSet(S), NEW k \in 0..Cardinality(S)
    PROVE  \E T \in SUBSET S : Cardinality(T) = k
  <1> DEFINE large == {T \in SUBSET S : Cardinality(T) >= k}
  <1>1. S \in large
    BY FS_CardinalityType
  <1>2. PICK T \in large : \A U \in large : U \subseteq T => U = T
    <2>1. large \subseteq SUBSET S
      OBVIOUS
    <2> HIDE DEF large
    <2>2. QED
      BY <1>1, <2>1, Minimal
  <1>3. IsFiniteSet(T) /\ Cardinality(T) \in Nat /\ Cardinality(T) >= k
    BY FS_Subset, FS_CardinalityType
  <1>4. ASSUME Cardinality(T) > k PROVE FALSE
    <2>1. T # {}
      BY <1>4, FS_EmptySet
    <2>2. PICK x \in T : TRUE
      BY <2>1
    <2>3. Cardinality(T \ {x}) = Cardinality(T) - 1
      BY <1>3, FS_RemoveElement
    <2>4. T \ {x} \in large
      BY <1>3, <1>4, <2>3
    <2>5. QED
      BY <1>2, <2>2, <2>4
  <1>5. QED
    BY <1>3, <1>4

\* The sums of w over the parts of S, as the folds of the community modules take them.
Pick(s) == CHOOSE x \in s : TRUE
Sums(w, S, f) == f = [s \in SUBSET S |-> IF s = {} THEN 0 ELSE w[Pick(s)] + f[s \ {Pick(s)}]]

LEMMA SumIs ==
    ASSUME NEW w, NEW S, NEW f, Sums(w, S, f)
    PROVE  /\ f[{}] = 0
           /\ \A s \in SUBSET S : s # {} =>
                 /\ Pick(s) \in s /\ s \ {Pick(s)} \in SUBSET S
                 /\ f[s] = w[Pick(s)] + f[s \ {Pick(s)}]
  <1>1. \A s \in SUBSET S : f[s] = IF s = {} THEN 0 ELSE w[Pick(s)] + f[s \ {Pick(s)}]
    BY DEF Sums
  <1>2. \A s : s # {} => Pick(s) \in s
    BY DEF Pick
  <1>3. QED
    BY <1>1, <1>2

\* Sums over parts of two sets agree.
LEMMA SumsAgree ==
    ASSUME NEW w, NEW A, IsFiniteSet(A), NEW B, NEW f, Sums(w, A, f), NEW g, Sums(w, B, g)
    PROVE  \A s \in SUBSET (A \cap B) : f[s] = g[s]
  <1> DEFINE odd == {s \in SUBSET (A \cap B) : f[s] # g[s]}
  <1>1. SUFFICES ASSUME odd # {} PROVE FALSE
    OBVIOUS
  <1>2. PICK s \in odd : \A r \in odd : r \subseteq s => r = s
    <2>1. odd \subseteq SUBSET A
      OBVIOUS
    <2> HIDE DEF odd
    <2>2. QED
      BY <1>1, <2>1, Minimal
  <1>3. s # {}
    <2>1. f[{}] = 0 /\ g[{}] = 0
      BY SumIs
    <2>2. QED
      BY <1>2, <2>1
  <1>4. /\ Pick(s) \in s
        /\ f[s] = w[Pick(s)] + f[s \ {Pick(s)}] /\ g[s] = w[Pick(s)] + g[s \ {Pick(s)}]
    BY <1>3, SumIs
  <1>5. s \ {Pick(s)} \in SUBSET (A \cap B) /\ s \ {Pick(s)} # s
    BY <1>4
  <1>6. f[s \ {Pick(s)}] = g[s \ {Pick(s)}]
    BY <1>2, <1>5
  <1>7. QED
    BY <1>4, <1>6

\* Every finite set has sums.
LEMMA SumsExist ==
    ASSUME NEW w, NEW S, IsFiniteSet(S)
    PROVE  \E f : Sums(w, S, f)
  <1> DEFINE none == {A \in SUBSET S : ~\E f : Sums(w, A, f)}
  <1>1. SUFFICES ASSUME none # {} PROVE FALSE
    OBVIOUS
  <1>2. PICK B \in none : \A A \in none : A \subseteq B => A = B
    <2>1. none \subseteq SUBSET S
      OBVIOUS
    <2> HIDE DEF none
    <2>2. QED
      BY <1>1, <2>1, Minimal
  <1> DEFINE G(A) == CHOOSE f : Sums(w, A, f)
             Val(s) == IF s = {} THEN 0 ELSE w[Pick(s)] + G(s \ {Pick(s)})[s \ {Pick(s)}]
             F == [s \in SUBSET B |-> Val(s)]
  <1>3. ASSUME NEW A \in SUBSET B, A # B PROVE Sums(w, A, G(A))
    <2>1. A \notin none
      BY <1>2, <1>3
    <2>2. \E f : Sums(w, A, f)
      BY <2>1
    <2>3. QED
      BY <2>2
  <1>4. ASSUME NEW r \in SUBSET B, r # B PROVE Val(r) = G(r)[r]
    <2>1. CASE r = {}
      <3>1. Sums(w, r, G(r))
        BY <1>3, <1>4
      <3>2. G(r)[{}] = 0
        <4> HIDE DEF G
        <4> QED BY <3>1, SumIs
      <3>3. QED
        BY <2>1, <3>2
    <2>2. CASE r # {}
      <3> DEFINE q == r \ {Pick(r)}
      <3>1. Sums(w, r, G(r))
        BY <1>3, <1>4
      <3>2. Pick(r) \in r /\ G(r)[r] = w[Pick(r)] + G(r)[q]
        <4> HIDE DEF G
        <4>1. PICK g : g = G(r)
          OBVIOUS
        <4>2. Sums(w, r, g) /\ r \in SUBSET r
          BY <3>1, <4>1
        <4>3. Pick(r) \in r /\ g[r] = w[Pick(r)] + g[r \ {Pick(r)}]
          BY <2>2, <4>2, SumIs
        <4>4. QED
          BY <4>1, <4>3
      <3>3. q \in SUBSET B /\ q # B
        BY <3>2
      <3>4. Sums(w, q, G(q))
        <4> HIDE DEF G, q
        <4> QED BY <1>3, <3>3
      <3>5. IsFiniteSet(r) /\ q \in SUBSET (r \cap q)
        <4>1. r \subseteq S
          BY <1>2
        <4>2. QED
          BY <4>1, FS_Subset
      <3>6. G(r)[q] = G(q)[q]
        <4> HIDE DEF G, q
        <4> QED BY <3>1, <3>4, <3>5, SumsAgree
      <3>7. QED
        <4> HIDE DEF G
        <4> QED BY <2>2, <3>2, <3>6
    <2>3. QED
      BY <2>1, <2>2
  <1>5. ASSUME NEW s \in SUBSET B, s # {} PROVE F[s] = w[Pick(s)] + F[s \ {Pick(s)}]
    <2> DEFINE q == s \ {Pick(s)}
    <2>1. Pick(s) \in s
      BY <1>5 DEF Pick
    <2>2. q \in SUBSET B /\ q # B
      BY <2>1
    <2>3. F[q] = G(q)[q]
      <3> HIDE DEF Val, G, q
      <3> QED BY <1>4, <2>2
    <2>4. F[s] = w[Pick(s)] + G(q)[q]
      <3> HIDE DEF G
      <3> QED BY <1>5
    <2>5. QED
      <3> HIDE DEF F, G, Val
      <3> QED BY <2>3, <2>4
  <1>6. {} \in SUBSET B => F[{}] = 0
    <2> HIDE DEF G
    <2> QED OBVIOUS
  <1>7. Sums(w, B, F)
    <2>1. F = [s \in SUBSET B |-> F[s]]
      <3> HIDE DEF Val
      <3> QED OBVIOUS
    <2>2. \A s \in SUBSET B : F[s] = IF s = {} THEN 0 ELSE w[Pick(s)] + F[s \ {Pick(s)}]
      <3> HIDE DEF F
      <3> QED BY <1>5, <1>6
    <2> HIDE DEF F
    <2>3. QED
      BY <2>1, <2>2 DEF Sums
  <1>8. QED
    <2> HIDE DEF F
    <2> QED BY <1>2, <1>7

\* A sum bounds how much of X lies in the parts it adds up.
LEMMA SumCovers ==
    ASSUME NEW S, IsFiniteSet(S), NEW w \in [S -> Nat], NEW f, Sums(w, S, f),
           NEW X, IsFiniteSet(X), NEW part,
           \A P \in S : Cardinality(X \cap part[P]) <= w[P]
    PROVE  \A s \in SUBSET S :
              f[s] \in Nat /\ Cardinality(X \cap UNION {part[P] : P \in s}) <= f[s]
  <1> DEFINE Of(s) == UNION {part[P] : P \in s}
             Holds(s) == f[s] \in Nat /\ Cardinality(X \cap Of(s)) <= f[s]
             odd == {s \in SUBSET S : ~Holds(s)}
  <1>1. SUFFICES ASSUME odd # {} PROVE FALSE
    OBVIOUS
  <1>2. PICK s \in odd : \A r \in odd : r \subseteq s => r = s
    <2>1. odd \subseteq SUBSET S
      OBVIOUS
    <2> HIDE DEF odd
    <2>2. QED
      BY <1>1, <2>1, Minimal
  <1>3. s # {}
    <2>1. X \cap Of({}) = {}
      OBVIOUS
    <2>2. f[{}] = 0
      BY SumIs
    <2>3. Cardinality(X \cap Of({})) = 0
      BY <2>1, FS_EmptySet
    <2>4. Holds({})
      <3> HIDE DEF Of
      <3> QED BY <2>2, <2>3
    <2>5. QED
      <3> HIDE DEF Holds
      <3> QED BY <1>2, <2>4
  <1> DEFINE p == Pick(s)
             r == s \ {p}
  <1>4. p \in s /\ p \in S /\ r \in SUBSET S /\ f[s] = w[p] + f[r] /\ r # s
    <2>1. s \in SUBSET S
      BY <1>2
    <2>2. p \in s /\ r \in SUBSET S /\ f[s] = w[p] + f[r]
      BY <1>3, <2>1, SumIs
    <2>3. QED
      BY <2>1, <2>2
  <1> HIDE DEF p
  <1>5. Holds(r)
    <2>1. r \notin odd
      <3> HIDE DEF odd
      <3> QED BY <1>2, <1>4
    <2>2. QED
      BY <1>4, <2>1
  <1>6. X \cap Of(s) = (X \cap part[p]) \cup (X \cap Of(r))
    BY <1>4
  <1>7. /\ IsFiniteSet(X \cap part[p]) /\ IsFiniteSet(X \cap Of(r)) /\ IsFiniteSet(X \cap Of(s))
        /\ Cardinality(X \cap part[p]) \in Nat /\ Cardinality(X \cap Of(r)) \in Nat
    BY FS_Subset, FS_CardinalityType
  <1>8. Cardinality(X \cap Of(s)) <= Cardinality(X \cap part[p]) + Cardinality(X \cap Of(r))
    <2> DEFINE U == X \cap part[p]
               V == X \cap Of(r)
    <2>1. IsFiniteSet(U) /\ IsFiniteSet(V) /\ IsFiniteSet(U \cap V)
      BY <1>7, FS_Subset
    <2> HIDE DEF U, V
    <2>2. Cardinality(U \cup V) = Cardinality(U) + Cardinality(V) - Cardinality(U \cap V)
          /\ Cardinality(U \cap V) \in Nat /\ Cardinality(U) \in Nat /\ Cardinality(V) \in Nat
      BY <2>1, FS_Union, FS_CardinalityType
    <2>3. Cardinality(U \cup V) <= Cardinality(U) + Cardinality(V)
      BY <2>2
    <2>4. QED
      BY <1>6, <2>3 DEF U, V
  <1>9. w[p] \in Nat /\ Cardinality(X \cap part[p]) <= w[p]
    BY <1>4
  <1>10. Cardinality(X \cap Of(s)) \in Nat
    BY <1>7, FS_CardinalityType
  <1>11. Holds(s)
    <2> HIDE DEF Of, r
    <2> QED BY <1>4, <1>5, <1>7, <1>8, <1>9, <1>10
  <1>12. QED
    BY <1>2, <1>11

-----------------------------------------------------------------------------
(* The rules of BasicSolver.                                               *)

\* What is known of the cells before a rule is applied.
Sound(R, K, S) ==
    /\ R \subseteq Cell \ mines
    /\ K \subseteq mines
    /\ S \cap mines = {}

\* Rule 1: if as many neighbors are open as mines are missing, all are mines.
LEMMA Rule1Sound ==
    ASSUME mines \subseteq Cell, NEW R, NEW K, NEW S, Sound(R, K, S),
           NEW c \in R, AllMines(c, R, K, S)
    PROVE  Open(c, R, K, S) \subseteq mines
  <1> DEFINE near == Neighbors[c] \cap mines
             flagged == Neighbors[c] \cap K
             open == Open(c, R, K, S)
  <1>1. c \in Cell /\ c \notin mines /\ Neighbors[c] \subseteq Cell
    BY NeighborsAreCells DEF Sound
  <1>2. IsFiniteSet(near) /\ IsFiniteSet(flagged) /\ IsFiniteSet(open)
    <2>1. near \subseteq Cell /\ flagged \subseteq Cell /\ open \subseteq Cell
      BY <1>1 DEF Open
    <2>2. QED
      BY <2>1, CellsFinite, FS_Subset
  <1>3. near \subseteq flagged \cup open
    BY DEF Sound, Open
  <1>4. flagged \cap open = {}
    BY DEF Open
  <1>5. /\ IsFiniteSet(flagged \cup open)
        /\ Cardinality(flagged \cup open) = Cardinality(flagged) + Cardinality(open)
    <2>1. Cardinality(flagged) \in Nat /\ Cardinality(open) \in Nat
      BY <1>2, FS_CardinalityType
    <2>2. /\ IsFiniteSet(flagged \cup open)
          /\ Cardinality(flagged \cup open)
                = Cardinality(flagged) + Cardinality(open) - Cardinality(flagged \cap open)
      BY <1>2, FS_Union
    <2>3. Cardinality(flagged \cap open) = 0
      BY <1>4, FS_EmptySet
    <2>4. QED
      BY <2>1, <2>2, <2>3
  <1>6. Cardinality(near) - Cardinality(flagged) = Cardinality(open)
    BY <1>1 DEF AllMines, Adjacent
  <1>7. Cardinality(near) = Cardinality(flagged \cup open)
    <2>1. Cardinality(near) \in Nat /\ Cardinality(flagged) \in Nat /\ Cardinality(open) \in Nat
      BY <1>2, FS_CardinalityType
    <2>2. QED
      BY <1>5, <1>6, <2>1
  <1>8. flagged \cup open = near
    BY <1>3, <1>5, <1>7, FS_Subset
  <1>9. QED
    BY <1>8

\* Rule 2: if as many neighbors are known mines as the number says, no other is.
LEMMA Rule2Sound ==
    ASSUME mines \subseteq Cell, NEW R, NEW K, NEW S, Sound(R, K, S),
           NEW c \in R, AllSafe(c, R, K, S)
    PROVE  Open(c, R, K, S) \cap mines = {}
  <1> DEFINE near == Neighbors[c] \cap mines
             flagged == Neighbors[c] \cap K
  <1>1. c \in Cell /\ c \notin mines /\ Neighbors[c] \subseteq Cell
    BY NeighborsAreCells DEF Sound
  <1>2. IsFiniteSet(near)
    BY <1>1, CellsFinite, FS_Subset
  <1>3. flagged \subseteq near
    BY DEF Sound
  <1>4. Cardinality(near) = Cardinality(flagged)
    BY <1>1 DEF AllSafe, Adjacent
  <1>5. flagged = near
    BY <1>2, <1>3, <1>4, FS_Subset
  <1>6. QED
    BY <1>5 DEF Open

\* The same the other way around.
LEMMA Rule1Applies ==
    ASSUME mines \subseteq Cell, NEW R, NEW K, NEW S, Sound(R, K, S),
           NEW c \in R, Open(c, R, K, S) \subseteq mines
    PROVE  AllMines(c, R, K, S)
  <1> DEFINE flagged == Neighbors[c] \cap K
             open == Open(c, R, K, S)
  <1>1. c \in Cell /\ c \notin mines /\ Neighbors[c] \subseteq Cell
    BY NeighborsAreCells DEF Sound
  <1>2. Neighbors[c] \cap mines = flagged \cup open /\ flagged \cap open = {}
    BY DEF Sound, Open
  <1>3. IsFiniteSet(flagged) /\ IsFiniteSet(open)
    <2>1. flagged \subseteq Cell /\ open \subseteq Cell
      BY <1>1 DEF Open
    <2>2. QED
      BY <2>1, CellsFinite, FS_Subset
  <1>4. PICK f, o : f = flagged /\ o = open
    OBVIOUS
  <1>5. Cardinality(f \cup o) = Cardinality(f) + Cardinality(o)
    <2>1. Cardinality(f) \in Nat /\ Cardinality(o) \in Nat
      BY <1>3, <1>4, FS_CardinalityType
    <2>2. Cardinality(f \cup o) = Cardinality(f) + Cardinality(o) - Cardinality(f \cap o)
      BY <1>3, <1>4, FS_Union
    <2>3. Cardinality(f \cap o) = 0
      BY <1>2, <1>4, FS_EmptySet
    <2>4. QED
      BY <2>1, <2>2, <2>3
  <1>6. Cardinality(f) \in Nat /\ Cardinality(o) \in Nat
    BY <1>3, <1>4, FS_CardinalityType
  <1>7. Adjacent(c) = Cardinality(f \cup o)
    BY <1>1, <1>2, <1>4 DEF Adjacent
  <1>8. Adjacent(c) - Cardinality(f) = Cardinality(o)
    BY <1>5, <1>6, <1>7
  <1>9. QED
    BY <1>4, <1>8 DEF AllMines

LEMMA Rule2Applies ==
    ASSUME mines \subseteq Cell, NEW R, NEW K, NEW S, Sound(R, K, S),
           NEW c \in R, Open(c, R, K, S) \cap mines = {}
    PROVE  AllSafe(c, R, K, S)
  <1>1. c \notin mines
    BY DEF Sound
  <1>2. Neighbors[c] \cap mines = Neighbors[c] \cap K
    BY DEF Sound, Open
  <1>3. QED
    BY <1>1, <1>2 DEF AllSafe, Adjacent

\* Nothing more follows by the two rules.
Exhausted(R, K, S) ==
    Sound(R, K, S) /\ PassMines(R, K, S) = {} /\ PassSafe(R, K, S) = {}

\* Then a cell whose open neighbors are of one kind has none.
LEMMA NoneOpen ==
    ASSUME mines \subseteq Cell, NEW R, NEW K, NEW S, Exhausted(R, K, S), NEW c \in R,
           Open(c, R, K, S) \subseteq mines \/ Open(c, R, K, S) \cap mines = {}
    PROVE  Open(c, R, K, S) = {}
  <1>1. CASE Open(c, R, K, S) \subseteq mines
    <2>1. AllMines(c, R, K, S)
      BY <1>1, Rule1Applies DEF Exhausted
    <2>2. Open(c, R, K, S) \subseteq PassMines(R, K, S)
      BY <2>1 DEF PassMines
    <2>3. QED
      BY <2>2 DEF Exhausted
  <1>2. CASE Open(c, R, K, S) \cap mines = {}
    <2>1. AllSafe(c, R, K, S)
      BY <1>2, Rule2Applies DEF Exhausted
    <2>2. Open(c, R, K, S) \subseteq PassSafe(R, K, S)
      BY <2>1 DEF PassSafe
    <2>3. QED
      BY <2>2 DEF Exhausted
  <1>3. QED
    BY <1>1, <1>2

\* Nor does anything follow from a part of it.
LEMMA PassBelow ==
    ASSUME mines \subseteq Cell, NEW R, NEW K, NEW S, Exhausted(R, K, S),
           NEW Q, Q \subseteq R, NEW L, L \subseteq K, NEW T, T \subseteq R \cup S
    PROVE  PassMines(Q, L, T) \subseteq K /\ PassSafe(Q, L, T) \subseteq R \cup S
  <1>1. Sound(Q, L, T)
    BY DEF Exhausted, Sound
  <1>2. ASSUME NEW c \in Q, AllMines(c, Q, L, T) PROVE Open(c, Q, L, T) \subseteq K
    <2>1. Open(c, Q, L, T) \subseteq mines
      BY <1>1, <1>2, Rule1Sound
    <2>2. Open(c, R, K, S) \subseteq mines
      BY <2>1 DEF Exhausted, Sound, Open
    <2>3. c \in R
      OBVIOUS
    <2>4. Open(c, R, K, S) = {}
      BY <2>2, <2>3, NoneOpen
    <2>5. QED
      BY <2>1, <2>4 DEF Exhausted, Sound, Open
  <1>3. ASSUME NEW c \in Q, AllSafe(c, Q, L, T) PROVE Open(c, Q, L, T) \subseteq R \cup S
    <2>1. Open(c, Q, L, T) \cap mines = {}
      BY <1>1, <1>3, Rule2Sound
    <2>2. Open(c, R, K, S) \cap mines = {}
      BY <2>1 DEF Exhausted, Sound, Open
    <2>3. c \in R
      OBVIOUS
    <2>4. Open(c, R, K, S) = {}
      BY <2>2, <2>3, NoneOpen
    <2>5. QED
      BY <2>1, <2>4 DEF Exhausted, Sound, Open
  <1>4. QED
    BY <1>2, <1>3 DEF PassMines, PassSafe

-----------------------------------------------------------------------------
(* Loops: the function f steps with g until nothing changes, and gives out *)
(* what out says then.                                                     *)

Loops(P, g, out, f) == f = [p \in P |-> IF g[p] = p THEN out[p] ELSE f[g[p]]]

\* Such a function exists: it gives out what is in store for all on its way.
LEMMA LoopExists ==
    ASSUME NEW P, NEW g \in [P -> P], NEW out
    PROVE  \E f : Loops(P, g, out, f)
  <1> DEFINE Closed(A) == \A r \in A : g[r] \in A
             Reach(p) == {q \in P : \A A \in SUBSET P : p \in A /\ Closed(A) => q \in A}
             Ends(p) == {q \in Reach(p) : g[q] = q}
             End(p) == out[CHOOSE q \in Ends(p) : TRUE]
             F == [p \in P |-> End(p)]
  <1>1. ASSUME NEW p \in P PROVE p \in Reach(p) /\ Closed(Reach(p)) /\ Reach(p) \subseteq P
    OBVIOUS
  <1>2. ASSUME NEW p \in P, g[p] = p PROVE Ends(p) = {p}
    <2>1. {p} \in SUBSET P /\ p \in {p} /\ Closed({p})
      BY <1>2
    <2>2. Reach(p) \subseteq {p}
      BY <2>1
    <2>3. QED
      <3> HIDE DEF Reach
      <3> QED BY <1>1, <1>2, <2>2
  <1>3. ASSUME NEW p \in P, g[p] # p PROVE Ends(p) = Ends(g[p])
    <2>1. g[p] \in P
      OBVIOUS
    <2>2. Reach(p) \subseteq {p} \cup Reach(g[p])
      <3>1. PICK A : A = {p} \cup Reach(g[p])
        OBVIOUS
      <3>2. A \in SUBSET P /\ p \in A /\ Closed(A)
        <4>1. g[p] \in Reach(g[p]) /\ Closed(Reach(g[p])) /\ Reach(g[p]) \subseteq P
          BY <1>1, <2>1
        <4> HIDE DEF Reach
        <4>2. QED
          BY <3>1, <4>1
      <3>3. Reach(p) \subseteq A
        BY <3>2
      <3>4. QED
        <4> HIDE DEF Reach
        <4> QED BY <3>1, <3>3
    <2>3. Reach(g[p]) \subseteq Reach(p)
      <3>1. g[p] \in Reach(p) /\ Closed(Reach(p)) /\ Reach(p) \in SUBSET P
        <4> HIDE DEF Reach
        <4> QED BY <1>1
      <3>2. QED
        BY <3>1
    <2>4. QED
      <3> HIDE DEF Reach
      <3> QED BY <1>3, <2>2, <2>3
  <1>4. ASSUME NEW p \in P PROVE F[p] = IF g[p] = p THEN out[p] ELSE F[g[p]]
    <2>1. F[p] = End(p) /\ g[p] \in P /\ F[g[p]] = End(g[p])
      <3> HIDE DEF End
      <3> QED OBVIOUS
    <2>2. g[p] = p => End(p) = out[p]
      <3>1. ASSUME g[p] = p PROVE Ends(p) = {p}
        BY <1>2, <3>1
      <3> HIDE DEF Ends
      <3>2. QED
        BY <3>1
    <2>3. g[p] # p => End(p) = End(g[p])
      <3> HIDE DEF Ends
      <3> QED BY <1>3
    <2>4. QED
      <3> HIDE DEF F, End
      <3> QED BY <2>1, <2>2, <2>3
  <1>5. Loops(P, g, out, F)
    <2>1. F = [p \in P |-> F[p]]
      <3> HIDE DEF End
      <3> QED OBVIOUS
    <2> HIDE DEF F
    <2>2. QED
      BY <1>4, <2>1 DEF Loops
  <1>6. QED
    <2> HIDE DEF F
    <2> QED BY <1>5

\* If each step makes a part m[p] of a finite set smaller, the loop ends, within
\* any set A that it does not leave.
LEMMA LoopEnds ==
    ASSUME NEW P, NEW g \in [P -> P], NEW out, NEW f, Loops(P, g, out, f),
           NEW S, IsFiniteSet(S), NEW m \in [P -> SUBSET S],
           \A p \in P : g[p] # p => m[g[p]] \subseteq m[p] /\ m[g[p]] # m[p],
           NEW A \in SUBSET P, \A p \in A : g[p] \in A, NEW p \in A
    PROVE  \E q \in A : g[q] = q /\ f[p] = out[q]
  <1> DEFINE Holds(r) == \E q \in A : g[q] = q /\ f[r] = out[q]
             odd == {r \in A : ~Holds(r)}
             sizes == {m[r] : r \in odd}
  <1>1. SUFFICES ASSUME odd # {} PROVE FALSE
    OBVIOUS
  <1>2. sizes \subseteq SUBSET S /\ sizes # {}
    <2>1. odd \subseteq P
      OBVIOUS
    <2> HIDE DEF odd
    <2>2. QED
      BY <1>1, <2>1
  <1>3. PICK x \in sizes : \A y \in sizes : y \subseteq x => y = x
    <2> HIDE DEF sizes
    <2> QED BY <1>2, Minimal
  <1>4. PICK r \in odd : x = m[r]
    <2> HIDE DEF odd
    <2> QED OBVIOUS
  <1>5. r \in P /\ r \in A /\ f[r] = IF g[r] = r THEN out[r] ELSE f[g[r]]
    BY DEF Loops
  <1>6. g[r] # r
    BY <1>4, <1>5
  <1>7. g[r] \in A /\ g[r] \in P /\ m[g[r]] \subseteq m[r] /\ m[g[r]] # m[r]
    BY <1>5, <1>6
  <1>8. g[r] \notin odd
    <2> HIDE DEF odd
    <2> QED BY <1>3, <1>4, <1>7
  <1>9. PICK q \in A : g[q] = q /\ f[g[r]] = out[q]
    BY <1>7, <1>8
  <1>10. f[r] = out[q]
    BY <1>5, <1>6, <1>9
  <1>11. QED
    BY <1>4, <1>9, <1>10

-----------------------------------------------------------------------------
(* What the loops of Minefield compute.                                    *)

\* find_solved_squares: one pass.
Pass(R) == [p \in Knowledge |-> [mines |-> p.mines \cup PassMines(R, p.mines, p.safe),
                                 safe  |-> p.safe \cup PassSafe(R, p.mines, p.safe)]]

LEMMA PassType == ASSUME NEW R, R \subseteq Cell PROVE Pass(R) \in [Knowledge -> Knowledge]
  <1>1. ASSUME NEW K, NEW S PROVE PassMines(R, K, S) \subseteq Cell /\ PassSafe(R, K, S) \subseteq Cell
    BY NeighborsAreCells DEF PassMines, PassSafe, Open
  <1>2. QED
    BY <1>1 DEF Pass, Knowledge

\* The solver ends within what a pass does not leave.
LEMMA DeducedWithin ==
    ASSUME NEW R, R \subseteq Cell, NEW K, NEW A \in SUBSET Knowledge,
           [mines |-> K, safe |-> {}] \in A, \A p \in A : Pass(R)[p] \in A
    PROVE  Deduced(R, K) \in A
  <1> DEFINE Body(f) == [p \in Knowledge |->
                 LET q == [mines |-> p.mines \cup PassMines(R, p.mines, p.safe),
                           safe  |-> p.safe \cup PassSafe(R, p.mines, p.safe)]
                 IN IF q = p THEN p ELSE f[q]]
             out == [p \in Knowledge |-> p]
             left == [p \in Knowledge |-> ((Cell \ p.mines) \X {1}) \cup ((Cell \ p.safe) \X {2})]
  <1>1. Deduced(R, K) = (CHOOSE f : f = Body(f))[[mines |-> K, safe |-> {}]]
    BY DEF Deduced
  <1>2. ASSUME NEW f PROVE f = Body(f) <=> Loops(Knowledge, Pass(R), out, f)
    BY DEF Loops, Pass
  <1>3. \E f : Loops(Knowledge, Pass(R), out, f)
    <2> HIDE DEF out
    <2> QED BY PassType, LoopExists
  <1>4. PICK f : f = CHOOSE g : g = Body(g)
    OBVIOUS
  <1>5. Loops(Knowledge, Pass(R), out, f)
    <2> HIDE DEF Body
    <2> QED BY <1>2, <1>3, <1>4
  <1>6. PICK g : g = Pass(R)
    OBVIOUS
  <1>7. PICK m : m = left
    OBVIOUS
  <1>8. PICK S : S = Cell \X {1, 2}
    OBVIOUS
  <1>9. IsFiniteSet(S) /\ m \in [Knowledge -> SUBSET S]
    <2>1. IsFiniteSet({1, 2})
      <3>1. 1..2 = {1, 2} /\ 1 \in Int /\ 2 \in Int
        OBVIOUS
      <3>2. IsFiniteSet(1..2)
        BY <3>1, FS_Interval
      <3>3. QED
        BY <3>1, <3>2
    <2>2. IsFiniteSet(S)
      BY <1>8, <2>1, CellsFinite, FS_Product
    <2>3. QED
      BY <1>7, <1>8, <2>2
  <1>10. ASSUME NEW p \in Knowledge, g[p] # p PROVE m[g[p]] \subseteq m[p] /\ m[g[p]] # m[p]
    <2>1. PICK q : q = g[p]
      OBVIOUS
    <2>2. q \in Knowledge /\ p.mines \subseteq q.mines /\ p.safe \subseteq q.safe
      BY <1>6, <2>1, PassType DEF Pass
    <2>3. p.mines # q.mines \/ p.safe # q.safe
      BY <1>10, <2>1, <2>2 DEF Knowledge
    <2>4. m[p] = ((Cell \ p.mines) \X {1}) \cup ((Cell \ p.safe) \X {2})
      BY <1>7
    <2>5. m[q] = ((Cell \ q.mines) \X {1}) \cup ((Cell \ q.safe) \X {2})
      BY <1>7, <2>2
    <2>6. m[q] \subseteq m[p]
      BY <2>2, <2>4, <2>5
    <2>7. ASSUME NEW c \in q.mines \ p.mines PROVE <<c, 1>> \in m[p] /\ <<c, 1>> \notin m[q]
      BY <2>2, <2>4, <2>5 DEF Knowledge
    <2>8. ASSUME NEW c \in q.safe \ p.safe PROVE <<c, 2>> \in m[p] /\ <<c, 2>> \notin m[q]
      BY <2>2, <2>4, <2>5 DEF Knowledge
    <2>9. QED
      BY <2>1, <2>2, <2>3, <2>6, <2>7, <2>8
  <1>11. PICK p : p = [mines |-> K, safe |-> {}]
    OBVIOUS
  <1>12. PICK o : o = out
    OBVIOUS
  <1>13. \E q \in A : g[q] = q /\ f[p] = o[q]
    <2>1. g \in [Knowledge -> Knowledge]
      BY <1>6, PassType
    <2>2. Loops(Knowledge, g, o, f) /\ p \in A /\ \A r \in A : g[r] \in A
      BY <1>5, <1>6, <1>11, <1>12
    <2>3. QED
      BY ONLY <1>9, <1>10, <2>1, <2>2, A \in SUBSET Knowledge, LoopEnds
  <1>14. QED
    BY <1>1, <1>4, <1>11, <1>12, <1>13

\* What does not go beyond it.
Below(R, K, S) == {p \in Knowledge : p.mines \subseteq K /\ p.safe \subseteq R \cup S}

LEMMA DeducedBelow ==
    ASSUME mines \subseteq Cell, NEW R, NEW K, NEW S, Exhausted(R, K, S),
           NEW Q, Q \subseteq R, NEW L, L \subseteq K
    PROVE  Deduced(Q, L) \in Below(R, K, S)
  <1> DEFINE A == Below(R, K, S)
  <1>1. Q \subseteq Cell /\ K \subseteq Cell
    BY DEF Exhausted, Sound
  <1>2. [mines |-> L, safe |-> {}] \in A
    BY <1>1 DEF Knowledge, Below
  <1>3. ASSUME NEW p \in A PROVE Pass(Q)[p] \in A
    <2>1. p \in Knowledge /\ p.mines \subseteq K /\ p.safe \subseteq R \cup S
      BY DEF Below
    <2>2. PICK q : q = Pass(Q)[p]
      OBVIOUS
    <2>3. q \in Knowledge
      BY <1>1, <2>1, <2>2, PassType
    <2>4. /\ q.mines = p.mines \cup PassMines(Q, p.mines, p.safe)
          /\ q.safe = p.safe \cup PassSafe(Q, p.mines, p.safe)
      BY <2>1, <2>2 DEF Pass
    <2>5. PassMines(Q, p.mines, p.safe) \subseteq K /\ PassSafe(Q, p.mines, p.safe) \subseteq R \cup S
      <3>1. PICK M, T : M = p.mines /\ T = p.safe
        OBVIOUS
      <3>2. M \subseteq K /\ T \subseteq R \cup S
        BY <2>1, <3>1
      <3>3. PassMines(Q, M, T) \subseteq K /\ PassSafe(Q, M, T) \subseteq R \cup S
        BY ONLY mines \subseteq Cell, Exhausted(R, K, S), Q \subseteq R, <3>2, PassBelow
      <3>4. QED
        BY <3>1, <3>3
    <2>6. QED
      BY <2>1, <2>2, <2>3, <2>4, <2>5 DEF Below
  <1>4. Deduced(Q, L) \in A
    <2> HIDE DEF A
    <2>1. A \in SUBSET Knowledge
      BY DEF A, Below
    <2>2. QED
      BY <1>1, <1>2, <1>3, <2>1, DeducedWithin
  <1>5. QED
    BY <1>4

\* A cascade stays within what the zeros in it do not leave.
LEMMA FloodWithin ==
    ASSUME NEW c \in Cell, NEW U, U \subseteq Cell, NEW T, T \subseteq Cell, c \in T,
           \A S \in SUBSET T : Beside(S, U) \subseteq T
    PROVE  Flood(c, U) \subseteq T
  <1> DEFINE Body(f) == [S \in SUBSET Cell |->
                            IF Beside(S, U) = {} THEN S ELSE f[S \cup Beside(S, U)]]
  <1>1. PICK g : g = [S \in SUBSET Cell |-> S \cup Beside(S, U)]
    OBVIOUS
  <1>2. PICK o : o = [S \in SUBSET Cell |-> S]
    OBVIOUS
  <1>3. PICK m : m = [S \in SUBSET Cell |-> Cell \ S]
    OBVIOUS
  <1>4. Flood(c, U) = (CHOOSE f : f = Body(f))[{c}]
    BY DEF Flood
  <1>5. ASSUME NEW S PROVE Beside(S, U) \subseteq Cell /\ Beside(S, U) \cap S = {}
    BY DEF Beside
  <1>6. ASSUME NEW f PROVE f = Body(f) <=> Loops(SUBSET Cell, g, o, f)
    <2>1. \A S \in SUBSET Cell : Beside(S, U) = {} <=> g[S] = S
      BY <1>1, <1>5
    <2>2. [S \in SUBSET Cell |-> IF g[S] = S THEN o[S] ELSE f[g[S]]] = Body(f)
      BY <1>1, <1>2, <2>1
    <2> HIDE DEF Body
    <2>3. QED
      BY <2>2 DEF Loops
  <1>7. g \in [SUBSET Cell -> SUBSET Cell]
    BY <1>1, <1>5
  <1>8. \E f : Loops(SUBSET Cell, g, o, f)
    BY <1>7, LoopExists
  <1>9. PICK f : f = CHOOSE h : h = Body(h)
    OBVIOUS
  <1>10. Loops(SUBSET Cell, g, o, f)
    <2> HIDE DEF Body
    <2> QED BY <1>6, <1>8, <1>9
  <1>11. m \in [SUBSET Cell -> SUBSET Cell]
    BY <1>3
  <1>12. ASSUME NEW p \in SUBSET Cell, g[p] # p PROVE m[g[p]] \subseteq m[p] /\ m[g[p]] # m[p]
    <2>1. PICK q : q = g[p]
      OBVIOUS
    <2>2. q \in SUBSET Cell /\ p \subseteq q /\ q # p
      BY <1>1, <1>7, <1>12, <2>1
    <2>3. m[q] = Cell \ q /\ m[p] = Cell \ p
      BY <1>3, <2>2
    <2>4. QED
      BY <2>1, <2>2, <2>3
  <1>13. PICK A : A = SUBSET T
    OBVIOUS
  <1>14. /\ A \in SUBSET SUBSET Cell /\ {c} \in A
         /\ \A p \in A : g[p] \in A
    BY <1>1, <1>13
  <1>15. PICK s : s = {c}
    OBVIOUS
  <1>16. \E q \in A : g[q] = q /\ f[s] = o[q]
    <2>1. PICK P, S : P = SUBSET Cell /\ S = Cell
      OBVIOUS
    <2>2. IsFiniteSet(S) /\ g \in [P -> P] /\ m \in [P -> SUBSET S] /\ Loops(P, g, o, f)
      BY <1>7, <1>10, <1>11, <2>1, CellsFinite
    <2>3. \A p \in P : g[p] # p => m[g[p]] \subseteq m[p] /\ m[g[p]] # m[p]
      BY <1>12, <2>1
    <2>4. A \in SUBSET P /\ s \in A /\ \A p \in A : g[p] \in A
      BY <1>14, <1>15, <2>1
    <2>5. QED
      BY ONLY <2>2, <2>3, <2>4, LoopEnds
  <1>17. f[s] \in SUBSET T
    BY <1>2, <1>13, <1>14, <1>16
  <1>18. QED
    <2> HIDE DEF Body
    <2> QED BY <1>4, <1>9, <1>15, <1>17

\* Cells that no cascade leaves: their zeros have uncovered what is around.
Cascaded(R) == \A z \in R : Adjacent(z) = 0 => Neighbors[z] \subseteq R

LEMMA FloodBelow ==
    ASSUME NEW R, R \subseteq Cell, Cascaded(R), NEW c \in R, NEW U, U \subseteq Cell
    PROVE  Flood(c, U) \subseteq R
  <1>1. ASSUME NEW S \in SUBSET R PROVE Beside(S, U) \subseteq R
    BY DEF Beside, BesideZeros, Cascaded
  <1>2. QED
    BY <1>1, FloodWithin

LEMMA DeducedType ==
    ASSUME NEW R, R \subseteq Cell, NEW K, K \subseteq Cell
    PROVE  Deduced(R, K) \in Knowledge
  <1>1. [mines |-> K, safe |-> {}] \in Knowledge
    BY DEF Knowledge
  <1>2. \A p \in Knowledge : Pass(R)[p] \in Knowledge
    BY PassType
  <1>3. Knowledge \in SUBSET Knowledge
    OBVIOUS
  <1>4. QED
    BY <1>1, <1>2, <1>3, DeducedWithin

LEMMA FloodType ==
    ASSUME NEW c \in Cell, NEW U, U \subseteq Cell
    PROVE  Flood(c, U) \subseteq Cell
  <1>1. \A S \in SUBSET Cell : Beside(S, U) \subseteq Cell
    BY DEF Beside
  <1>2. Cell \subseteq Cell
    OBVIOUS
  <1>3. QED
    BY <1>1, <1>2, FloodWithin

\* The generator's rounds stay within the cells of a bot that is stuck.
LEMMA UncoveredBelow ==
    ASSUME mines \subseteq Cell, NEW R, NEW K, Exhausted(R, K, {}), Cascaded(R), Start \in R
    PROVE  Uncovered \subseteq R
  <1> DEFINE More(s) == s.shown \cup
                            UNION {Flood(c, Cell \ s.shown) : c \in Deduced(s.shown, s.mines).safe}
             Next1(s) == [shown |-> More(s), mines |-> Deduced(s.shown, s.mines).mines]
             Body(f) == [s \in [shown : SUBSET Cell, mines : SUBSET Cell] |->
                            LET d == Deduced(s.shown, s.mines)
                                more == s.shown \cup
                                            UNION {Flood(c, Cell \ s.shown) : c \in d.safe}
                            IN IF more = s.shown THEN more
                               ELSE f[[shown |-> more, mines |-> d.mines]]]
  <1>1. R \subseteq Cell /\ K \subseteq Cell
    BY DEF Exhausted, Sound
  <1>2. Uncovered = (CHOOSE f : f = Body(f))[[shown |-> Flood(Start, Cell), mines |-> {}]]
    BY DEF Uncovered
  <1>3. PICK P : P = [shown : SUBSET Cell, mines : SUBSET Cell]
    OBVIOUS
  <1>4. ASSUME NEW f PROVE Body(f) = [s \in P |-> IF More(s) = s.shown THEN s.shown ELSE f[Next1(s)]]
    BY <1>3
  <1>5. ASSUME NEW s \in P PROVE s.shown \subseteq Cell /\ s.mines \subseteq Cell /\ Next1(s) \in P
    <2>1. s.shown \subseteq Cell /\ s.mines \subseteq Cell
      BY <1>3
    <2>2. PICK Q, L : Q = s.shown /\ L = s.mines
      OBVIOUS
    <2>3. Deduced(Q, L).mines \subseteq Cell /\ Deduced(Q, L).safe \subseteq Cell
      BY <2>1, <2>2, DeducedType DEF Knowledge
    <2>4. ASSUME NEW c \in Deduced(Q, L).safe PROVE Flood(c, Cell \ Q) \subseteq Cell
      BY <2>3, FloodType
    <2>5. More(s) \subseteq Cell
      BY <2>1, <2>2, <2>4
    <2> HIDE DEF More
    <2>6. QED
      BY <1>3, <2>1, <2>2, <2>3, <2>5
  <1>6. PICK A : A = {s \in P : s.shown \subseteq R /\ s.mines \subseteq K}
    OBVIOUS
  <1>7. ASSUME NEW s \in A PROVE Next1(s) \in A
    <2>1. s \in P /\ s.shown \subseteq R /\ s.mines \subseteq K
      BY <1>6
    <2>2. PICK Q, L : Q = s.shown /\ L = s.mines
      OBVIOUS
    <2>3. Deduced(Q, L).mines \subseteq K /\ Deduced(Q, L).safe \subseteq R
      <3>1. Q \subseteq R /\ L \subseteq K
        BY <2>1, <2>2
      <3>2. PICK S : S = {}
        OBVIOUS
      <3>3. Exhausted(R, K, S)
        BY <3>2
      <3>4. Deduced(Q, L) \in Below(R, K, S)
        BY <3>1, <3>3, DeducedBelow
      <3>5. QED
        BY <3>2, <3>4 DEF Below
    <2>4. ASSUME NEW c \in Deduced(Q, L).safe PROVE Flood(c, Cell \ Q) \subseteq R
      <3>1. c \in R
        BY <2>3
      <3>2. QED
        BY <1>1, <3>1, FloodBelow
    <2>5. More(s) \subseteq R
      BY <2>1, <2>2, <2>4
    <2>6. Next1(s) \in P
      BY <1>5, <2>1
    <2> HIDE DEF More
    <2>7. QED
      BY <1>6, <2>2, <2>3, <2>5, <2>6
  <1> HIDE DEF More
  <1>8. PICK g : g = [s \in P |-> IF More(s) = s.shown THEN s ELSE Next1(s)]
    OBVIOUS
  <1>9. PICK o : o = [s \in P |-> s.shown]
    OBVIOUS
  <1>10. PICK m : m = [s \in P |-> Cell \ s.shown]
    OBVIOUS
  <1>11. g \in [P -> P] /\ m \in [P -> SUBSET Cell]
    <2>1. \A s \in P : Next1(s) \in P
      BY <1>5
    <2> HIDE DEF Next1
    <2>2. QED
      BY <1>8, <1>10, <2>1
  <1>12. ASSUME NEW f PROVE f = Body(f) <=> Loops(P, g, o, f)
    <2>1. \A s \in P : More(s) = s.shown <=> g[s] = s
      BY <1>8
    <2>2. [s \in P |-> IF More(s) = s.shown THEN s.shown ELSE f[Next1(s)]]
            = [s \in P |-> IF g[s] = s THEN o[s] ELSE f[g[s]]]
      <3> HIDE DEF Next1
      <3> QED BY <1>8, <1>9, <2>1
    <2> HIDE DEF Body, Next1
    <2>3. QED
      BY <1>4, <2>2 DEF Loops
  <1> HIDE DEF Body
  <1>13. \E f : Loops(P, g, o, f)
    BY <1>11, LoopExists
  <1>14. PICK f : f = CHOOSE h : h = Body(h)
    OBVIOUS
  <1>15. Loops(P, g, o, f)
    BY <1>12, <1>13, <1>14
  <1>16. ASSUME NEW s \in P, g[s] # s PROVE m[g[s]] \subseteq m[s] /\ m[g[s]] # m[s]
    <2>1. More(s) # s.shown /\ g[s] = Next1(s)
      BY <1>8, <1>16
    <2>2. PICK q : q = g[s]
      OBVIOUS
    <2>3. q \in P /\ q.shown = More(s)
      BY <1>11, <2>1, <2>2
    <2>4. s.shown \subseteq q.shown
      BY <2>3 DEF More
    <2>5. m[q] = Cell \ q.shown /\ m[s] = Cell \ s.shown
      BY <1>10, <2>3
    <2>6. q.shown \subseteq Cell
      BY <1>5, <2>3
    <2>7. QED
      BY <2>1, <2>2, <2>3, <2>4, <2>5, <2>6
  <1>17. PICK s : s = [shown |-> Flood(Start, Cell), mines |-> {}]
    OBVIOUS
  <1>18. s \in A
    <2>1. PICK U : U = Cell
      OBVIOUS
    <2>2. Flood(Start, U) \subseteq R
      BY <1>1, <2>1, FloodBelow
    <2>3. QED
      BY <1>1, <1>3, <1>6, <1>17, <2>1, <2>2
  <1>19. \A r \in A : g[r] \in A
    <2>1. \A r \in A : r \in P /\ Next1(r) \in A
      BY <1>6, <1>7
    <2> HIDE DEF Next1
    <2>2. QED
      BY <1>8, <2>1
  <1>20. \E q \in A : g[q] = q /\ f[s] = o[q]
    <2>1. PICK S : S = Cell
      OBVIOUS
    <2>2. IsFiniteSet(S) /\ g \in [P -> P] /\ m \in [P -> SUBSET S] /\ Loops(P, g, o, f)
      BY <1>11, <1>15, <2>1, CellsFinite
    <2>3. \A p \in P : g[p] # p => m[g[p]] \subseteq m[p] /\ m[g[p]] # m[p]
      BY <1>16
    <2>4. A \in SUBSET P /\ s \in A /\ \A p \in A : g[p] \in A
      BY <1>6, <1>18, <1>19
    <2>5. QED
      BY ONLY <2>2, <2>3, <2>4, LoopEnds
  <1>21. f[s] \subseteq R
    BY <1>6, <1>9, <1>20
  <1>22. QED
    BY <1>2, <1>14, <1>17, <1>21
=============================================================================

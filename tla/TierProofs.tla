----------------------------- MODULE TierProofs -----------------------------
(***************************************************************************)
(* The upper tiers on boards of any size, in whatever order cells are      *)
(* uncovered and groups split, added, merged and divided: no tier draws a  *)
(* false conclusion, the components of the counting tiers share no cell and*)
(* forget none, and they find all that the numbers imply, the probabilistic*)
(* tier exactly that, for the generator as for a bot; the subset tier      *)
(* finds all that the basic rules find.                                    *)
(***************************************************************************)
EXTENDS SolverTiers, BoardProofs

-----------------------------------------------------------------------------
(* Mine groups.                                                            *)

\* A group that is right about the board.
RightGroup(g) == g.cells \subseteq Cell /\ g.mines = Cardinality(g.cells \cap mines)

AllRight(grp) == \A o \in DOMAIN grp : RightGroup(grp[o])

LEMMA PartsFinite ==
    ASSUME NEW S, S \subseteq Cell
    PROVE  IsFiniteSet(S) /\ Cardinality(S) \in Nat
  BY CellsFinite, FS_Subset, FS_CardinalityType

\* The sizes of a set and of a part of it differ by that of the rest.
LEMMA RestCounted ==
    ASSUME NEW S, S \subseteq Cell, NEW T, T \subseteq S
    PROVE  Cardinality(S \ T) = Cardinality(S) - Cardinality(T)
  <1>1. S \cap T = T
    OBVIOUS
  <1>2. QED
    BY <1>1, PartsFinite, FS_Difference

\* A number says how many of its open neighbors are mines.
LEMMA ConstraintRight ==
    ASSUME mines \subseteq Cell, NEW R, R \subseteq Cell \ mines, NEW K, K \subseteq mines,
           NEW S, S \cap mines = {}, NEW c \in R
    PROVE  RightGroup(Constraint(c, R, K, S))
  <1> DEFINE near == Neighbors[c] \cap mines
             flagged == Neighbors[c] \cap K
             open == Open(c, R, K, S)
  <1>1. c \in Cell /\ c \notin mines /\ Neighbors[c] \subseteq Cell
    BY NeighborsAreCells
  <1>2. open \cap mines = near \ flagged /\ flagged \subseteq near /\ near \subseteq Cell
    BY <1>1 DEF Open
  <1>3. Cardinality(open \cap mines) = Cardinality(near) - Cardinality(flagged)
    BY <1>2, RestCounted
  <1>4. Adjacent(c) = Cardinality(near)
    BY <1>1 DEF Adjacent
  <1>5. open \subseteq Cell
    BY <1>1 DEF Open
  <1>6. QED
    BY <1>3, <1>4, <1>5 DEF RightGroup, Constraint

LEMMA SplitRight ==
    ASSUME AllRight(groups), NEW s \in DOMAIN groups, NEW t \in DOMAIN groups, Nested(s, t)
    PROVE  DOMAIN Split(s, t) = DOMAIN groups /\ AllRight(Split(s, t))
  <1> DEFINE inner == groups[s].cells \cap mines
             outer == groups[t].cells \cap mines
  <1>1. RightGroup(groups[s]) /\ RightGroup(groups[t])
    BY DEF AllRight
  <1>2. inner \subseteq outer /\ outer \subseteq Cell
    BY <1>1 DEF Nested, RightGroup
  <1>3. (groups[t].cells \ groups[s].cells) \cap mines = outer \ inner
    OBVIOUS
  <1>4. Cardinality(outer \ inner) = groups[t].mines - groups[s].mines
    BY <1>1, <1>2, RestCounted DEF RightGroup
  <1>5. DOMAIN Split(s, t) = DOMAIN groups
    BY DEF Split
  <1>6. ASSUME NEW o \in DOMAIN groups
        PROVE  RightGroup(Split(s, t)[o])
    <2>1. CASE o = t
      BY <1>1, <1>3, <1>4, <2>1 DEF Split, RightGroup
    <2>2. CASE o # t
      BY <2>2 DEF Split, AllRight
    <2>3. QED
      BY <2>1, <2>2
  <1>7. QED
    BY <1>5, <1>6 DEF AllRight

LEMMA StripRight ==
    ASSUME AllRight(groups), NEW S, S \cap mines = {}, NEW K, K \subseteq mines
    PROVE  DOMAIN Strip(S, K) \subseteq DOMAIN groups /\ AllRight(Strip(S, K))
  <1>1. DOMAIN Strip(S, K) \subseteq DOMAIN groups
    BY DEF Strip
  <1>2. ASSUME NEW o \in DOMAIN Strip(S, K)
        PROVE  RightGroup(Strip(S, K)[o])
    <2> DEFINE all == groups[o].cells \cap mines
               gone == groups[o].cells \cap K
    <2>1. RightGroup(groups[o])
      BY <1>1 DEF AllRight
    <2>2. gone \subseteq all /\ all \subseteq Cell
      BY <2>1 DEF RightGroup
    <2>3. (groups[o].cells \ (S \cup K)) \cap mines = all \ gone
      OBVIOUS
    <2>4. Cardinality(all \ gone) = groups[o].mines - Cardinality(gone)
      BY <2>1, <2>2, RestCounted DEF RightGroup
    <2>5. Strip(S, K)[o] = [cells |-> groups[o].cells \ (S \cup K),
                            mines |-> groups[o].mines - Cardinality(gone)]
      BY DEF Strip
    <2>6. QED
      BY <2>1, <2>3, <2>4, <2>5 DEF RightGroup
  <1>3. QED
    BY <1>1, <1>2 DEF AllRight

\* The conclusions of the subset tier.
LEMMA ConclusionsTrue ==
    ASSUME AllRight(groups)
    PROVE  /\ CellsOf(SafeGroups(DOMAIN groups)) \subseteq Cell \ mines
           /\ CellsOf(MineOnlyGroups(DOMAIN groups)) \subseteq mines
  <1>1. ASSUME NEW o \in DOMAIN groups, groups[o].mines = 0
        PROVE  groups[o].cells \subseteq Cell \ mines
    <2>1. groups[o].cells \subseteq Cell /\ Cardinality(groups[o].cells \cap mines) = 0
      BY <1>1 DEF AllRight, RightGroup
    <2>2. groups[o].cells \cap mines = {}
      BY <2>1, PartsFinite, FS_EmptySet
    <2>3. QED
      BY <2>1, <2>2
  <1>2. ASSUME NEW o \in DOMAIN groups, groups[o].mines = Cardinality(groups[o].cells)
        PROVE  groups[o].cells \subseteq mines
    <2>1. groups[o].cells \subseteq Cell
          /\ Cardinality(groups[o].cells \cap mines) = Cardinality(groups[o].cells)
      BY <1>2 DEF AllRight, RightGroup
    <2>2. groups[o].cells \cap mines = groups[o].cells
      BY <2>1, PartsFinite, FS_Subset
    <2>3. QED
      BY <2>2
  <1>3. QED
    BY <1>1, <1>2 DEF CellsOf, SafeGroups, MineOnlyGroups

-----------------------------------------------------------------------------
(* The groups of the probabilistic and the perfect tier, call after call:  *)
(* where they are kept.                                                    *)

\* A solver is of the same tier all the time.
LEMMA TierStays == [Next]_vars => tier' = tier
  BY DEF Next, Solving, SubsetNext, SubsetRecord, SubsetSplit, SubsetConclude, ComponentNext,
     Record, Reassess, AddConstraint, AddGroup, Divide, Solve, Spread, EndReveal, UncoverAll,
     Verdict, ClickQueued, Guess, Click, solverVars, vars

\* Cells are cells, and groups are added only in the third step of a call.
Placing ==
    /\ revealed \cup known \cup pending \cup safe \cup queue \subseteq Cell
    /\ adding \in Seq(DOMAIN groups)
    /\ adding = <<>> => target = {}
    /\ todo \subseteq comps /\ fresh \subseteq revealed
    /\ phase \in {"reveal", "feed", "groups", "solve", "decide"}
    /\ phase # "groups" => adding = <<>> /\ todo = {} /\ fresh = {}

\* The solver knows the cells uncovered before this call; a cascade and the queue
\* hold others, and a call ends with safe cells that are covered.
UncoveredOnce ==
    /\ phase = "feed" => shown = revealed \cup pending
    /\ phase # "feed" => shown = revealed
    /\ phase \in {"reveal", "feed"} => pending \cap revealed = {}
    /\ queue \cap shown = {}
    /\ phase = "decide" => safe \cap revealed = {}

\* A cascade has uncovered what is beside the zeros it met.
ZerosDone ==
    phase = "feed" =>
        \A c \in pending : Adjacent(c) = 0 => Neighbors[c] \subseteq revealed \cup pending

\* Groups are not empty and come from numbers; that of a new number is still to come.
GroupsNamed ==
    /\ DOMAIN groups \subseteq revealed \ fresh
    /\ \A o \in DOMAIN groups : groups[o].cells # {}
    /\ \A c \in fresh : Open(c, revealed, known, {}) # {}

\* The groups hold the unknown cells beside the numbers that were added, and blank
\* the cells beside none.
GroupsCover ==
    /\ CellsOf(DOMAIN groups) = UNION {Open(c, revealed, known, {}) : c \in revealed \ fresh}
    /\ blank = Cell \ (revealed \cup known \cup CellsOf(DOMAIN groups))

\* The groups at work and the component they are added to.
Loose == target \cup Range(adding)

\* Each group is in a component or at work, and these share no cell.
Apart ==
    /\ (UNION comps) \cup Loose = DOMAIN groups
    /\ \A C \in comps : CellsOf(C) \cap CellsOf(Loose) = {}
    /\ \A C, D \in comps : C # D => CellsOf(C) \cap CellsOf(D) = {}

Kept == Placing /\ UncoveredOnce /\ ZerosDone /\ GroupsNamed /\ GroupsCover /\ Apart

ApartInv == tier # "subset" => Kept

-----------------------------------------------------------------------------
(* The cells of groups that change.                                        *)

Cells(grp, C) == UNION {grp[o].cells : o \in C}

LEMMA CellsAre == /\ \A C : CellsOf(C) = Cells(groups, C)
                  /\ \A C : CellsOf(C)' = Cells(groups', C)
  BY DEF CellsOf, Cells

\* A split moves cells within the two groups.
LEMMA SplitCells ==
    ASSUME NEW s \in DOMAIN groups, NEW t \in DOMAIN groups, Nested(s, t), NEW grp,
           grp = Split(s, t), \A o \in DOMAIN groups : groups[o].cells # {}
    PROVE  /\ s # t /\ DOMAIN grp = DOMAIN groups
           /\ \A o \in DOMAIN groups : grp[o].cells # {}
           /\ \A C \in SUBSET DOMAIN groups :
                 t \notin C \/ s \in C => Cells(grp, C) = Cells(groups, C)
  <1>1. s # t /\ groups[s].cells \subseteq groups[t].cells /\ groups[s].cells # groups[t].cells
    BY DEF Nested
  <1>2. /\ DOMAIN grp = DOMAIN groups
        /\ grp[t].cells = groups[t].cells \ groups[s].cells
        /\ \A o \in DOMAIN groups \ {t} : grp[o].cells = groups[o].cells
    BY DEF Split
  <1>3. ASSUME NEW o \in DOMAIN groups PROVE grp[o].cells # {}
    <2>1. CASE o = t
      BY <1>1, <1>2, <2>1
    <2>2. CASE o # t
      BY <1>2, <2>2
    <2>3. QED
      BY <2>1, <2>2
  <1>4. ASSUME NEW C \in SUBSET DOMAIN groups, t \notin C \/ s \in C
        PROVE  Cells(grp, C) = Cells(groups, C)
    <2>1. CASE t \notin C
      <3>1. \A o \in C : grp[o].cells = groups[o].cells
        BY <1>2, <2>1
      <3>2. QED
        BY <3>1 DEF Cells
    <2>2. CASE t \in C /\ s \in C
      <3>1. \A x : x \in Cells(grp, C) => x \in Cells(groups, C)
        <4>1. \A o \in C : grp[o].cells \subseteq groups[o].cells
          BY <1>2
        <4>2. QED
          BY <4>1 DEF Cells
      <3>2. ASSUME NEW o \in C, NEW x \in groups[o].cells PROVE x \in Cells(grp, C)
        <4>1. CASE o # t
          <5>1. x \in grp[o].cells
            BY <1>2, <4>1, <3>2
          <5>2. QED
            BY <5>1 DEF Cells
        <4>2. CASE o = t
          <5>1. x \in grp[t].cells \/ x \in grp[s].cells
            BY <1>1, <1>2, <4>2, <3>2
          <5>2. QED
            BY <5>1, <2>2 DEF Cells
        <4>3. QED
          BY <4>1, <4>2
      <3>3. QED
        BY <3>1, <3>2 DEF Cells
    <2>3. QED
      BY <1>4, <2>1, <2>2
  <1>5. QED
    BY <1>1, <1>2, <1>3, <1>4

\* Cells that leave the groups.
LEMMA StripCells ==
    ASSUME NEW S, NEW K, NEW grp, grp = Strip(S, K)
    PROVE  /\ DOMAIN grp \subseteq DOMAIN groups
           /\ \A o \in DOMAIN grp : grp[o].cells # {}
           /\ \A C \in SUBSET DOMAIN groups :
                 Cells(grp, C \cap DOMAIN grp) = Cells(groups, C) \ (S \cup K)
  <1>1. DOMAIN grp = {p \in DOMAIN groups : ~(groups[p].cells \subseteq S \cup K)}
    BY DEF Strip
  <1>2. \A o \in DOMAIN grp : grp[o].cells = groups[o].cells \ (S \cup K)
    BY DEF Strip
  <1>3. \A o \in DOMAIN grp : grp[o].cells # {}
    BY <1>1, <1>2
  <1>4. ASSUME NEW C \in SUBSET DOMAIN groups
        PROVE  Cells(grp, C \cap DOMAIN grp) = Cells(groups, C) \ (S \cup K)
    <2>1. ASSUME NEW o \in C, NEW x \in groups[o].cells, x \notin S \cup K
          PROVE  o \in DOMAIN grp /\ x \in grp[o].cells
      BY <1>1, <1>2, <2>1
    <2>2. \A o \in C \cap DOMAIN grp : grp[o].cells \subseteq groups[o].cells \ (S \cup K)
      BY <1>2
    <2>3. Cells(grp, C \cap DOMAIN grp) \subseteq Cells(groups, C) \ (S \cup K)
      BY <2>2 DEF Cells
    <2>4. ASSUME NEW x \in Cells(groups, C) \ (S \cup K)
          PROVE  x \in Cells(grp, C \cap DOMAIN grp)
      <3>1. PICK o \in C : x \in groups[o].cells
        BY DEF Cells
      <3>2. o \in C \cap DOMAIN grp /\ x \in grp[o].cells
        BY <2>1, <2>4, <3>1
      <3>3. QED
        BY <3>2 DEF Cells
    <2>5. QED
      BY <2>3, <2>4
  <1>5. QED
    BY <1>1, <1>3, <1>4

\* A group of one component is in no other.
LEMMA OneComponent ==
    ASSUME GroupsNamed, NEW C \in SUBSET DOMAIN groups, NEW D \in SUBSET DOMAIN groups,
           CellsOf(C) \cap CellsOf(D) = {}
    PROVE  C \cap D = {}
  <1> SUFFICES ASSUME NEW o \in C \cap D PROVE FALSE
    OBVIOUS
  <1>1. groups[o].cells # {} /\ groups[o].cells \subseteq CellsOf(C) \cap CellsOf(D)
    BY DEF GroupsNamed, CellsOf
  <1>2. QED
    BY <1>1

LEMMA NoCells == \A grp : Cells(grp, {}) = {}
  BY DEF Cells

\* The elements of sequences that grow and shrink at their head.
LEMMA RangeTail ==
    ASSUME NEW S, NEW q \in Seq(S), q # <<>>
    PROVE  /\ Head(q) \in S /\ Tail(q) \in Seq(S)
           /\ Range(q) = {Head(q)} \cup Range(Tail(q))
  <1>1. Head(q) \in S /\ Tail(q) \in Seq(S) /\ Head(q) = q[1]
    OBVIOUS
  <1>2. Len(q) \in Nat \ {0} /\ Len(Tail(q)) = Len(q) - 1 /\ DOMAIN q = 1..Len(q)
        /\ DOMAIN Tail(q) = 1..Len(Tail(q))
    BY <1>1
  <1>3. \A i \in 1..Len(Tail(q)) : Tail(q)[i] = q[i + 1]
    OBVIOUS
  <1>4. ASSUME NEW x \in Range(q) PROVE x \in {Head(q)} \cup Range(Tail(q))
    <2>1. PICK i \in 1..Len(q) : x = q[i]
      BY <1>2 DEF Range
    <2>2. CASE i = 1
      BY <1>1, <2>1, <2>2
    <2>3. CASE i # 1
      <3>1. i - 1 \in 1..Len(Tail(q))
        BY <1>2, <2>3
      <3>2. Tail(q)[i - 1] = q[(i - 1) + 1] /\ (i - 1) + 1 = i
        BY <1>2, <1>3, <3>1
      <3>3. x = Tail(q)[i - 1]
        BY <2>1, <3>2
      <3>4. QED
        BY <1>2, <3>1, <3>3 DEF Range
    <2>4. QED
      BY <2>2, <2>3
  <1>5. ASSUME NEW x \in Range(Tail(q)) PROVE x \in Range(q)
    <2>1. PICK i \in 1..Len(Tail(q)) : x = Tail(q)[i]
      BY <1>2 DEF Range
    <2>2. i + 1 \in 1..Len(q) /\ x = q[i + 1]
      BY <1>2, <1>3, <2>1
    <2>3. QED
      BY <1>2, <2>2 DEF Range
  <1>6. Head(q) \in Range(q)
    BY <1>1, <1>2 DEF Range
  <1>7. QED
    BY <1>1, <1>4, <1>5, <1>6

LEMMA RangePair ==
    ASSUME NEW S, NEW s \in S, NEW t \in S, NEW q \in Seq(S)
    PROVE  /\ <<s, t>> \o q \in Seq(S) /\ <<s, t>> \o q # <<>>
           /\ Range(<<s, t>> \o q) = {s, t} \cup Range(q)
  <1> DEFINE w == <<s, t>> \o q
  <1>1. <<s, t>> \in Seq(S) /\ Len(<<s, t>>) = 2
    OBVIOUS
  <1>2. w \in Seq(S) /\ Len(w) = Len(q) + 2 /\ Len(q) \in Nat
    BY <1>1
  <1>3. w[1] = s /\ w[2] = t /\ \A i \in 1..Len(q) : w[i + 2] = q[i]
    BY <1>1
  <1>4. DOMAIN w = 1..Len(w) /\ DOMAIN q = 1..Len(q)
    BY <1>2
  <1> HIDE DEF w
  <1>5. ASSUME NEW x \in Range(w) PROVE x \in {s, t} \cup Range(q)
    <2>1. PICK i \in 1..Len(w) : x = w[i]
      BY <1>4 DEF Range
    <2>2. CASE i \in {1, 2}
      BY <1>3, <2>1, <2>2
    <2>3. CASE i \notin {1, 2}
      <3>1. i - 2 \in 1..Len(q)
        BY <1>2, <2>3
      <3>2. w[(i - 2) + 2] = q[i - 2]
        BY <1>3, <3>1
      <3>3. x = q[i - 2]
        BY <2>1, <3>2
      <3>4. QED
        BY <1>4, <3>1, <3>3 DEF Range
    <2>4. QED
      BY <2>2, <2>3
  <1>6. ASSUME NEW x \in {s, t} \cup Range(q) PROVE x \in Range(w)
    <2>1. CASE x \in {s, t}
      BY <1>2, <1>3, <1>4, <2>1 DEF Range
    <2>2. CASE x \in Range(q)
      <3>1. PICK i \in 1..Len(q) : x = q[i]
        BY <1>4, <2>2 DEF Range
      <3>2. i + 2 \in 1..Len(w) /\ x = w[i + 2]
        BY <1>2, <1>3, <3>1
      <3>3. QED
        BY <1>4, <3>2 DEF Range
    <2>3. QED
      BY <2>1, <2>2
  <1>7. w # <<>>
    BY <1>2
  <1>8. QED
    BY <1>2, <1>5, <1>6, <1>7 DEF w

LEMMA RangeShort == /\ Range(<<>>) = {}
                    /\ \A s : Range(<<s>>) = {s}
                    /\ \A s, t : Range(<<s, t>>) = {s, t}
  <1>1. DOMAIN <<>> = {} /\ \A s, t : DOMAIN <<s>> = {1} /\ DOMAIN <<s, t>> = {1, 2}
    OBVIOUS
  <1>2. QED
    BY <1>1 DEF Range

\* The board, what is known of it and what happens outside the groups at work.
Elsewhere == <<mines, revealed, known, safe, pending, phase, blank, shown, queue>>

\* What the steps that split a group of the loose ones keep.
LEMMA SplitInLoose ==
    ASSUME Kept, phase = "groups", UNCHANGED <<Elsewhere, fresh>>,
           NEW s \in DOMAIN groups, NEW t \in DOMAIN groups, Nested(s, t), groups' = Split(s, t),
           NEW L \in SUBSET DOMAIN groups, s \in L, t \in L, Loose' = L,
           comps' \subseteq comps, (UNION comps') \cup L = DOMAIN groups,
           \A C \in comps' : CellsOf(C) \cap CellsOf(L) = {},
           adding' \in Seq(DOMAIN groups), adding' # <<>>, todo' \subseteq comps'
    PROVE  Kept'
  <1>1. /\ DOMAIN groups' = DOMAIN groups
        /\ \A o \in DOMAIN groups : groups'[o].cells # {}
        /\ \A C \in SUBSET DOMAIN groups :
              t \notin C \/ s \in C => Cells(groups', C) = Cells(groups, C)
    BY SplitCells DEF Kept, GroupsNamed
  <1>2. ASSUME NEW C \in comps'
        PROVE  /\ C \in SUBSET DOMAIN groups /\ C \in comps
               /\ Cells(groups', C) = Cells(groups, C)
    <2>1. C \in SUBSET DOMAIN groups
      BY <1>2
    <2>2. C \cap L = {}
      BY <1>2, <2>1, OneComponent DEF Kept
    <2>3. QED
      BY <1>1, <1>2, <2>1, <2>2
  <1>3. Cells(groups', L) = Cells(groups, L)
    BY <1>1
  <1>4. Cells(groups', DOMAIN groups') = Cells(groups, DOMAIN groups)
    BY <1>1
  <1>5. Placing'
    BY <1>1 DEF Kept, Placing, Elsewhere
  <1>6. UncoveredOnce' /\ ZerosDone'
    BY DEF Kept, UncoveredOnce, ZerosDone, Elsewhere
  <1>7. GroupsNamed'
    BY <1>1 DEF Kept, GroupsNamed, Elsewhere
  <1>8. GroupsCover'
    <2>1. CellsOf(DOMAIN groups)' = CellsOf(DOMAIN groups)
      BY <1>4 DEF CellsOf, Cells
    <2>2. revealed' = revealed /\ known' = known /\ fresh' = fresh /\ blank' = blank
      BY DEF Elsewhere
    <2>3. QED
      BY <2>1, <2>2 DEF Kept, GroupsCover
  <1>9. Apart'
    <2>1. ASSUME NEW C \in comps' PROVE CellsOf(C)' \cap CellsOf(L)' = {}
      BY <1>2, <1>3, CellsAre
    <2>2. ASSUME NEW C \in comps', NEW D \in comps', C # D
          PROVE  CellsOf(C)' \cap CellsOf(D)' = {}
      BY <1>2, <2>2, CellsAre DEF Kept, Apart
    <2>3. ((UNION comps) \cup Loose = DOMAIN groups)'
      BY <1>1
    <2>4. (\A C \in comps : CellsOf(C) \cap CellsOf(Loose) = {})'
      BY <2>1 DEF CellsOf
    <2>5. QED
      BY <2>2, <2>3, <2>4 DEF Apart, CellsOf
  <1>10. QED
    BY <1>5, <1>6, <1>7, <1>8, <1>9 DEF Kept

LEMMA ReassessKeeps ==
    ASSUME Kept, Reassess, UNCHANGED <<mines, driverVars>>
    PROVE  Kept'
  <1>0. PICK C \in todo : \E s, t \in C :
            /\ Nested(s, t)
            /\ groups' = Split(s, t)
            /\ comps' = comps \ {C}
            /\ target' = C \ {s, t}
            /\ adding' = <<s, t>>
            /\ todo' = todo \ {C}
    BY DEF Reassess
  <1>1. PICK s \in C, t \in C :
            /\ Nested(s, t)
            /\ groups' = Split(s, t)
            /\ comps' = comps \ {C}
            /\ target' = C \ {s, t}
            /\ adding' = <<s, t>>
            /\ todo' = todo \ {C}
    BY <1>0
  <1>2. C \in comps /\ todo \subseteq comps /\ adding = <<>> /\ target = {}
    BY DEF Reassess, Kept, Placing
  <1>3. Loose = {}
    BY <1>2, RangeShort DEF Loose
  <1>4. UNION comps = DOMAIN groups
    BY <1>3 DEF Kept, Apart
  <1>5. C \in SUBSET DOMAIN groups /\ (UNION comps') \cup C = DOMAIN groups
    BY <1>1, <1>2, <1>4
  <1>6. s \in DOMAIN groups /\ t \in DOMAIN groups
    BY <1>5
  <1>7. Loose' = C
    BY <1>1, RangeShort DEF Loose
  <1>8. \A D \in comps' : CellsOf(D) \cap CellsOf(C) = {}
    BY <1>1, <1>2 DEF Kept, Apart
  <1>9. adding' \in Seq(DOMAIN groups) /\ adding' # <<>>
    BY <1>1, <1>6
  <1>10. todo' \subseteq comps' /\ comps' \subseteq comps
    BY <1>1, <1>2
  <1>11. phase = "groups" /\ UNCHANGED <<Elsewhere, fresh>>
    BY DEF Reassess, Elsewhere, driverVars
  <1>12. QED
    BY <1>1, <1>5, <1>6, <1>7, <1>8, <1>9, <1>10, <1>11, SplitInLoose

LEMMA AddGroupKeeps ==
    ASSUME Kept, AddGroup, UNCHANGED <<mines, driverVars>>
    PROVE  Kept'
  <1>1. adding \in Seq(DOMAIN groups) /\ adding # <<>> /\ phase = "groups"
    BY DEF AddGroup, Kept, Placing
  <1>2. UNCHANGED <<Elsewhere, fresh>> /\ todo' = todo
    BY DEF AddGroup, Elsewhere, driverVars
  <1> DEFINE o == Head(adding)
             rest == Tail(adding)
  <1>3. o \in DOMAIN groups /\ rest \in Seq(DOMAIN groups) /\ Range(adding) = {o} \cup Range(rest)
    BY <1>1, RangeTail
  <1>4. Loose \in SUBSET DOMAIN groups /\ Loose = target \cup {o} \cup Range(rest)
    BY <1>3 DEF Loose, Kept, Apart
  <1>5. todo \subseteq comps
    BY DEF Kept, Placing
  <1> HIDE DEF o, rest
  <1>6. ASSUME NEW e \in target, SplitWith(o, e) PROVE Kept'
    <2>1. PICK s \in {o, e}, t \in {o, e} :
            /\ Nested(s, t)
            /\ groups' = Split(s, t)
            /\ target' = target \ {e}
            /\ adding' = <<s, t>> \o rest
            /\ UNCHANGED comps
      BY <1>6 DEF SplitWith, rest
    <2>2. s \in DOMAIN groups /\ t \in DOMAIN groups /\ s \in Loose /\ t \in Loose
      BY <1>3, <1>4, <1>6, <2>1
    <2>3. {s, t} = {o, e}
      BY <2>1 DEF Nested
    <2>4. adding' \in Seq(DOMAIN groups) /\ adding' # <<>> /\ Range(adding') = {s, t} \cup Range(rest)
      BY <1>3, <2>1, <2>2, RangePair
    <2>5. Loose' = (target \ {e}) \cup {o, e} \cup Range(rest)
      BY <2>1, <2>3, <2>4 DEF Loose
    <2>6. Loose' = Loose
      BY <1>4, <1>6, <2>5
    <2>7. (UNION comps') \cup Loose = DOMAIN groups
          /\ \A C \in comps' : CellsOf(C) \cap CellsOf(Loose) = {}
      BY <2>1 DEF Kept, Apart
    <2>8. todo' \subseteq comps' /\ comps' \subseteq comps
      BY <1>2, <1>5, <2>1
    <2>9. PICK L : L = Loose
      OBVIOUS
    <2>10. /\ L \in SUBSET DOMAIN groups /\ s \in L /\ t \in L /\ Loose' = L
           /\ (UNION comps') \cup L = DOMAIN groups
           /\ \A C \in comps' : CellsOf(C) \cap CellsOf(L) = {}
      BY <1>4, <2>2, <2>6, <2>7, <2>9
    <2>11. QED
      BY <1>1, <1>2, <2>1, <2>2, <2>4, <2>8, <2>10, SplitInLoose
  <1>7. CASE PutInPlace(o)
    <2>1. groups' = groups /\ adding' = rest
      BY <1>7 DEF PutInPlace, rest
    <2>2. \/ rest = <<>> /\ comps' = comps \cup {target \cup {o}} /\ target' = {}
          \/ rest # <<>> /\ comps' = comps /\ target' = target \cup {o}
      BY <1>7 DEF PutInPlace, rest
    <2>3. Placing'
      BY <1>1, <1>2, <1>3, <1>5, <2>1, <2>2 DEF Kept, Placing, Elsewhere
    <2>4. UncoveredOnce' /\ ZerosDone'
      BY <1>1, <1>2 DEF Kept, UncoveredOnce, ZerosDone, Elsewhere
    <2>5. GroupsNamed' /\ GroupsCover'
      BY <1>2, <2>1 DEF Kept, GroupsNamed, GroupsCover, CellsOf, Elsewhere
    <2>6. \A C : CellsOf(C)' = CellsOf(C)
      BY <2>1 DEF CellsOf
    <2>7. CASE rest # <<>>
      <3>1. Loose' = Loose /\ comps' = comps
        BY <1>4, <2>1, <2>2, <2>7 DEF Loose
      <3>2. Apart'
        <4>1. CellsOf(Loose)' = CellsOf(Loose) /\ (DOMAIN groups)' = DOMAIN groups
          BY <2>1, <3>1 DEF CellsOf
        <4>2. QED
          BY <2>6, <3>1, <4>1 DEF Kept, Apart
      <3>3. QED
        BY <2>3, <2>4, <2>5, <3>2 DEF Kept
    <2>8. CASE rest = <<>>
      <3>1. Loose = target \cup {o} /\ comps' = comps \cup {Loose}
        BY <1>4, <2>2, <2>8, RangeShort
      <3>2. Loose' = {}
        BY <2>1, <2>2, <2>8, RangeShort DEF Loose
      <3>3. UNION comps' = DOMAIN groups
        <4>1. UNION (comps \cup {Loose}) = (UNION comps) \cup Loose
          OBVIOUS
        <4>2. QED
          BY <3>1, <4>1 DEF Kept, Apart
      <3>4. \A C, D \in comps' : C # D => CellsOf(C) \cap CellsOf(D) = {}
        BY <3>1 DEF Kept, Apart
      <3>5. CellsOf({}) = {}
        BY DEF CellsOf
      <3>6. Apart'
        BY <2>1, <2>6, <3>2, <3>3, <3>4, <3>5 DEF Apart, CellsOf
      <3>7. QED
        BY <2>3, <2>4, <2>5, <3>6 DEF Kept
    <2>9. QED
      BY <2>7, <2>8
  <1>8. QED
    BY <1>6, <1>7 DEF AddGroup, o

\* What the steps that take cells out of the groups keep.
LEMMA StripKeeps ==
    ASSUME Kept, adding = <<>>, NEW S, NEW K, groups' = Strip(S, K),
           comps' = Surviving(comps, DOMAIN groups'), UNCHANGED <<adding, target>>
    PROVE  /\ Apart'
           /\ DOMAIN groups' \subseteq DOMAIN groups
           /\ \A o \in DOMAIN groups' : groups'[o].cells # {}
           /\ CellsOf(DOMAIN groups)' = CellsOf(DOMAIN groups) \ (S \cup K)
  <1> DEFINE D == DOMAIN groups'
  <1>1. /\ D \subseteq DOMAIN groups
        /\ \A o \in D : groups'[o].cells # {}
        /\ \A C \in SUBSET DOMAIN groups :
              Cells(groups', C \cap D) = Cells(groups, C) \ (S \cup K)
    BY StripCells
  <1>2. (DOMAIN groups) \cap D = D
    BY <1>1
  <1>3. Cells(groups', D) = Cells(groups, DOMAIN groups) \ (S \cup K)
    BY <1>1, <1>2
  <1>4. target = {} /\ Loose = {} /\ Loose' = {}
    BY RangeShort DEF Kept, Placing, Loose
  <1>5. UNION comps = DOMAIN groups
    BY <1>4 DEF Kept, Apart
  <1>6. comps' = {C \cap D : C \in comps} \ {{}}
    BY DEF Surviving
  <1>7. UNION comps' = D
    <2>1. \A x \in UNION comps' : x \in D
      BY <1>6
    <2>2. ASSUME NEW x \in D PROVE x \in UNION comps'
      <3>1. PICK C \in comps : x \in C
        BY <1>1, <1>5
      <3>2. C \cap D \in comps'
        BY <1>6, <3>1
      <3>3. QED
        BY <3>1, <3>2
    <2>3. QED
      BY <2>1, <2>2
  <1>8. ASSUME NEW A \in comps', NEW B \in comps', A # B
        PROVE  CellsOf(A)' \cap CellsOf(B)' = {}
    <2>1. PICK C \in comps, E \in comps : A = C \cap D /\ B = E \cap D
      BY <1>6
    <2>2. CellsOf(C) \cap CellsOf(E) = {}
      BY <1>8, <2>1 DEF Kept, Apart
    <2>3. C \in SUBSET DOMAIN groups /\ E \in SUBSET DOMAIN groups
      BY <1>5
    <2>4. CellsOf(A)' \subseteq CellsOf(C) /\ CellsOf(B)' \subseteq CellsOf(E)
      BY <1>1, <2>1, <2>3, CellsAre
    <2>5. QED
      BY <2>2, <2>4
  <1>9. CellsOf({})' = {}
    BY DEF CellsOf
  <1>10. Apart'
    BY <1>4, <1>7, <1>8, <1>9 DEF Apart, CellsOf
  <1>11. QED
    BY <1>1, <1>3, <1>10 DEF CellsOf, Cells

LEMMA RecordKeeps ==
    ASSUME Kept, Record, UNCHANGED <<mines, driverVars>>
    PROVE  Kept'
  <1>1. phase = "feed" /\ adding = <<>> /\ todo = {} /\ fresh = {} /\ target = {}
    BY DEF Record, Kept, Placing
  <1>2. /\ phase' = "groups" /\ revealed' = revealed \cup pending /\ pending' = {}
        /\ blank' = blank \ pending /\ known' = known /\ safe' = safe
        /\ adding' = adding /\ target' = target /\ shown' = shown /\ queue' = queue
        /\ fresh' = {c \in pending : Adjacent(c) # 0 /\ Open(c, revealed', known, {}) # {}}
    BY DEF Record, driverVars
  <1>3. /\ Apart'
        /\ DOMAIN groups' \subseteq DOMAIN groups
        /\ \A o \in DOMAIN groups' : groups'[o].cells # {}
        /\ CellsOf(DOMAIN groups)' = CellsOf(DOMAIN groups) \ pending
    BY <1>1, StripKeeps DEF Record
  <1>4. pending \cap revealed = {} /\ shown = revealed \cup pending
    BY <1>1 DEF Kept, UncoveredOnce
  <1>5. Placing'
    <2>1. todo' \subseteq comps' /\ fresh' \subseteq revealed'
      BY <1>2 DEF Record
    <2>2. <<>> \in Seq(DOMAIN groups')
      OBVIOUS
    <2>3. revealed' \cup known' \cup pending' \cup safe' \cup queue' \subseteq Cell
      BY <1>2 DEF Kept, Placing
    <2>4. QED
      BY <1>1, <1>2, <2>1, <2>2, <2>3 DEF Placing
  <1>6. UncoveredOnce' /\ ZerosDone'
    BY <1>2, <1>4 DEF Kept, UncoveredOnce, ZerosDone
  <1>7. GroupsNamed'
    <2>1. DOMAIN groups' \subseteq revealed' \ fresh'
      BY <1>1, <1>2, <1>3, <1>4 DEF Kept, GroupsNamed
    <2>2. \A c \in fresh' : Open(c, revealed', known', {}) # {}
      BY <1>2
    <2>3. QED
      BY <1>3, <2>1, <2>2 DEF GroupsNamed
  <1>8. GroupsCover'
    <2>1. CellsOf(DOMAIN groups) = UNION {Open(c, revealed, known, {}) : c \in revealed}
      BY <1>1 DEF Kept, GroupsCover
    <2>2. \A c : Open(c, revealed', known', {}) = Open(c, revealed, known, {}) \ pending
      BY <1>2 DEF Open
    <2>3. ASSUME NEW c \in pending \ fresh' PROVE Open(c, revealed', known', {}) = {}
      <3>1. CASE Adjacent(c) = 0
        <4>1. Neighbors[c] \subseteq revealed'
          BY <1>1, <1>2, <2>3, <3>1 DEF Kept, ZerosDone
        <4>2. QED
          BY <4>1 DEF Open
      <3>2. CASE Adjacent(c) # 0
        BY <1>2, <2>3, <3>2
      <3>3. QED
        BY <3>1, <3>2
    <2>4. revealed' \ fresh' = revealed \cup (pending \ fresh')
      BY <1>2, <1>4
    <2>5. UNION {Open(c, revealed', known', {}) : c \in revealed' \ fresh'}
            = CellsOf(DOMAIN groups) \ pending
      BY <2>1, <2>2, <2>3, <2>4
    <2>6. blank = Cell \ (revealed \cup known \cup CellsOf(DOMAIN groups))
      BY DEF Kept, GroupsCover
    <2>7. blank' = Cell \ (revealed' \cup known' \cup CellsOf(DOMAIN groups)')
      BY <1>2, <1>3, <2>6
    <2>8. QED
      BY <1>3, <2>5, <2>7 DEF GroupsCover
  <1>9. QED
    BY <1>3, <1>5, <1>6, <1>7, <1>8 DEF Kept

\* The unknown cells beside numbers are cells.
LEMMA GroupsAreCells ==
    ASSUME Kept
    PROVE  /\ CellsOf(DOMAIN groups) \subseteq Cell \ (revealed \cup known)
           /\ \A c \in revealed : Open(c, revealed, known, {}) \subseteq Cell
  <1>1. ASSUME NEW c \in revealed
        PROVE  Open(c, revealed, known, {}) \subseteq Cell \ (revealed \cup known)
    <2>1. Neighbors[c] \subseteq Cell
      BY <1>1, NeighborsAreCells DEF Kept, Placing
    <2>2. QED
      BY <2>1 DEF Open
  <1>2. QED
    BY <1>1 DEF Kept, GroupsCover

LEMMA AddConstraintKeeps ==
    ASSUME Kept, AddConstraint, UNCHANGED <<mines, driverVars>>
    PROVE  Kept'
  <1>1. PICK c \in fresh :
            LET new == Constraint(c, revealed, known, {}) IN
            /\ blank' = blank \ new.cells
            /\ comps' = comps \ Hosts(new.cells)
            /\ target' = UNION Hosts(new.cells)
            /\ groups' = [o \in DOMAIN groups \cup {c} |-> IF o = c THEN new ELSE groups[o]]
            /\ adding' = <<c>>
            /\ fresh' = fresh \ {c}
    BY DEF AddConstraint
  <1>2. /\ phase = "groups" /\ phase' = "groups" /\ adding = <<>> /\ todo = {} /\ todo' = {}
        /\ target = {} /\ Loose = {}
        /\ UNCHANGED <<mines, revealed, known, safe, pending, queue, shown>>
    BY RangeShort DEF AddConstraint, Kept, Placing, driverVars, Loose
  <1> DEFINE N == Open(c, revealed, known, {})
             hosts == Hosts(N)
  <1>3. /\ blank' = blank \ N /\ comps' = comps \ hosts /\ target' = UNION hosts
        /\ adding' = <<c>> /\ fresh' = fresh \ {c}
        /\ DOMAIN groups' = DOMAIN groups \cup {c} /\ groups'[c].cells = N
        /\ \A o \in DOMAIN groups : o # c => groups'[o] = groups[o]
    BY <1>1 DEF Constraint
  <1>4. c \notin DOMAIN groups /\ c \in revealed /\ N # {}
    BY DEF Kept, GroupsNamed, Placing
  <1>5. UNION comps = DOMAIN groups
    BY <1>2 DEF Kept, Apart
  <1>6. hosts \subseteq comps /\ \A C \in comps \ hosts : CellsOf(C) \cap N = {}
    BY DEF Hosts
  <1> HIDE DEF hosts
  <1>7. Loose' = (UNION hosts) \cup {c}
    BY <1>3, RangeShort DEF Loose
  <1>8. \A C \in SUBSET DOMAIN groups : CellsOf(C)' = CellsOf(C)
    BY <1>3, <1>4 DEF CellsOf
  <1>9. CellsOf(DOMAIN groups)' = CellsOf(DOMAIN groups) \cup N
    BY <1>3, <1>4 DEF CellsOf
  <1>10. CellsOf(Loose)' = CellsOf(UNION hosts) \cup N
    <2>1. UNION hosts \subseteq DOMAIN groups
      BY <1>5, <1>6
    <2>2. QED
      BY <1>3, <1>4, <1>7, <2>1 DEF CellsOf
  <1>11. Placing'
    BY <1>2, <1>3 DEF Kept, Placing
  <1>12. UncoveredOnce' /\ ZerosDone'
    BY <1>2 DEF Kept, UncoveredOnce, ZerosDone
  <1>13. GroupsNamed'
    BY <1>2, <1>3, <1>4 DEF Kept, GroupsNamed
  <1>14. GroupsCover'
    <2> HIDE DEF N
    <2>1. revealed' \ fresh' = (revealed \ fresh) \cup {c}
      BY <1>2, <1>3, <1>4
    <2>2. UNION {Open(d, revealed', known', {}) : d \in revealed' \ fresh'}
            = (UNION {Open(d, revealed, known, {}) : d \in revealed \ fresh}) \cup N
      <3>1. \A d : Open(d, revealed', known', {}) = Open(d, revealed, known, {})
        BY <1>2
      <3>2. N = Open(c, revealed, known, {})
        BY DEF N
      <3>3. \A x : x \in UNION {Open(d, revealed', known', {}) : d \in revealed' \ fresh'}
                <=> \E d \in (revealed \ fresh) \cup {c} : x \in Open(d, revealed, known, {})
        BY <2>1, <3>1
      <3>4. QED
        BY <3>2, <3>3
    <2>3. blank = Cell \ (revealed \cup known \cup CellsOf(DOMAIN groups))
      BY DEF Kept, GroupsCover
    <2>4. blank' = Cell \ (revealed' \cup known' \cup CellsOf(DOMAIN groups)')
      BY <1>2, <1>3, <1>9, <2>3
    <2>5. CellsOf(DOMAIN groups) = UNION {Open(d, revealed, known, {}) : d \in revealed \ fresh}
      BY DEF Kept, GroupsCover
    <2>6. CellsOf(DOMAIN groups)'
            = UNION {Open(d, revealed', known', {}) : d \in revealed' \ fresh'}
      BY <1>9, <2>2, <2>5
    <2>7. QED
      BY <2>4, <2>6 DEF GroupsCover
  <1>15. Apart'
    <2>1. (UNION comps') \cup Loose' = DOMAIN groups'
      BY <1>3, <1>5, <1>6, <1>7
    <2>2. ASSUME NEW C \in comps', NEW D \in comps
          PROVE  C # D => CellsOf(C)' \cap CellsOf(D) = {}
      BY <1>3, <1>5, <1>8 DEF Kept, Apart
    <2>3. ASSUME NEW C \in comps' PROVE CellsOf(C)' \cap CellsOf(Loose)' = {}
      <3>1. CellsOf(C)' \cap N = {} /\ C \notin hosts
        BY <1>3, <1>5, <1>6, <1>8
      <3>2. CellsOf(C)' \cap CellsOf(UNION hosts) = {}
        <4>1. \A D \in hosts : CellsOf(C)' \cap CellsOf(D) = {}
          BY <1>6, <2>2, <3>1
        <4>2. \A x \in CellsOf(UNION hosts) : \E D \in hosts : x \in CellsOf(D)
          BY DEF CellsOf
        <4>3. QED
          BY <4>1, <4>2
      <3>3. QED
        BY <1>10, <3>1, <3>2
    <2>4. ASSUME NEW C \in comps', NEW D \in comps', C # D
          PROVE  CellsOf(C)' \cap CellsOf(D)' = {}
      BY <1>3, <1>5, <1>8, <2>2, <2>4
    <2>5. QED
      BY <2>1, <2>3, <2>4 DEF Apart, CellsOf
  <1>16. QED
    BY <1>11, <1>12, <1>13, <1>14, <1>15 DEF Kept

\* Pieces of a component share no cell: each is set apart from the rest.
LEMMA PiecesApart ==
    ASSUME NEW C, NEW o \in C, NEW p \in C
    PROVE  /\ o \in Piece(C, o) /\ Piece(C, o) \subseteq C
           /\ CellsOf(Piece(C, o)) \cap CellsOf(Piece(C, p)) # {} => Piece(C, o) = Piece(C, p)
  <1> DEFINE Closed(P) == CellsOf(P) \cap CellsOf(C \ P) = {}
  <1>1. ASSUME NEW q PROVE q \in Piece(C, q) <=> q \in C
    BY DEF Piece
  <1>2. ASSUME NEW q \in C PROVE Closed(Piece(C, q)) /\ Piece(C, q) \in SUBSET C
    <2> DEFINE Q == Piece(C, q)
    <2>1. ASSUME NEW x \in CellsOf(Q) \cap CellsOf(C \ Q) PROVE FALSE
      <3>1. PICK a \in Q, b \in C \ Q : x \in groups[a].cells /\ x \in groups[b].cells
        BY <2>1 DEF CellsOf
      <3>2. PICK P \in SUBSET C : q \in P /\ Closed(P) /\ b \notin P
        BY <3>1 DEF Piece
      <3>3. a \in P
        BY <3>1, <3>2 DEF Piece
      <3>4. x \in CellsOf(P) /\ x \in CellsOf(C \ P)
        BY <3>1, <3>2, <3>3 DEF CellsOf
      <3>5. QED
        BY <3>2, <3>4
    <2>2. QED
      BY <2>1 DEF Piece
  <1>3. ASSUME NEW q \in C, NEW r \in Piece(C, q) PROVE Piece(C, r) = Piece(C, q)
    <2>1. r \in C
      BY <1>3 DEF Piece
    <2>2. Piece(C, r) \subseteq Piece(C, q)
      <3>1. r \in Piece(C, q) /\ Closed(Piece(C, q)) /\ Piece(C, q) \in SUBSET C
        BY <1>2, <1>3
      <3>2. QED
        BY <3>1 DEF Piece
    <2>3. q \in Piece(C, r)
      <3>1. SUFFICES ASSUME q \notin Piece(C, r) PROVE FALSE
        OBVIOUS
      <3>2. PICK P \in SUBSET C : r \in P /\ Closed(P) /\ q \notin P
        BY <1>3, <3>1 DEF Piece
      <3>3. C \ (C \ P) = P
        BY <3>2
      <3>4. Closed(C \ P) /\ q \in C \ P /\ C \ P \in SUBSET C
        BY <1>3, <3>2, <3>3
      <3>5. r \in C \ P
        BY <1>3, <3>4 DEF Piece
      <3>6. QED
        BY <3>2, <3>5
    <2>4. Piece(C, q) \subseteq Piece(C, r)
      <3>1. Closed(Piece(C, r)) /\ Piece(C, r) \in SUBSET C
        BY <1>2, <2>1
      <3>2. QED
        BY <2>3, <3>1 DEF Piece
    <2>5. QED
      BY <2>2, <2>4
  <1>4. ASSUME NEW x \in CellsOf(Piece(C, o)) \cap CellsOf(Piece(C, p))
        PROVE  Piece(C, o) = Piece(C, p)
    <2>1. PICK r \in Piece(C, p) : x \in groups[r].cells
      BY <1>4 DEF CellsOf
    <2>2. r \in C
      BY <2>1 DEF Piece
    <2>3. r \in Piece(C, o)
      <3>1. Closed(Piece(C, o))
        BY <1>2
      <3>2. r \notin Piece(C, o) => x \in CellsOf(C \ Piece(C, o))
        BY <2>1, <2>2 DEF CellsOf
      <3>3. QED
        BY <1>4, <3>1, <3>2
    <2>4. QED
      BY <1>3, <2>1, <2>3
  <1>5. QED
    BY <1>1, <1>2, <1>4

LEMMA DivideKeeps ==
    ASSUME Kept, Divide, UNCHANGED <<mines, driverVars>>
    PROVE  Kept'
  <1>1. /\ phase = "groups" /\ phase' = "solve" /\ adding = <<>> /\ todo = {} /\ fresh = {}
        /\ adding' = <<>> /\ todo' = {} /\ fresh' = {} /\ target = {} /\ target' = {}
        /\ UNCHANGED <<mines, revealed, known, safe, groups, pending, blank, shown, queue>>
        /\ comps' = UNION {{Piece(C, o) : o \in C} : C \in comps}
    BY DEF Divide, Kept, Placing, driverVars
  <1>2. Loose = {} /\ Loose' = {} /\ UNION comps = DOMAIN groups
    BY <1>1, RangeShort DEF Kept, Apart, Loose
  <1>3. \A C : CellsOf(C)' = CellsOf(C)
    BY <1>1 DEF CellsOf
  <1>4. UNION comps' = DOMAIN groups
    <2>1. ASSUME NEW D \in comps', NEW x \in D PROVE x \in DOMAIN groups
      <3>1. PICK C \in comps : \E o \in C : D = Piece(C, o)
        BY <1>1
      <3>2. D \subseteq C
        BY <3>1, PiecesApart
      <3>3. QED
        BY <1>2, <2>1, <3>2
    <2>2. ASSUME NEW x \in DOMAIN groups PROVE x \in UNION comps'
      <3>1. PICK C \in comps : x \in C
        BY <1>2
      <3>2. Piece(C, x) \in comps' /\ x \in Piece(C, x)
        BY <1>1, <3>1, PiecesApart
      <3>3. QED
        BY <3>2
    <2>3. QED
      BY <2>1, <2>2
  <1>5. ASSUME NEW A \in comps', NEW B \in comps', A # B
        PROVE  CellsOf(A) \cap CellsOf(B) = {}
    <2>1. PICK C \in comps : \E o \in C : A = Piece(C, o)
      BY <1>1
    <2>2. PICK E \in comps : \E o \in E : B = Piece(E, o)
      BY <1>1
    <2>3. CASE C = E
      BY <1>5, <2>1, <2>2, <2>3, PiecesApart
    <2>4. CASE C # E
      <3>1. A \subseteq C /\ B \subseteq E
        BY <2>1, <2>2, PiecesApart
      <3>2. CellsOf(A) \subseteq CellsOf(C) /\ CellsOf(B) \subseteq CellsOf(E)
        BY <3>1 DEF CellsOf
      <3>3. QED
        BY <2>4, <3>2 DEF Kept, Apart
    <2>5. QED
      BY <2>3, <2>4
  <1>6. CellsOf({}) = {}
    BY DEF CellsOf
  <1>7. CellsOf(DOMAIN groups)' = CellsOf(DOMAIN groups) /\ CellsOf(Loose)' = CellsOf({})
    BY <1>1, <1>2 DEF CellsOf
  <1>8. Apart'
    <2>1. \A A, B \in comps' : A # B => CellsOf(A)' \cap CellsOf(B)' = {}
      BY <1>3, <1>5
    <2>2. QED
      BY <1>1, <1>2, <1>4, <1>6, <1>7, <2>1 DEF Apart, CellsOf
  <1>9. Placing'
    BY <1>1 DEF Kept, Placing
  <1>10. UncoveredOnce' /\ ZerosDone' /\ GroupsNamed'
    BY <1>1 DEF Kept, UncoveredOnce, ZerosDone, GroupsNamed
  <1>11. GroupsCover'
    BY <1>1, <1>7 DEF Kept, GroupsCover
  <1>12. QED
    BY <1>8, <1>9, <1>10, <1>11 DEF Kept

LEMMA SolveKeeps ==
    ASSUME Kept, Solve, UNCHANGED <<mines, driverVars>>
    PROVE  Kept'
  <1>1. /\ phase = "solve" /\ phase' = "decide" /\ adding = <<>> /\ todo = {} /\ fresh = {}
        /\ adding' = adding /\ todo' = {} /\ fresh' = {} /\ target = {} /\ target' = target
        /\ UNCHANGED <<mines, revealed, pending, shown, queue>>
        /\ known' = known \cup (UNION {AlwaysMine(P) : P \in comps}) \cup BlankMines
        /\ safe' = UNION {AlwaysSafe(P) : P \in comps}
        /\ blank' = blank \ known'
    BY DEF Solve, Kept, Placing, driverVars
  <1>2. UNION comps = DOMAIN groups
    BY <1>1, RangeShort DEF Kept, Apart, Loose
  <1>3. /\ Apart'
        /\ DOMAIN groups' \subseteq DOMAIN groups
        /\ \A o \in DOMAIN groups' : groups'[o].cells # {}
        /\ CellsOf(DOMAIN groups)' = CellsOf(DOMAIN groups) \ known'
    <2>1. PICK S, K : S = {} /\ K = known'
      OBVIOUS
    <2>2. groups' = Strip(S, K) /\ comps' = Surviving(comps, DOMAIN groups')
      BY <2>1 DEF Solve
    <2>3. S \cup K = K
      BY <2>1
    <2>4. QED
      BY <1>1, <2>1, <2>2, <2>3, StripKeeps
  <1>4. CellsOf(DOMAIN groups) \subseteq Cell \ (revealed \cup known)
    BY GroupsAreCells
  <1>5. \A P \in comps : CellsOf(P) \subseteq CellsOf(DOMAIN groups)
    BY <1>2 DEF CellsOf
  <1>6. \A P \in comps : AlwaysSafe(P) \subseteq CellsOf(P) /\ AlwaysMine(P) \subseteq CellsOf(P)
    BY DEF AlwaysSafe, AlwaysMine
  <1>7. blank \subseteq Cell /\ BlankMines \subseteq blank
    BY DEF Kept, GroupsCover, BlankMines
  <1>8. known \subseteq known' /\ known' \subseteq Cell /\ safe' \subseteq Cell /\ safe' \cap revealed = {}
    <2>1. known \subseteq Cell
      BY DEF Kept, Placing
    <2>2. \A P \in comps : AlwaysSafe(P) \subseteq Cell \ revealed /\ AlwaysMine(P) \subseteq Cell
      BY <1>4, <1>5, <1>6
    <2>3. UNION {AlwaysSafe(P) : P \in comps} \subseteq Cell \ revealed
      BY <2>2
    <2>4. UNION {AlwaysMine(P) : P \in comps} \subseteq Cell
      BY <2>2
    <2>5. QED
      BY <1>1, <1>7, <2>1, <2>3, <2>4
  <1>9. Placing'
    <2>1. <<>> \in Seq(DOMAIN groups')
      OBVIOUS
    <2>2. revealed' \cup known' \cup pending' \cup safe' \cup queue' \subseteq Cell
      BY <1>1, <1>8 DEF Kept, Placing
    <2>3. QED
      BY <1>1, <2>1, <2>2 DEF Placing
  <1>10. UncoveredOnce' /\ ZerosDone'
    BY <1>1, <1>8 DEF Kept, UncoveredOnce, ZerosDone
  <1>11. GroupsNamed'
    BY <1>1, <1>3 DEF Kept, GroupsNamed
  <1>12. GroupsCover'
    <2>1. CellsOf(DOMAIN groups) = UNION {Open(d, revealed, known, {}) : d \in revealed}
      BY <1>1 DEF Kept, GroupsCover
    <2>2. \A d : Open(d, revealed', known', {}) = Open(d, revealed, known, {}) \ known'
      BY <1>1, <1>8 DEF Open
    <2>3. revealed' \ fresh' = revealed
      BY <1>1
    <2>4. CellsOf(DOMAIN groups)'
            = UNION {Open(d, revealed', known', {}) : d \in revealed' \ fresh'}
      BY <1>3, <2>1, <2>2, <2>3
    <2>5. blank = Cell \ (revealed \cup known \cup CellsOf(DOMAIN groups))
      BY DEF Kept, GroupsCover
    <2>6. blank' = Cell \ (revealed' \cup known' \cup CellsOf(DOMAIN groups)')
      BY <1>1, <1>3, <1>8, <2>5
    <2>7. QED
      BY <2>4, <2>6 DEF GroupsCover
  <1>13. QED
    BY <1>3, <1>9, <1>10, <1>11, <1>12 DEF Kept

\* The steps of the generator and the bot leave the groups alone.
LEMMA GroupsStill ==
    ASSUME Kept, UNCHANGED solverVars
    PROVE  GroupsNamed' /\ GroupsCover' /\ Apart'
  <1>1. GroupsNamed'
    BY DEF Kept, GroupsNamed, solverVars, componentVars
  <1>2. GroupsCover'
    BY DEF Kept, GroupsCover, CellsOf, solverVars, componentVars
  <1>3. Loose' = Loose /\ \A C : CellsOf(C)' = CellsOf(C)
    BY DEF Loose, CellsOf, solverVars, componentVars
  <1>4. CellsOf(Loose)' = CellsOf(Loose)
    BY <1>3 DEF CellsOf, solverVars
  <1>5. Apart'
    BY <1>3, <1>4 DEF Kept, Apart, solverVars, componentVars
  <1>6. QED
    BY <1>1, <1>2, <1>5

\* What uncovering one cell keeps.
LEMMA ClickKeeps ==
    ASSUME Kept, phase = "decide", NEW c \in Cell \ shown, Click(c)
    PROVE  Kept'
  <1>1. /\ UNCHANGED <<mines, solverVars, shown>> /\ pending' = {c}
        /\ queue' = queue \cup safe /\ phase' = "reveal"
    BY DEF Click
  <1>2. Placing'
    BY <1>1 DEF Kept, Placing, solverVars, componentVars
  <1>3. UncoveredOnce' /\ ZerosDone'
    BY <1>1 DEF Kept, UncoveredOnce, ZerosDone, solverVars
  <1>4. QED
    BY <1>1, <1>2, <1>3, GroupsStill DEF Kept

LEMMA VerdictKeeps ==
    ASSUME Kept, Verdict
    PROVE  Kept'
  <1>1. /\ phase' = "reveal" /\ revealed' = {} /\ known' = {} /\ safe' = {} /\ groups' = <<>>
        /\ comps' = {} /\ blank' = Cell /\ pending' = {Start} /\ shown' = {}
        /\ UNCHANGED <<mines, todo, fresh, adding, target, queue>>
        /\ todo = {} /\ fresh = {} /\ adding = <<>> /\ target = {}
    BY DEF Verdict, Kept, Placing
  <1>2. DOMAIN groups' = {} /\ <<>> \in Seq(DOMAIN groups')
    BY <1>1
  <1>3. CellsOf(DOMAIN groups)' = {}
    BY <1>2 DEF CellsOf
  <1>4. Placing'
    BY <1>1, <1>2, GameAssumption DEF Kept, Placing
  <1>5. UncoveredOnce' /\ ZerosDone' /\ GroupsNamed'
    BY <1>1, <1>2 DEF UncoveredOnce, ZerosDone, GroupsNamed
  <1>6. GroupsCover'
    BY <1>1, <1>3 DEF GroupsCover
  <1>7. Loose' = {}
    BY <1>1, RangeShort DEF Loose
  <1>8. Apart'
    BY <1>1, <1>2, <1>7 DEF Apart
  <1>9. QED
    BY <1>4, <1>5, <1>6, <1>8 DEF Kept

LEMMA DriverKeeps ==
    ASSUME Kept,
           \/ Spread \/ EndReveal \/ UncoverAll \/ Verdict \/ ClickQueued \/ Guess
    PROVE  Kept'
  <1>1. CASE Spread
    <2>1. /\ phase = "reveal" /\ phase' = "reveal"
          /\ pending' = pending \cup Beside(pending, Cell \ shown)
          /\ UNCHANGED <<mines, solverVars, shown, queue>>
      BY <1>1 DEF Spread, driverVars
    <2>2. Beside(pending, Cell \ shown) \subseteq Cell \ shown
      BY DEF Beside
    <2>3. Placing'
      BY <2>1, <2>2 DEF Kept, Placing, solverVars, componentVars
    <2>4. UncoveredOnce' /\ ZerosDone'
      BY <2>1, <2>2 DEF Kept, UncoveredOnce, ZerosDone, solverVars
    <2>5. QED
      BY <2>1, <2>3, <2>4, GroupsStill DEF Kept
  <1>2. CASE EndReveal
    <2>1. /\ phase = "reveal" /\ phase' = "feed" /\ shown' = shown \cup pending
          /\ queue' = queue \ pending /\ Beside(pending, Cell \ shown) = {}
          /\ UNCHANGED <<mines, solverVars, pending>>
      BY <1>2 DEF EndReveal
    <2>2. Placing'
      BY <2>1 DEF Kept, Placing, solverVars, componentVars
    <2>3. UncoveredOnce'
      BY <2>1 DEF Kept, UncoveredOnce, solverVars
    <2>4. ZerosDone'
      <3>1. shown = revealed /\ pending \subseteq Cell
        BY <2>1 DEF Kept, UncoveredOnce, Placing
      <3>2. ASSUME NEW c \in pending, Adjacent(c) = 0
            PROVE  Neighbors[c] \subseteq revealed \cup pending
        <4>1. Neighbors[c] \subseteq Cell
          BY <3>1, NeighborsAreCells
        <4>2. Neighbors[c] \subseteq BesideZeros(pending)
          BY <3>2 DEF BesideZeros
        <4>3. QED
          BY <2>1, <3>1, <4>1, <4>2 DEF Beside
      <3>3. \A c : Adjacent(c)' = Adjacent(c)
        BY <2>1 DEF Adjacent
      <3>4. QED
        BY <2>1, <3>2, <3>3 DEF ZerosDone, solverVars
    <2>5. QED
      BY <2>1, <2>2, <2>3, <2>4, GroupsStill DEF Kept
  <1>3. CASE UncoverAll
    <2>1. /\ phase = "decide" /\ phase' = "reveal" /\ pending' = safe
          /\ UNCHANGED <<mines, solverVars, shown, queue>>
      BY <1>3 DEF UncoverAll, driverVars
    <2>2. Placing'
      BY <2>1 DEF Kept, Placing, solverVars, componentVars
    <2>3. UncoveredOnce' /\ ZerosDone'
      BY <2>1 DEF Kept, UncoveredOnce, ZerosDone, solverVars
    <2>4. QED
      BY <2>1, <2>2, <2>3, GroupsStill DEF Kept
  <1>4. CASE Verdict
    BY <1>4, VerdictKeeps
  <1>5. CASE ClickQueued
    <2>1. phase = "decide" /\ \A c \in queue \cup safe : c \in Cell \ shown
      BY <1>5 DEF ClickQueued, Deciding, Kept, UncoveredOnce, Placing
    <2>2. QED
      BY <1>5, <2>1, ClickKeeps DEF ClickQueued
  <1>6. CASE Guess
    BY <1>6, ClickKeeps DEF Guess, Deciding
  <1>7. QED
    BY <1>1, <1>2, <1>3, <1>4, <1>5, <1>6

LEMMA ApartInit == Init => ApartInv
  <1> SUFFICES ASSUME Init PROVE Kept
    BY DEF ApartInv
  <1>1. DOMAIN groups = {} /\ <<>> \in Seq(DOMAIN groups) /\ Loose = {}
    BY RangeShort DEF Init, ComponentsInit, Loose
  <1>2. CellsOf(DOMAIN groups) = {}
    BY <1>1 DEF CellsOf
  <1>3. Placing
    BY <1>1, GameAssumption DEF Init, ComponentsInit, Placing
  <1>4. UncoveredOnce /\ ZerosDone /\ GroupsNamed
    BY <1>1 DEF Init, ComponentsInit, UncoveredOnce, ZerosDone, GroupsNamed
  <1>5. GroupsCover
    BY <1>2 DEF Init, ComponentsInit, GroupsCover
  <1>6. Apart
    BY <1>1 DEF Init, ComponentsInit, Apart
  <1>7. QED
    BY <1>3, <1>4, <1>5, <1>6 DEF Kept

LEMMA ApartStep == ApartInv /\ [Next]_vars => ApartInv'
  <1> SUFFICES ASSUME ApartInv, [Next]_vars, tier' # "subset" PROVE Kept'
    BY DEF ApartInv
  <1>1. tier' = tier
    BY TierStays
  <1>2. Kept
    BY <1>1 DEF ApartInv
  <1>3. CASE SubsetNext
    BY <1>1, <1>2, <1>3 DEF SubsetNext, SubsetRecord, SubsetSplit, SubsetConclude, Kept, Placing
  <1>4. CASE ComponentNext /\ UNCHANGED <<mines, driverVars>>
    BY <1>2, <1>4, RecordKeeps, ReassessKeeps, AddConstraintKeeps, AddGroupKeeps, DivideKeeps,
       SolveKeeps DEF ComponentNext
  <1>5. CASE Spread \/ EndReveal \/ UncoverAll \/ Verdict \/ ClickQueued \/ Guess
    BY <1>2, <1>5, DriverKeeps
  <1>6. CASE UNCHANGED vars
    <2>1. Placing' /\ UncoveredOnce' /\ ZerosDone'
      BY <1>2, <1>6 DEF Kept, Placing, UncoveredOnce, ZerosDone, Adjacent, vars, solverVars,
         componentVars, driverVars
    <2>2. QED
      BY <1>2, <1>6, <2>1, GroupsStill DEF Kept, vars
  <1>7. QED
    BY <1>3, <1>4, <1>5, <1>6 DEF Next, Solving

\* Once all numbers have groups, these hold the unknown cells beside revealed ones.
LEMMA FringeCovered ==
    ASSUME Kept, fresh = {}
    PROVE  CellsOf(DOMAIN groups) = Fringe \ known
  <1>1. revealed \subseteq Cell
    BY DEF Kept, Placing
  <1>2. CellsOf(DOMAIN groups) = UNION {Open(c, revealed, known, {}) : c \in revealed}
    BY DEF Kept, GroupsCover
  <1>3. ASSUME NEW c \in revealed, NEW x \in Open(c, revealed, known, {})
        PROVE  x \in Fringe \ known
    <2>1. c \in Cell /\ x \in Cell /\ x \in Neighbors[c] /\ x \notin revealed /\ x \notin known
      BY <1>1, <1>3, NeighborsAreCells DEF Open
    <2>2. c \in Neighbors[x]
      BY <2>1, NeighborsSymmetric
    <2>3. QED
      BY <2>1, <2>2 DEF Fringe
  <1>4. ASSUME NEW x \in Fringe \ known
        PROVE  \E c \in revealed : x \in Open(c, revealed, known, {})
    <2>1. x \in Cell /\ x \notin revealed /\ x \notin known
          /\ \E c \in revealed : c \in Neighbors[x]
      BY DEF Fringe
    <2>2. PICK c \in revealed : c \in Neighbors[x]
      BY <2>1
    <2>3. x \in Neighbors[c]
      BY <1>1, <2>1, <2>2, NeighborsSymmetric
    <2>4. QED
      BY <2>1, <2>2, <2>3 DEF Open
  <1>5. QED
    BY <1>2, <1>3, <1>4

LEMMA ApartIsSeparate ==
    ASSUME Kept, AfterCall
    PROVE  ComponentsSeparate
  <1>1. fresh = {} /\ adding = <<>> /\ target = {} /\ Loose = {}
    BY RangeShort DEF AfterCall, Kept, Placing, Loose
  <1>2. UNION comps = DOMAIN groups /\ revealed \subseteq Cell
    BY <1>1 DEF Kept, Apart, Placing
  <1>3. UNION {CellsOf(C) : C \in comps} = CellsOf(DOMAIN groups)
    BY <1>2 DEF CellsOf
  <1>4. CellsOf(DOMAIN groups) = Fringe \ known
    BY <1>1, FringeCovered
  <1>5. blank = Cell \ (revealed \cup Fringe \cup known)
    BY <1>4 DEF Kept, GroupsCover
  <1>6. QED
    BY <1>3, <1>4, <1>5 DEF ComponentsSeparate, Kept, Apart

\* After every call of the probabilistic and the perfect tier, on every board,
\* no two components share a cell, together they hold every unknown cell beside
\* a revealed one, and the cells counted as without information are the others:
\* splits stay within a component, a new number merges all it touches, and the
\* pieces a component is divided into are apart.
THEOREM ComponentsApart == Spec => []ComponentsSeparate
  <1>1. Init => ApartInv
    BY ApartInit
  <1>2. ApartInv /\ [Next]_vars => ApartInv'
    BY ApartStep
  <1>3. ApartInv => ComponentsSeparate
    BY ApartIsSeparate DEF ApartInv, ComponentsSeparate, Counting
  <1>4. QED
    BY <1>1, <1>2, <1>3, PTL DEF Spec

-----------------------------------------------------------------------------
(* What solve_groups tries.                                                *)

\* A placement of mines agrees with a number, or with a group.
Agrees(M, c) == Cardinality(Neighbors[c] \cap M) = Adjacent(c)
Fits(M, g) == Cardinality(M \cap g.cells) = g.mines

\* Placements of mines on covered cells that include those known.
Possible == {M \in SUBSET (Cell \ revealed) : known \subseteq M}

\* The largest number of mines that is tried for a component.
LEMMA MostIs ==
    ASSUME NEW P, CellsOf(P) \subseteq Cell, Solutions(P) # {}
    PROVE  /\ MostMines(P) \in Nat
           /\ \A M \in Solutions(P) : Cardinality(M) <= MostMines(P)
  <1>1. PICK S : S = {Cardinality(M) : M \in Solutions(P)}
    OBVIOUS
  <1>2. PICK n : n = Cardinality(Cell)
    OBVIOUS
  <1>3. n \in Nat
    BY <1>2, PartsFinite
  <1>4. ASSUME NEW M \in Solutions(P) PROVE Cardinality(M) \in 0..n
    <2>1. M \subseteq Cell
      BY DEF Solutions, Placements
    <2>2. Cardinality(M) \in Nat /\ Cardinality(M) <= n
      BY <1>2, <2>1, PartsFinite, CellsFinite, FS_Subset
    <2>3. QED
      BY <1>3, <2>2
  <1>5. S \subseteq 0..n /\ S # {}
    BY <1>1, <1>4
  <1>6. Max(S) \in S /\ \A y \in S : y <= Max(S)
    BY <1>3, <1>5, LargestIs
  <1>7. MostMines(P) = Max(S)
    BY <1>1 DEF MostMines
  <1>8. MostMines(P) \in Nat
    <2>1. MostMines(P) \in 0..n
      BY <1>5, <1>6, <1>7
    <2>2. QED
      BY <1>3, <2>1
  <1>9. QED
    BY <1>1, <1>6, <1>7, <1>8

\* The sum of these bounds what a placement holds in all components.
LEMMA MostCovers ==
    ASSUME IsFiniteSet(comps), \A P \in comps : MostMines(P) \in Nat,
           NEW X, IsFiniteSet(X), \A P \in comps : Cardinality(X \cap CellsOf(P)) <= MostMines(P)
    PROVE  /\ MapThenSumSet(MostMines, comps) \in Nat
           /\ Cardinality(X \cap UNION {CellsOf(P) : P \in comps}) <= MapThenSumSet(MostMines, comps)
  <1>1. PICK C : C = comps
    OBVIOUS
  <1>2. PICK w : w = [P \in C |-> MostMines(P)]
    OBVIOUS
  <1>3. PICK part : part = [P \in C |-> CellsOf(P)]
    OBVIOUS
  <1>4. /\ IsFiniteSet(C) /\ w \in [C -> Nat]
        /\ \A P \in C : w[P] = MostMines(P) /\ part[P] = CellsOf(P)
        /\ \A P \in C : Cardinality(X \cap part[P]) <= w[P]
    BY <1>1, <1>2, <1>3
  <1> DEFINE Rest(f, s) == f[s \ {Pick(s)}]
             Body(f) == f = [s \in SUBSET C |->
                                IF s = {} THEN 0 ELSE MostMines(Pick(s)) + Rest(f, s)]
  <1>5. \A s \in SUBSET C : s # {} => w[Pick(s)] = MostMines(Pick(s))
    BY <1>4 DEF Pick
  <1>6. ASSUME NEW f PROVE Body(f) <=> Sums(w, C, f)
    <2> HIDE DEF Rest
    <2>1. [s \in SUBSET C |-> IF s = {} THEN 0 ELSE MostMines(Pick(s)) + Rest(f, s)]
            = [s \in SUBSET C |-> IF s = {} THEN 0 ELSE w[Pick(s)] + Rest(f, s)]
      BY <1>5
    <2>2. Sums(w, C, f)
            <=> f = [s \in SUBSET C |-> IF s = {} THEN 0 ELSE w[Pick(s)] + Rest(f, s)]
      BY DEF Sums, Rest
    <2>3. QED
      BY <2>1, <2>2
  <1>7. MapThenSumSet(MostMines, comps) = (CHOOSE f : Body(f))[C]
    BY <1>1 DEF MapThenSumSet, MapThenFoldSet, Pick
  <1> HIDE DEF Body
  <1>8. \E f : Body(f)
    BY <1>4, <1>6, SumsExist
  <1>9. PICK f : f = CHOOSE g : Body(g)
    OBVIOUS
  <1>10. Sums(w, C, f)
    BY <1>6, <1>8, <1>9
  <1>11. C \in SUBSET C
    OBVIOUS
  <1>12. f[C] \in Nat /\ Cardinality(X \cap UNION {part[P] : P \in C}) <= f[C]
    <2>1. \A s \in SUBSET C :
             f[s] \in Nat /\ Cardinality(X \cap UNION {part[P] : P \in s}) <= f[s]
      <3>1. IsFiniteSet(C) /\ w \in [C -> Nat] /\ IsFiniteSet(X)
        BY <1>4
      <3>2. \A P \in C : Cardinality(X \cap part[P]) <= w[P]
        BY <1>4
      <3>3. QED
        BY ONLY <3>1, <3>2, <1>10, SumCovers
    <2>2. QED
      BY ONLY <1>11, <2>1
  <1>13. UNION {part[P] : P \in C} = UNION {CellsOf(P) : P \in comps}
    BY <1>1, <1>4
  <1>14. QED
    BY <1>7, <1>9, <1>12, <1>13

\* A placement of mines on the board that fits all groups, and has the right size
\* if the tier counts, is tried in each component: what all tried ones agree on is
\* so, and cells without information that hold all that is left of it are mines.
LEMMA AllTried ==
    ASSUME Kept, phase = "solve", NEW W \in Possible, \A o \in DOMAIN groups : Fits(W, groups[o]),
           tier = "perfect" => Cardinality(W) = MineCount
    PROVE  /\ \A P \in comps : AlwaysMine(P) \subseteq W /\ AlwaysSafe(P) \cap W = {}
           /\ BlankMines \subseteq W
  <1> DEFINE all == CellsOf(DOMAIN groups)
  <1>1. UNION comps = DOMAIN groups
    BY RangeShort DEF Kept, Apart, Placing, Loose
  <1>2. /\ all \subseteq Cell \ (revealed \cup known) /\ known \subseteq W
        /\ blank = Cell \ (revealed \cup known \cup all)
        /\ W \subseteq Cell \ revealed
    BY GroupsAreCells DEF Kept, GroupsCover, Possible
  <1>3. \A P \in comps : CellsOf(P) \subseteq all
    BY <1>1 DEF CellsOf
  <1>4. tier = "perfect" => Cardinality(W \ known) = Remaining
    BY <1>2, RestCounted DEF Remaining
  <1>5. ASSUME NEW P \in comps PROVE W \cap CellsOf(P) \in Solutions(P)
    <2>1. ASSUME NEW o \in P
          PROVE  Cardinality((W \cap CellsOf(P)) \cap groups[o].cells) = groups[o].mines
      <3>1. (W \cap CellsOf(P)) \cap groups[o].cells = W \cap groups[o].cells
        BY DEF CellsOf
      <3>2. o \in DOMAIN groups
        BY <1>1
      <3>3. QED
        BY <3>1, <3>2 DEF Fits
    <2>2. W \cap CellsOf(P) \in Placements(P)
      BY <2>1 DEF Placements
    <2>3. ASSUME tier = "perfect" PROVE Cardinality(W \cap CellsOf(P)) <= Remaining
      <3>1. W \cap CellsOf(P) \subseteq W \ known /\ W \ known \subseteq Cell
        BY <1>2, <1>3
      <3>2. QED
        BY <1>4, <2>3, <3>1, PartsFinite, FS_Subset
    <2>4. QED
      BY <2>2, <2>3 DEF Solutions
  <1>6. \A P \in comps : AlwaysMine(P) \subseteq W /\ AlwaysSafe(P) \cap W = {}
    <2>1. ASSUME NEW P \in comps, NEW x \in AlwaysMine(P) PROVE x \in W
      <3>1. PICK M : M = W \cap CellsOf(P)
        OBVIOUS
      <3>2. M \in Solutions(P) /\ x \in CellsOf(P) /\ x \notin CellsOf(P) \ M
        BY <1>5, <2>1, <3>1 DEF AlwaysMine
      <3>3. QED
        BY <3>1, <3>2
    <2>2. ASSUME NEW P \in comps, NEW x \in AlwaysSafe(P) PROVE x \notin W
      BY <1>5, <2>2 DEF AlwaysSafe
    <2>3. QED
      BY <2>1, <2>2
  <1>7. ASSUME tier = "perfect", LeftAtLeast = Cardinality(blank) PROVE blank \subseteq W
    <2> DEFINE total == MapThenSumSet(MostMines, comps)
               placed == W \cap all
               rest == W \cap blank
    <2>1. IsFiniteSet(comps)
      <3>1. DOMAIN groups \subseteq Cell
        BY DEF Kept, GroupsNamed, Placing
      <3>2. IsFiniteSet(SUBSET (DOMAIN groups)) /\ comps \subseteq SUBSET (DOMAIN groups)
        BY <1>1, <3>1, PartsFinite, FS_SUBSET
      <3>3. QED
        BY <3>2, FS_Subset
    <2>2. \A P \in comps : MostMines(P) \in Nat /\ Cardinality(W \cap CellsOf(P)) <= MostMines(P)
      <3>1. \A P \in comps : CellsOf(P) \subseteq Cell /\ Solutions(P) # {}
        BY <1>2, <1>3, <1>5
      <3>2. QED
        BY <1>5, <3>1, MostIs
    <2>3. UNION {CellsOf(P) : P \in comps} = all
      BY <1>1 DEF CellsOf
    <2>4. IsFiniteSet(W)
      BY <1>2, PartsFinite
    <2>5. total \in Nat /\ Cardinality(placed) <= total
      BY <2>1, <2>2, <2>3, <2>4, MostCovers
    <2>6. W \ known = placed \cup rest /\ placed \cap rest = {}
      BY <1>2
    <2>7. /\ IsFiniteSet(placed) /\ IsFiniteSet(rest) /\ IsFiniteSet(blank)
          /\ Cardinality(placed) \in Nat /\ Cardinality(rest) \in Nat /\ Cardinality(blank) \in Nat
      BY <1>2, PartsFinite
    <2>8. Cardinality(W \ known) = Cardinality(placed) + Cardinality(rest)
      <3> HIDE DEF placed, rest
      <3>1. Cardinality(placed \cup rest)
              = Cardinality(placed) + Cardinality(rest) - Cardinality(placed \cap rest)
        BY <2>7, FS_Union
      <3>2. Cardinality(placed \cap rest) = 0
        BY <2>6, FS_EmptySet
      <3>3. Cardinality(W \ known) = Cardinality(placed \cup rest)
        BY <2>6
      <3>4. QED
        BY <2>7, <3>1, <3>2, <3>3
    <2>9. Remaining - total = Cardinality(blank)
      BY <1>7 DEF LeftAtLeast
    <2>10. Cardinality(rest) <= Cardinality(blank)
      BY <2>7, FS_Subset
    <2>11. Cardinality(rest) = Cardinality(blank)
      <3> HIDE DEF total, placed, rest
      <3>1. QED
        BY <1>4, <1>7, <2>5, <2>7, <2>8, <2>9, <2>10
    <2>12. rest = blank
      BY <2>7, <2>11, FS_Subset
    <2>13. QED
      BY <2>12
  <1>8. QED
    BY <1>6, <1>7 DEF BlankMines
-----------------------------------------------------------------------------
(* The inductive invariant.                                                *)

\* What is believed of the board is so.
Belief ==
    /\ mines \in Boards /\ mines \subseteq Cell /\ Start \in Cell \ mines
    /\ known \subseteq mines
    /\ revealed \subseteq Cell \ mines /\ pending \subseteq Cell \ mines
    /\ shown \subseteq Cell \ mines
    /\ safe \subseteq Cell \ mines /\ queue \subseteq Cell \ mines
    /\ AllRight(groups)

\* Components are made of present groups, and of nothing while the subset tier
\* runs; groups are added only in the third step of a call.
Placed ==
    /\ \A C \in comps : C \subseteq DOMAIN groups
    /\ todo \subseteq comps
    /\ target \subseteq DOMAIN groups
    /\ adding \in Seq(DOMAIN groups)
    /\ adding = <<>> => target = {}
    /\ phase # "groups" => adding = <<>> /\ todo = {} /\ fresh = {}
    /\ fresh \subseteq revealed
    /\ tier = "subset" => comps = {} /\ phase \notin {"groups", "solve"}
    /\ phase = "split" => tier = "subset"

TierInv == Belief /\ Placed

LEMMA InitInv == Init => TierInv
  <1> SUFFICES ASSUME Init PROVE TierInv
    OBVIOUS
  <1>1. mines \subseteq Cell \ (Neighbors[Start] \cup {Start})
    BY TiersAssumption DEF Init, RandomBoards, kSubset
  <1>2. Start \in Cell \ mines
    BY <1>1, GameAssumption
  <1>3. DOMAIN groups = {}
    BY DEF Init
  <1>4. Belief
    BY <1>1, <1>2, <1>3 DEF Init, Belief, AllRight
  <1>5. Placed
    BY <1>3 DEF Init, Placed, ComponentsInit
  <1>6. QED
    BY <1>4, <1>5 DEF TierInv

-----------------------------------------------------------------------------
(* One lemma for each group of steps.                                      *)

\* The group of each revealed number, built anew.
LEMMA RebuiltRight ==
    ASSUME mines \subseteq Cell, NEW R, R \subseteq Cell \ mines, NEW K, K \subseteq mines,
           NEW S, S \cap mines = {}
    PROVE  AllRight(Rebuilt(R, K, S))
  <1>1. ASSUME NEW c \in DOMAIN Rebuilt(R, K, S)
        PROVE  RightGroup(Rebuilt(R, K, S)[c])
    <2>1. c \in R /\ Rebuilt(R, K, S)[c] = Constraint(c, R, K, S)
      BY DEF Rebuilt
    <2>2. QED
      BY <2>1, ConstraintRight
  <1>2. QED
    BY <1>1 DEF AllRight

\* Groups that are right about a board stay so, as boards do not change.
LEMMA RightNext ==
    ASSUME UNCHANGED mines, NEW grp, AllRight(grp), groups' = grp
    PROVE  AllRight(groups)'
  BY DEF AllRight, RightGroup

LEMMA SubsetStep ==
    ASSUME TierInv, SubsetNext, UNCHANGED componentVars, UNCHANGED <<mines, driverVars>>
    PROVE  TierInv'
  <1> USE DEF TierInv
  <1>1. CASE SubsetRecord
    <2>1. revealed' \subseteq Cell \ mines
      BY <1>1 DEF SubsetRecord, Belief
    <2>2. AllRight(Rebuilt(revealed', known, {}))
      BY <2>1, RebuiltRight DEF Belief
    <2>3. AllRight(groups)'
      BY <1>1, <2>2, RightNext DEF SubsetRecord
    <2>4. Belief'
      BY <1>1, <2>1, <2>3 DEF SubsetRecord, Belief, driverVars
    <2>5. /\ comps = {} /\ todo = {} /\ target = {} /\ adding = <<>> /\ fresh = {}
          /\ phase' = "split" /\ tier' = "subset"
      BY <1>1 DEF SubsetRecord, Placed
    <2>6. Placed'
      BY <2>5 DEF Placed, componentVars
    <2>7. QED
      BY <2>4, <2>6, <2>5
  <1>2. CASE SubsetSplit
    <2>1. PICK s, t \in DOMAIN groups : Nested(s, t) /\ groups' = Split(s, t)
      BY <1>2 DEF SubsetSplit
    <2>2. DOMAIN groups' = DOMAIN groups /\ AllRight(Split(s, t))
      BY <2>1, SplitRight DEF Belief
    <2>3. AllRight(groups)'
      BY <2>1, <2>2, RightNext
    <2>4. Belief'
      BY <1>2, <2>3 DEF SubsetSplit, Belief, driverVars
    <2>5. Placed'
      BY <1>2, <2>2 DEF SubsetSplit, Placed, componentVars
    <2>6. QED
      BY <1>2, <2>4, <2>5 DEF SubsetSplit
  <1>3. CASE SubsetConclude
    <2>1. safe' \subseteq Cell \ mines /\ known' \subseteq mines
      BY <1>3, ConclusionsTrue DEF SubsetConclude, Belief
    <2>2. AllRight(Rebuilt(revealed, known', safe'))
      BY <2>1, RebuiltRight DEF Belief
    <2>3. AllRight(<<>>)
      BY DEF AllRight
    <2>4. AllRight(groups)'
      BY <1>3, <2>2, <2>3, RightNext DEF SubsetConclude
    <2>5. Belief'
      BY <1>3, <2>1, <2>4 DEF SubsetConclude, Belief, driverVars
    <2>6. /\ comps = {} /\ todo = {} /\ target = {} /\ adding = <<>> /\ fresh = {}
          /\ phase' \in {"split", "decide"} /\ tier' = "subset"
      BY <1>3 DEF SubsetConclude, Placed
    <2>7. Placed'
      BY <2>6 DEF Placed, componentVars
    <2>8. QED
      BY <2>5, <2>6, <2>7
  <1>4. QED
    BY <1>1, <1>2, <1>3 DEF SubsetNext

\* A call of the counting tiers begins.
LEMMA RecordStep ==
    ASSUME TierInv, Record, UNCHANGED <<mines, driverVars>>
    PROVE  TierInv'
  <1>1. AllRight(Strip(pending, {})) /\ DOMAIN groups' \subseteq DOMAIN groups
    BY StripRight DEF TierInv, Belief, Record
  <1>2. AllRight(groups)'
    BY <1>1, RightNext DEF Record
  <1>3. Belief'
    BY <1>2 DEF Record, TierInv, Belief, driverVars
  <1>4. /\ tier' = tier /\ tier # "subset" /\ phase' = "groups"
        /\ adding' = <<>> /\ target' = {}
    BY DEF Record, Counting, TierInv, Placed
  <1>5. \A C \in comps' : C \subseteq DOMAIN groups'
    BY DEF Record, Surviving
  <1>6. todo' \subseteq comps' /\ fresh' \subseteq revealed'
    BY DEF Record
  <1>7. Placed'
    BY <1>4, <1>5, <1>6 DEF Placed
  <1>8. QED
    BY <1>3, <1>4, <1>7 DEF TierInv

\* What the steps that split a group have in common.
LEMMA SplitKeeps ==
    ASSUME TierInv, UNCHANGED <<mines, driverVars, tier, revealed, known, safe, pending>>,
           NEW s \in DOMAIN groups, NEW t \in DOMAIN groups, Nested(s, t), groups' = Split(s, t)
    PROVE  Belief' /\ DOMAIN groups' = DOMAIN groups
  <1>1. DOMAIN groups' = DOMAIN groups /\ AllRight(Split(s, t))
    BY SplitRight DEF TierInv, Belief
  <1>2. AllRight(groups)'
    BY <1>1, RightNext
  <1>3. QED
    BY <1>1, <1>2 DEF TierInv, Belief, driverVars

LEMMA ReassessStep ==
    ASSUME TierInv, Reassess, UNCHANGED <<mines, driverVars>>
    PROVE  TierInv'
  <1>1. PICK C \in todo : \E s, t \in C :
            /\ Nested(s, t)
            /\ groups' = Split(s, t)
            /\ comps' = comps \ {C}
            /\ target' = C \ {s, t}
            /\ adding' = <<s, t>>
            /\ todo' = todo \ {C}
    BY DEF Reassess
  <1>2. PICK s \in C, t \in C :
            /\ Nested(s, t)
            /\ groups' = Split(s, t)
            /\ comps' = comps \ {C}
            /\ target' = C \ {s, t}
            /\ adding' = <<s, t>>
            /\ todo' = todo \ {C}
    BY <1>1
  <1>3. C \in comps /\ C \subseteq DOMAIN groups
    BY DEF TierInv, Placed
  <1>4. s \in DOMAIN groups /\ t \in DOMAIN groups
    BY <1>3
  <1>5. Belief' /\ DOMAIN groups' = DOMAIN groups
    BY <1>2, <1>4, SplitKeeps DEF Reassess
  <1>6. adding' \in Seq(DOMAIN groups) /\ adding' # <<>>
    BY <1>2, <1>4
  <1>7. Placed'
    BY <1>2, <1>3, <1>5, <1>6 DEF Reassess, TierInv, Placed
  <1>8. QED
    BY <1>5, <1>7 DEF TierInv

LEMMA AddConstraintStep ==
    ASSUME TierInv, AddConstraint, UNCHANGED <<mines, driverVars>>
    PROVE  TierInv'
  <1>1. PICK c \in fresh :
            LET new == Constraint(c, revealed, known, {}) IN
            /\ comps' = comps \ Hosts(new.cells)
            /\ target' = UNION Hosts(new.cells)
            /\ groups' = [o \in DOMAIN groups \cup {c} |-> IF o = c THEN new ELSE groups[o]]
            /\ adding' = <<c>>
            /\ fresh' = fresh \ {c}
    BY DEF AddConstraint
  <1> DEFINE new == Constraint(c, revealed, known, {})
             larger == [o \in DOMAIN groups \cup {c} |-> IF o = c THEN new ELSE groups[o]]
  <1>2. RightGroup(new)
    BY ConstraintRight DEF TierInv, Belief, Placed
  <1>3. AllRight(larger)
    BY <1>2 DEF AllRight, TierInv, Belief
  <1>4. groups' = larger
    BY <1>1
  <1>5. AllRight(groups)'
    BY <1>3, <1>4, RightNext
  <1>6. Belief'
    BY <1>5 DEF AddConstraint, TierInv, Belief, driverVars
  <1>7. DOMAIN groups' = DOMAIN groups \cup {c}
    BY <1>1
  <1>8. target' \subseteq DOMAIN groups'
    BY <1>1, <1>7 DEF Hosts, TierInv, Placed
  <1>9. /\ todo = {} /\ todo' = {} /\ phase = "groups" /\ phase' = "groups"
        /\ tier' = tier /\ revealed' = revealed
    BY DEF AddConstraint, TierInv
  <1>10. adding' \in Seq(DOMAIN groups') /\ adding' # <<>>
    BY <1>1, <1>7
  <1>11. fresh' \subseteq revealed
    BY <1>1 DEF TierInv, Placed
  <1>12. comps' \subseteq comps
    BY <1>1
  <1>13. Placed'
    BY <1>7, <1>8, <1>9, <1>10, <1>11, <1>12 DEF TierInv, Placed
  <1>14. QED
    BY <1>6, <1>9, <1>13 DEF TierInv

LEMMA AddGroupStep ==
    ASSUME TierInv, AddGroup, UNCHANGED <<mines, driverVars>>
    PROVE  TierInv'
  <1>1. adding \in Seq(DOMAIN groups) /\ adding # <<>> /\ target \subseteq DOMAIN groups
    BY DEF AddGroup, TierInv, Placed
  <1>2. Head(adding) \in DOMAIN groups /\ Tail(adding) \in Seq(DOMAIN groups)
    BY <1>1
  <1>3. /\ phase = "groups" /\ phase' = "groups" /\ tier' = tier
        /\ todo' = todo /\ fresh' = fresh /\ revealed' = revealed
    BY DEF AddGroup, TierInv, Placed
  <1>4. ASSUME NEW e \in target, SplitWith(Head(adding), e)
        PROVE  TierInv'
    <2>1. PICK s, t \in {Head(adding), e} :
            /\ Nested(s, t)
            /\ groups' = Split(s, t)
            /\ target' = target \ {e}
            /\ adding' = <<s, t>> \o Tail(adding)
            /\ UNCHANGED comps
      BY <1>4 DEF SplitWith
    <2>2. s \in DOMAIN groups /\ t \in DOMAIN groups
      BY <1>1, <1>2, <1>4
    <2>3. Belief' /\ DOMAIN groups' = DOMAIN groups
      BY <2>1, <2>2, SplitKeeps DEF AddGroup
    <2>4. <<s, t>> \in Seq(DOMAIN groups) /\ Len(<<s, t>>) = 2
      BY <2>2
    <2>5. adding' \in Seq(DOMAIN groups) /\ adding' # <<>>
      BY <1>2, <2>1, <2>4
    <2>6. Placed'
      BY <1>1, <1>3, <2>1, <2>3, <2>5 DEF TierInv, Placed
    <2>7. QED
      BY <2>3, <2>6 DEF TierInv
  <1>5. CASE PutInPlace(Head(adding))
    <2>1. groups' = groups /\ adding' = Tail(adding)
      BY <1>5 DEF PutInPlace
    <2>2. AllRight(groups)'
      BY <2>1, RightNext DEF TierInv, Belief
    <2>3. Belief'
      BY <2>2 DEF AddGroup, TierInv, Belief, driverVars
    <2>4. \/ /\ comps' = comps \cup {target \cup {Head(adding)}}
             /\ target' = {}
          \/ /\ comps' = comps /\ target' = target \cup {Head(adding)}
             /\ Tail(adding) # <<>>
      BY <1>5 DEF PutInPlace
    <2>5. adding' = <<>> => target' = {}
      BY <2>1, <2>4
    <2>6. target' \subseteq DOMAIN groups /\ comps \subseteq comps'
      BY <1>1, <1>2, <2>4
    <2>7. \A C \in comps' : C \subseteq DOMAIN groups
      BY <1>1, <1>2, <2>4 DEF TierInv, Placed
    <2>8. Placed'
      BY <1>2, <1>3, <2>1, <2>5, <2>6, <2>7 DEF TierInv, Placed
    <2>9. QED
      BY <1>3, <2>3, <2>8 DEF TierInv
  <1>6. QED
    BY <1>4, <1>5 DEF AddGroup

LEMMA DivideStep ==
    ASSUME TierInv, Divide, UNCHANGED <<mines, driverVars>>
    PROVE  TierInv'
  <1>1. AllRight(groups)'
    BY RightNext DEF Divide, TierInv, Belief
  <1>2. Belief'
    BY <1>1 DEF Divide, TierInv, Belief, driverVars
  <1>3. \A C \in comps' : C \subseteq DOMAIN groups
    BY DEF Divide, Piece, TierInv, Placed
  <1>4. Placed'
    BY <1>3 DEF Divide, TierInv, Placed
  <1>5. QED
    BY <1>2, <1>4 DEF Divide, TierInv

\* The true placement of mines is among those that are tried.
LEMMA TruthTried ==
    ASSUME Belief, Kept, phase = "solve"
    PROVE  /\ \A P \in comps : AlwaysMine(P) \subseteq mines /\ AlwaysSafe(P) \cap mines = {}
           /\ BlankMines \subseteq mines
  <1>1. mines \in Possible
    BY DEF Belief, Possible
  <1>2. \A o \in DOMAIN groups : Fits(mines, groups[o])
    <2>1. \A o : mines \cap groups[o].cells = groups[o].cells \cap mines
      OBVIOUS
    <2>2. QED
      BY <2>1 DEF Belief, AllRight, RightGroup, Fits
  <1>3. Cardinality(mines) = MineCount
    BY TiersAssumption DEF Belief, RandomBoards, kSubset
  <1>4. PICK W : W = mines
    OBVIOUS
  <1>5. QED
    BY <1>1, <1>2, <1>3, <1>4, AllTried

\* All components are solved, and the mines leave the groups.
LEMMA SolveStep ==
    ASSUME TierInv, Kept, Solve, UNCHANGED <<mines, driverVars>>
    PROVE  TierInv'
  <1>1. /\ \A P \in comps : AlwaysMine(P) \subseteq mines /\ AlwaysSafe(P) \cap mines = {}
        /\ BlankMines \subseteq mines
    BY TruthTried DEF Solve, TierInv
  <1>2. \A P \in comps : AlwaysSafe(P) \subseteq Cell
    <2>1. \A P \in comps : CellsOf(P) \subseteq Cell
      BY DEF CellsOf, TierInv, Belief, Placed, AllRight, RightGroup
    <2>2. QED
      BY <2>1 DEF AlwaysSafe
  <1>3. safe' \subseteq Cell \ mines /\ known' \subseteq mines
    <2>1. UNION {AlwaysMine(P) : P \in comps} \subseteq mines
      BY <1>1
    <2>2. UNION {AlwaysSafe(P) : P \in comps} \subseteq Cell \ mines
      BY <1>1, <1>2
    <2>3. QED
      BY <1>1, <2>1, <2>2 DEF Solve, TierInv, Belief
  <1>4. AllRight(Strip({}, known')) /\ DOMAIN groups' \subseteq DOMAIN groups
    BY <1>3, StripRight DEF TierInv, Belief, Solve
  <1>5. AllRight(groups)'
    BY <1>4, RightNext DEF Solve
  <1>6. Belief'
    BY <1>3, <1>5 DEF Solve, TierInv, Belief, driverVars
  <1>7. \A C \in comps' : C \subseteq DOMAIN groups'
    BY DEF Solve, Surviving
  <1>8. /\ todo' = {} /\ target' = {} /\ adding' = <<>> /\ fresh' = {} /\ phase' = "decide"
        /\ tier' = tier
    BY DEF Solve, TierInv, Placed
  <1>9. tier = "subset" => comps' = {}
    BY DEF Solve, Surviving, TierInv, Placed
  <1>10. Placed'
    BY <1>7, <1>8, <1>9 DEF Placed
  <1>11. QED
    BY <1>6, <1>10 DEF TierInv

\* The generator and the bot uncover cells deduced safe, cascades and, when the
\* bot guesses, cells that are safe.
LEMMA DriverStep ==
    ASSUME TierInv,
           \/ Spread \/ EndReveal \/ UncoverAll \/ Verdict \/ ClickQueued \/ Guess
    PROVE  TierInv'
  <1> USE DEF TierInv
  <1>1. CASE Spread
    <2>1. pending' \subseteq Cell \ mines
      BY <1>1, CascadeSafe DEF Spread, Belief
    <2>2. AllRight(groups)'
      BY <1>1, RightNext DEF Spread, Belief, solverVars
    <2>3. QED
      BY <1>1, <2>1, <2>2 DEF Spread, Belief, Placed, solverVars, driverVars, componentVars
  <1>2. CASE EndReveal
    <2>1. AllRight(groups)'
      BY <1>2, RightNext DEF EndReveal, Belief, solverVars
    <2>2. QED
      BY <1>2, <2>1 DEF EndReveal, Belief, Placed, solverVars, componentVars
  <1>3. CASE UncoverAll
    <2>1. AllRight(groups)'
      BY <1>3, RightNext DEF UncoverAll, Belief, solverVars
    <2>2. QED
      BY <1>3, <2>1 DEF UncoverAll, Belief, Placed, solverVars, driverVars, componentVars
  <1>4. CASE Verdict
    <2>1. Start \in Cell \ mines
      BY DEF Belief
    <2>2. AllRight(groups)'
      BY <1>4 DEF Verdict, AllRight
    <2>3. QED
      BY <1>4, <2>1, <2>2 DEF Verdict, Belief, Placed
  <1>5. ASSUME NEW c \in Cell \ mines, phase = "decide", Click(c)
        PROVE  TierInv'
    <2>1. AllRight(groups)'
      BY <1>5, RightNext DEF Click, Belief, solverVars
    <2>2. QED
      BY <1>5, <2>1 DEF Click, Belief, Placed, solverVars, componentVars
  <1>6. CASE ClickQueued
    BY <1>5, <1>6 DEF ClickQueued, Deciding, Belief
  <1>7. CASE Guess
    BY <1>5, <1>7 DEF Guess, Deciding
  <1>8. QED
    BY <1>1, <1>2, <1>3, <1>4, <1>6, <1>7

LEMMA NextInv == ApartInv /\ TierInv /\ [Next]_vars => TierInv'
  <1> SUFFICES ASSUME ApartInv, TierInv, [Next]_vars PROVE TierInv'
    OBVIOUS
  <1>1. CASE Solving
    <2>1. ASSUME Solve PROVE Kept
      BY <2>1 DEF Solve, TierInv, Placed, ApartInv
    <2>2. QED
      BY <1>1, <2>1, SubsetStep, RecordStep, ReassessStep, AddConstraintStep, AddGroupStep,
         DivideStep, SolveStep DEF Solving, ComponentNext
  <1>2. CASE Spread \/ EndReveal \/ UncoverAll \/ Verdict \/ ClickQueued \/ Guess
    BY <1>2, DriverStep
  <1>3. CASE UNCHANGED vars
    <2>1. AllRight(groups)'
      BY <1>3, RightNext DEF vars, solverVars, TierInv, Belief
    <2>2. QED
      BY <1>3, <2>1 DEF vars, solverVars, componentVars, driverVars, TierInv, Belief, Placed
  <1>4. QED
    BY <1>1, <1>2, <1>3 DEF Next

LEMMA TierInductive == Spec => [](ApartInv /\ TierInv)
  <1>1. Init => ApartInv /\ TierInv
    BY ApartInit, InitInv
  <1>2. ApartInv /\ TierInv /\ [Next]_vars => (ApartInv /\ TierInv)'
    BY ApartStep, NextInv
  <1>3. QED
    BY <1>1, <1>2, PTL DEF Spec

\* On every board, and for every order in which cells are uncovered and groups
\* are split and added, no tier calls a mine safe or a safe cell a mine: a mine
\* group that is kept from call to call stays right about the board, the true
\* placement of mines is always among those that solve_groups tries, and the
\* perfect tier never takes more mines from its budget than there are.
THEOREM DeductionsTrue == Spec => []DeductionsSound
  <1>1. ApartInv /\ TierInv => DeductionsSound
    BY DEF TierInv, Belief, DeductionsSound
  <1>2. QED
    BY TierInductive, <1>1, PTL

-----------------------------------------------------------------------------
(* What the groups of the probabilistic and the perfect tier say.          *)

\* Those that agree with the numbers that were added are those that fit the groups.
SameSaid ==
    \A M \in Possible :
        (\A c \in revealed \ fresh : Agrees(M, c)) <=> (\A o \in DOMAIN groups : Fits(M, groups[o]))

\* A group and what is left of a larger one say what both said.
LEMMA SplitFits ==
    ASSUME AllRight(groups), NEW s \in DOMAIN groups, NEW t \in DOMAIN groups, Nested(s, t),
           NEW M, M \subseteq Cell
    PROVE  (\A o \in DOMAIN Split(s, t) : Fits(M, Split(s, t)[o]))
              <=> (\A o \in DOMAIN groups : Fits(M, groups[o]))
  <1> DEFINE inner == M \cap groups[s].cells
             outer == M \cap groups[t].cells
  <1>1. /\ s # t /\ inner \subseteq outer /\ outer \subseteq Cell
        /\ M \cap (groups[t].cells \ groups[s].cells) = outer \ inner
    BY DEF Nested
  <1>2. /\ Cardinality(outer \ inner) = Cardinality(outer) - Cardinality(inner)
        /\ Cardinality(outer) \in Nat /\ Cardinality(inner) \in Nat
    BY <1>1, RestCounted, PartsFinite
  <1>3. groups[s].mines \in Nat /\ groups[t].mines \in Nat
    BY PartsFinite DEF AllRight, RightGroup
  <1>4. /\ DOMAIN Split(s, t) = DOMAIN groups
        /\ \A o \in DOMAIN groups \ {t} : Split(s, t)[o] = groups[o]
        /\ Split(s, t)[t].cells = groups[t].cells \ groups[s].cells
        /\ Split(s, t)[t].mines = groups[t].mines - groups[s].mines
    BY DEF Split
  <1>5. Fits(M, groups[s]) => (Fits(M, Split(s, t)[t]) <=> Fits(M, groups[t]))
    <2>1. Fits(M, Split(s, t)[t]) <=> Cardinality(outer \ inner) = groups[t].mines - groups[s].mines
      BY <1>1, <1>4 DEF Fits
    <2>2. Fits(M, groups[s]) <=> Cardinality(inner) = groups[s].mines
      BY DEF Fits
    <2>3. Fits(M, groups[t]) <=> Cardinality(outer) = groups[t].mines
      BY DEF Fits
    <2>4. QED
      BY <1>2, <1>3, <2>1, <2>2, <2>3
  <1>6. QED
    BY <1>1, <1>4, <1>5

\* Cells that leave the groups, mines counted and others not, take nothing away.
LEMMA StripFits ==
    ASSUME AllRight(groups), NEW S, S \cap mines = {}, NEW K, K \subseteq mines,
           NEW M, M \subseteq Cell, M \cap S = {}, K \subseteq M
    PROVE  (\A o \in DOMAIN Strip(S, K) : Fits(M, Strip(S, K)[o]))
              <=> (\A o \in DOMAIN groups : Fits(M, groups[o]))
  <1>1. DOMAIN Strip(S, K) = {p \in DOMAIN groups : ~(groups[p].cells \subseteq S \cup K)}
    BY DEF Strip
  <1>2. ASSUME NEW o \in DOMAIN Strip(S, K)
        PROVE  Fits(M, Strip(S, K)[o]) <=> Fits(M, groups[o])
    <2> DEFINE all == M \cap groups[o].cells
               gone == groups[o].cells \cap K
    <2>1. RightGroup(groups[o])
      BY <1>1 DEF AllRight
    <2>2. gone \subseteq all /\ all \subseteq Cell
      OBVIOUS
    <2>3. M \cap (groups[o].cells \ (S \cup K)) = all \ gone
      OBVIOUS
    <2>4. /\ Cardinality(all \ gone) = Cardinality(all) - Cardinality(gone)
          /\ Cardinality(all) \in Nat /\ Cardinality(gone) \in Nat
      BY <2>2, RestCounted, PartsFinite
    <2>5. groups[o].mines \in Nat
      BY <2>1, PartsFinite DEF RightGroup
    <2>6. /\ Strip(S, K)[o].cells = groups[o].cells \ (S \cup K)
          /\ Strip(S, K)[o].mines = groups[o].mines - Cardinality(gone)
      BY DEF Strip
    <2>7. Fits(M, Strip(S, K)[o])
            <=> Cardinality(all \ gone) = groups[o].mines - Cardinality(gone)
      BY <2>3, <2>6 DEF Fits
    <2>8. Fits(M, groups[o]) <=> Cardinality(all) = groups[o].mines
      BY DEF Fits
    <2>9. QED
      BY <2>4, <2>5, <2>7, <2>8
  <1>3. ASSUME NEW o \in DOMAIN groups, groups[o].cells \subseteq S \cup K
        PROVE  Fits(M, groups[o])
    <2>1. M \cap groups[o].cells = groups[o].cells \cap mines
      BY <1>3
    <2>2. QED
      BY <2>1 DEF Fits, AllRight, RightGroup
  <1>4. QED
    BY <1>1, <1>2, <1>3

\* The group of a number says what the number says.
LEMMA ConstraintFits ==
    ASSUME Belief, NEW c \in revealed, NEW M \in Possible
    PROVE  Fits(M, Constraint(c, revealed, known, {})) <=> Agrees(M, c)
  <1> DEFINE near == Neighbors[c] \cap M
             flagged == Neighbors[c] \cap known
             new == Constraint(c, revealed, known, {})
  <1>1. /\ c \in Cell /\ Neighbors[c] \subseteq Cell
        /\ M \subseteq Cell /\ M \cap revealed = {} /\ known \subseteq M
    BY NeighborsAreCells DEF Belief, Possible
  <1>2. flagged \subseteq near /\ near \subseteq Cell
        /\ M \cap Open(c, revealed, known, {}) = near \ flagged
    BY <1>1 DEF Open
  <1>3. /\ Cardinality(near \ flagged) = Cardinality(near) - Cardinality(flagged)
        /\ Cardinality(near) \in Nat /\ Cardinality(flagged) \in Nat
    BY <1>2, RestCounted, PartsFinite
  <1>4. Adjacent(c) \in Nat
    <2>1. Neighbors[c] \cap mines \subseteq Cell
      BY <1>1
    <2>2. QED
      BY <2>1, PartsFinite DEF Adjacent
  <1>5. /\ new.cells = Open(c, revealed, known, {})
        /\ new.mines = Adjacent(c) - Cardinality(flagged)
    BY DEF Constraint
  <1>6. Fits(M, new) <=> Cardinality(near \ flagged) = Adjacent(c) - Cardinality(flagged)
    BY <1>2, <1>5 DEF Fits
  <1>7. QED
    BY <1>3, <1>4, <1>6 DEF Agrees

\* A revealed number all whose neighbors are known agrees with every placement.
LEMMA NothingOpen ==
    ASSUME mines \subseteq Cell, NEW c \in Cell \ mines, NEW R, R \cap mines = {},
           NEW K, K \subseteq mines, NEW M, M \cap R = {}, K \subseteq M,
           (Adjacent(c) = 0 /\ Neighbors[c] \subseteq R) \/ Open(c, R, K, {}) = {}
    PROVE  Agrees(M, c)
  <1>1. CASE Neighbors[c] \subseteq R
    <2>1. Neighbors[c] \cap M = Neighbors[c] \cap mines
      BY <1>1
    <2>2. QED
      BY <2>1 DEF Agrees, Adjacent
  <1>2. CASE Open(c, R, K, {}) = {}
    <2>1. Neighbors[c] \cap M = Neighbors[c] \cap mines
      BY <1>2 DEF Open
    <2>2. QED
      BY <2>1 DEF Agrees, Adjacent
  <1>3. QED
    BY <1>1, <1>2

\* The board does not change.
LEMMA SaidNext ==
    ASSUME UNCHANGED mines,
           \A M \in Possible' :
              (\A c \in revealed' \ fresh' : Agrees(M, c))
                 <=> (\A o \in DOMAIN groups' : Fits(M, groups'[o]))
    PROVE  SameSaid'
  <1>1. \A M, c : Agrees(M, c)' <=> Agrees(M, c)
    BY DEF Agrees, Adjacent
  <1>2. ASSUME NEW M \in Possible'
        PROVE  ((\A c \in revealed \ fresh : Agrees(M, c))
                  <=> (\A o \in DOMAIN groups : Fits(M, groups[o])))'
    <2>1. (\A c \in revealed \ fresh : Agrees(M, c))' <=> \A c \in revealed' \ fresh' : Agrees(M, c)
      BY <1>1
    <2>2. (\A o \in DOMAIN groups : Fits(M, groups[o]))'
            <=> \A o \in DOMAIN groups' : Fits(M, groups'[o])
      BY DEF Fits
    <2>3. QED
      BY <1>2, <2>1, <2>2
  <1>3. QED
    BY <1>2 DEF SameSaid

LEMMA RecordSaid ==
    ASSUME Belief, Kept, SameSaid, Record, UNCHANGED <<mines, driverVars>>
    PROVE  SameSaid'
  <1>1. /\ phase = "feed" /\ fresh = {} /\ revealed' = revealed \cup pending /\ known' = known
        /\ groups' = Strip(pending, {})
        /\ fresh' = {c \in pending : Adjacent(c) # 0 /\ Open(c, revealed', known, {}) # {}}
        /\ mines' = mines
    BY DEF Record, Kept, Placing
  <1>2. ASSUME NEW M \in Possible'
        PROVE  (\A c \in revealed' \ fresh' : Agrees(M, c))
                  <=> (\A o \in DOMAIN groups' : Fits(M, groups'[o]))
    <2>1. /\ M \in Possible /\ M \subseteq Cell /\ M \cap pending = {} /\ M \cap revealed' = {}
          /\ known \subseteq M
      BY <1>1 DEF Possible
    <2>2. ASSUME NEW c \in pending \ fresh' PROVE Agrees(M, c)
      <3>1. /\ mines \subseteq Cell /\ c \in Cell \ mines /\ revealed' \cap mines = {}
            /\ known \subseteq mines
        BY <1>1 DEF Belief
      <3>2. \/ Adjacent(c) = 0 /\ Neighbors[c] \subseteq revealed'
            \/ Open(c, revealed', known, {}) = {}
        BY <1>1, <2>2 DEF Kept, ZerosDone
      <3>3. QED
        BY <2>1, <3>1, <3>2, NothingOpen
    <2>3. revealed' \ fresh' = revealed \cup (pending \ fresh')
      BY <1>1 DEF Kept, UncoveredOnce
    <2>4. (\A c \in revealed : Agrees(M, c)) <=> (\A o \in DOMAIN groups : Fits(M, groups[o]))
      BY <1>1, <2>1 DEF SameSaid
    <2>5. (\A o \in DOMAIN Strip(pending, {}) : Fits(M, Strip(pending, {})[o]))
            <=> (\A o \in DOMAIN groups : Fits(M, groups[o]))
      BY <2>1, StripFits DEF Belief
    <2>6. QED
      BY <1>1, <2>2, <2>3, <2>4, <2>5
  <1>3. QED
    BY <1>1, <1>2, SaidNext

\* What the steps that split a group and reveal nothing keep.
LEMMA SplitSaid ==
    ASSUME Belief, SameSaid, UNCHANGED <<mines, revealed, known, fresh>>,
           NEW s \in DOMAIN groups, NEW t \in DOMAIN groups, Nested(s, t), groups' = Split(s, t)
    PROVE  SameSaid'
  <1>1. ASSUME NEW M \in Possible
        PROVE  (\A c \in revealed \ fresh : Agrees(M, c))
                  <=> (\A o \in DOMAIN groups' : Fits(M, groups'[o]))
    <2>1. M \subseteq Cell
      BY DEF Possible
    <2>2. QED
      BY <1>1, <2>1, SplitFits DEF SameSaid, Belief
  <1>2. Possible' = Possible
    BY DEF Possible
  <1>3. QED
    BY <1>1, <1>2, SaidNext

\* What the other steps that reveal nothing keep.
LEMMA SameGroupsSaid ==
    ASSUME SameSaid, UNCHANGED <<mines, revealed, known, fresh, groups>>
    PROVE  SameSaid'
  <1>1. Possible' = Possible
    BY DEF Possible
  <1>2. QED
    BY <1>1, SaidNext DEF SameSaid

LEMMA AddConstraintSaid ==
    ASSUME Belief, Kept, SameSaid, AddConstraint, UNCHANGED <<mines, driverVars>>
    PROVE  SameSaid'
  <1>1. PICK c \in fresh :
            LET new == Constraint(c, revealed, known, {}) IN
            /\ groups' = [o \in DOMAIN groups \cup {c} |-> IF o = c THEN new ELSE groups[o]]
            /\ fresh' = fresh \ {c}
    BY DEF AddConstraint
  <1>2. revealed' = revealed /\ known' = known /\ mines' = mines /\ fresh \subseteq revealed
    BY DEF AddConstraint, Kept, Placing
  <1>3. c \notin DOMAIN groups /\ c \in revealed
    BY <1>2 DEF Kept, GroupsNamed
  <1> DEFINE new == Constraint(c, revealed, known, {})
  <1>4. /\ DOMAIN groups' = DOMAIN groups \cup {c} /\ groups'[c] = new
        /\ \A o \in DOMAIN groups : groups'[o] = groups[o]
    BY <1>1, <1>3
  <1>5. revealed' \ fresh' = (revealed \ fresh) \cup {c}
    BY <1>1, <1>2, <1>3
  <1>6. ASSUME NEW M \in Possible
        PROVE  (\A d \in revealed' \ fresh' : Agrees(M, d))
                  <=> (\A o \in DOMAIN groups' : Fits(M, groups'[o]))
    <2>1. Fits(M, new) <=> Agrees(M, c)
      BY <1>3, ConstraintFits
    <2>2. (\A d \in revealed \ fresh : Agrees(M, d)) <=> (\A o \in DOMAIN groups : Fits(M, groups[o]))
      BY DEF SameSaid
    <2> HIDE DEF new
    <2>3. QED
      BY <1>4, <1>5, <2>1, <2>2
  <1>7. Possible' = Possible
    BY <1>2 DEF Possible
  <1>8. QED
    BY <1>2, <1>6, <1>7, SaidNext

LEMMA SolveSaid ==
    ASSUME Belief, Belief', Kept, SameSaid, Solve, UNCHANGED <<mines, driverVars>>
    PROVE  SameSaid'
  <1>1. /\ revealed' = revealed /\ fresh' = fresh /\ known \subseteq known' /\ mines' = mines
        /\ groups' = Strip({}, known')
    BY DEF Solve
  <1>2. known' \subseteq mines
    BY <1>1 DEF Belief
  <1>3. ASSUME NEW M \in Possible'
        PROVE  (\A c \in revealed \ fresh : Agrees(M, c))
                  <=> (\A o \in DOMAIN groups' : Fits(M, groups'[o]))
    <2>1. M \in Possible /\ M \subseteq Cell /\ known' \subseteq M
      BY <1>1 DEF Possible
    <2>2. (\A o \in DOMAIN Strip({}, known') : Fits(M, Strip({}, known')[o]))
            <=> (\A o \in DOMAIN groups : Fits(M, groups[o]))
      <3>1. PICK S, K : S = {} /\ K = known'
        OBVIOUS
      <3>2. QED
        BY <1>2, <2>1, <3>1, StripFits DEF Belief
    <2>3. QED
      BY <1>1, <2>1, <2>2 DEF SameSaid
  <1>4. QED
    BY <1>1, <1>3, SaidNext

\* Only what lies beside revealed cells matters to the numbers.
LEMMA OnFringe ==
    ASSUME revealed \subseteq Cell, NEW c \in revealed, NEW M \in SUBSET (Cell \ revealed)
    PROVE  /\ Neighbors[c] \cap M = Neighbors[c] \cap (M \cap Fringe)
           /\ Agrees(M, c) <=> Agrees(M \cap Fringe, c)
  <1>1. ASSUME NEW x \in Neighbors[c] \cap M PROVE x \in Fringe
    <2>1. x \in Cell /\ x \notin revealed /\ c \in Cell
      OBVIOUS
    <2>2. c \in Neighbors[x]
      BY <1>1, <2>1, NeighborsSymmetric
    <2>3. QED
      BY <2>1, <2>2 DEF Fringe
  <1>2. Neighbors[c] \cap M = Neighbors[c] \cap (M \cap Fringe)
    BY <1>1
  <1>3. QED
    BY <1>2 DEF Agrees

LEMMA ConsistentAre ==
    ASSUME revealed \subseteq Cell
    PROVE  /\ \A M \in Consistent :
                 M \in SUBSET (Cell \ revealed) /\ M \subseteq Fringe /\ \A c \in revealed : Agrees(M, c)
           /\ \A M \in SUBSET (Cell \ revealed) :
                 (\A c \in revealed : Agrees(M, c)) => M \cap Fringe \in Consistent
  <1>1. Fringe \subseteq Cell \ revealed
    BY DEF Fringe
  <1>2. ASSUME NEW M \in SUBSET (Cell \ revealed), \A c \in revealed : Agrees(M, c)
        PROVE  M \cap Fringe \in Consistent
    <2>1. \A c \in revealed : Agrees(M \cap Fringe, c)
      BY <1>2, OnFringe
    <2>2. QED
      BY <2>1 DEF Consistent, Agrees
  <1>3. QED
    BY <1>1, <1>2 DEF Consistent, Agrees

LEMMA SaidIsExact ==
    ASSUME Belief, Kept, SameSaid, AfterCall
    PROVE  GroupsExact
  <1> DEFINE given == known \cap Fringe
             all == DOMAIN groups
  <1>1. fresh = {} /\ revealed \subseteq Cell
    BY DEF AfterCall, Kept, Placing
  <1>2. CellsOf(all) = Fringe \ known
    BY <1>1, FringeCovered
  <1>3. known \subseteq Cell \ revealed /\ Fringe \subseteq Cell \ revealed
    BY DEF Belief, Fringe
  <1>4. ASSUME NEW M \in SUBSET (Fringe \ known)
        PROVE  M \in Placements(all) <=> M \cup given \in Consistent
    <2> DEFINE W == M \cup known
    <2>1. W \in Possible /\ W \in SUBSET (Cell \ revealed) /\ W \cap Fringe = M \cup given
      BY <1>3 DEF Possible
    <2>2. ASSUME NEW o \in all PROVE W \cap groups[o].cells = M \cap groups[o].cells
      BY <1>2 DEF CellsOf
    <2>3. M \in Placements(all) <=> \A o \in all : Fits(W, groups[o])
      BY <1>2, <2>2 DEF Placements, Fits
    <2>4. (\A c \in revealed : Agrees(W, c)) <=> (\A o \in all : Fits(W, groups[o]))
      BY <1>1, <2>1 DEF SameSaid
    <2>5. (\A c \in revealed : Agrees(W, c)) <=> W \cap Fringe \in Consistent
      <3>1. (\A c \in revealed : Agrees(W, c)) => W \cap Fringe \in Consistent
        BY <1>1, <2>1, ConsistentAre
      <3>2. ASSUME W \cap Fringe \in Consistent, NEW c \in revealed PROVE Agrees(W, c)
        <4>1. Agrees(W \cap Fringe, c)
          BY <1>1, <3>2, ConsistentAre
        <4>2. QED
          BY <1>1, <2>1, <4>1, OnFringe
      <3>3. QED
        BY <3>1, <3>2
    <2>6. QED
      BY <2>1, <2>3, <2>4, <2>5
  <1>5. Placements(all) \subseteq SUBSET (Fringe \ known)
    BY <1>2 DEF Placements
  <1>6. ASSUME NEW M \in Placements(all)
        PROVE  M \cup given \in Consistent /\ given \subseteq M \cup given
    BY <1>4, <1>5
  <1>7. ASSUME NEW N \in Consistent, given \subseteq N
        PROVE  \E M \in Placements(all) : N = M \cup given
    <2>1. N \subseteq Fringe
      BY <1>1, ConsistentAre
    <2>2. N = (N \ known) \cup given /\ N \ known \in SUBSET (Fringe \ known)
      BY <1>7, <2>1
    <2>3. N \ known \in Placements(all)
      BY <1>4, <2>2
    <2>4. QED
      BY <2>2, <2>3
  <1>8. QED
    BY <1>6, <1>7 DEF GroupsExact

-----------------------------------------------------------------------------
(* What the probabilistic and the perfect tier conclude.                   *)

\* The placements of mines on the whole board that agree with the numbers on R,
\* and those of them that a tier reckons with: the perfect one counts the mines.
Beyond(R) == {M \in SUBSET (Cell \ R) : \A c \in R : Agrees(M, c)}
Counted(R) == {M \in Beyond(R) : tier = "perfect" => Cardinality(M) = MineCount}

\* Known mines are in every such placement; without counting, they are beside
\* revealed cells.
KnownForced ==
    /\ \A M \in Counted(revealed) : known \subseteq M
    /\ tier = "probabilistic" => known \subseteq Fringe

\* After a call all that the numbers imply is concluded, and what is safe is so in
\* every placement reckoned with.
Concluded ==
    phase = "decide" =>
        /\ ForcedMines(Consistent) \subseteq known
        /\ ForcedSafe(Consistent) \subseteq safe
        /\ safe \subseteq Fringe
        /\ \A M \in Counted(revealed) : safe \cap M = {}

\* A placement for one component, and the true mines elsewhere, agree with all
\* that is revealed.
LEMMA Combined ==
    ASSUME Belief, Kept, SameSaid, fresh = {}, adding = <<>>,
           NEW P \in comps, NEW S \in Placements(P)
    PROVE  /\ S \cup (mines \ CellsOf(P)) \in Beyond(revealed)
           /\ (S \cup (mines \ CellsOf(P))) \cap Fringe \in Consistent
  <1> DEFINE W == S \cup (mines \ CellsOf(P))
  <1>1. UNION comps = DOMAIN groups /\ revealed \subseteq Cell
    BY RangeShort DEF Kept, Apart, Placing, Loose
  <1>2. CellsOf(P) \subseteq Fringe \ known
    <2>1. CellsOf(P) \subseteq CellsOf(DOMAIN groups)
      BY <1>1 DEF CellsOf
    <2>2. QED
      BY <2>1, FringeCovered
  <1>3. S \subseteq CellsOf(P) /\ \A o \in P : Cardinality(S \cap groups[o].cells) = groups[o].mines
    BY DEF Placements
  <1>4. W \in Possible /\ W \in SUBSET (Cell \ revealed)
    BY <1>2, <1>3 DEF Possible, Belief, Fringe
  <1>5. ASSUME NEW o \in DOMAIN groups PROVE Fits(W, groups[o])
    <2>1. CASE o \in P
      <3>1. W \cap groups[o].cells = S \cap groups[o].cells
        BY <2>1 DEF CellsOf
      <3>2. QED
        BY <1>3, <2>1, <3>1 DEF Fits
    <2>2. CASE o \notin P
      <3>1. PICK Q \in comps : o \in Q
        BY <1>1
      <3>2. CellsOf(Q) \cap CellsOf(P) = {}
        BY <2>2, <3>1 DEF Kept, Apart
      <3>3. W \cap groups[o].cells = groups[o].cells \cap mines
        BY <1>3, <3>1, <3>2 DEF CellsOf
      <3>4. QED
        BY <3>3 DEF Fits, Belief, AllRight, RightGroup
    <2>3. QED
      BY <2>1, <2>2
  <1>6. \A c \in revealed : Agrees(W, c)
    BY <1>4, <1>5 DEF SameSaid
  <1>7. QED
    BY <1>1, <1>4, <1>6, ConsistentAre DEF Beyond

LEMMA SolveConcludes ==
    ASSUME Belief, Belief', Kept, SameSaid, KnownForced, Solve, UNCHANGED <<mines, driverVars>>
    PROVE  KnownForced' /\ Concluded'
  <1>1. /\ fresh = {} /\ adding = <<>> /\ revealed \subseteq Cell
        /\ UNCHANGED <<mines, revealed, tier>> /\ phase = "solve"
        /\ known' = known \cup (UNION {AlwaysMine(P) : P \in comps}) \cup BlankMines
        /\ safe' = UNION {AlwaysSafe(P) : P \in comps}
    BY DEF Solve, Kept, Placing
  <1>2. \A P : Solutions(P) \subseteq Placements(P)
    BY DEF Solutions
  <1>3. UNION comps = DOMAIN groups
    BY <1>1, RangeShort DEF Kept, Apart, Loose, Placing
  <1>4. CellsOf(DOMAIN groups) = Fringe \ known
    BY <1>1, FringeCovered
  <1>5. ASSUME NEW M \in Counted(revealed)
        PROVE  known' \subseteq M /\ safe' \cap M = {}
    <2>1. known \subseteq M
      BY DEF KnownForced
    <2>2. M \in Possible /\ \A c \in revealed : Agrees(M, c)
      BY <2>1 DEF Counted, Beyond, Possible
    <2>3. \A o \in DOMAIN groups : Fits(M, groups[o])
      BY <1>1, <2>2 DEF SameSaid
    <2>4. tier = "perfect" => Cardinality(M) = MineCount
      BY DEF Counted
    <2>5. /\ \A P \in comps : AlwaysMine(P) \subseteq M /\ AlwaysSafe(P) \cap M = {}
          /\ BlankMines \subseteq M
      BY <1>1, <2>2, <2>3, <2>4, AllTried
    <2>6. UNION {AlwaysMine(P) : P \in comps} \subseteq M
      BY <2>5
    <2>7. (UNION {AlwaysSafe(P) : P \in comps}) \cap M = {}
      BY <2>5
    <2>8. QED
      BY <1>1, <2>1, <2>5, <2>6, <2>7
  <1>6. safe' \subseteq Fringe /\ (tier = "probabilistic" => known' \subseteq Fringe)
    <2>1. ASSUME NEW P \in comps PROVE AlwaysMine(P) \subseteq Fringe /\ AlwaysSafe(P) \subseteq Fringe
      <3>1. CellsOf(P) \subseteq CellsOf(DOMAIN groups)
        BY <1>3 DEF CellsOf
      <3>2. QED
        BY <1>4, <3>1 DEF AlwaysMine, AlwaysSafe
    <2>2. /\ UNION {AlwaysMine(P) : P \in comps} \subseteq Fringe
          /\ UNION {AlwaysSafe(P) : P \in comps} \subseteq Fringe
      BY <2>1
    <2>3. tier = "probabilistic" => known \subseteq Fringe /\ BlankMines = {}
      BY DEF KnownForced, BlankMines
    <2>4. QED
      BY <1>1, <2>2, <2>3
  <1>7. \A x \in Fringe \ known : \E P \in comps : x \in CellsOf(P)
    BY <1>3, <1>4 DEF CellsOf
  <1>8. ForcedMines(Consistent) \subseteq known'
    <2>1. SUFFICES ASSUME NEW x \in ForcedMines(Consistent), x \notin known' PROVE FALSE
      OBVIOUS
    <2>2. x \in Fringe \ known /\ \A M \in Consistent : x \in M
      BY <1>1, <2>1 DEF ForcedMines
    <2>3. PICK P \in comps : x \in CellsOf(P)
      BY <1>7, <2>2
    <2>4. x \notin AlwaysMine(P)
      BY <1>1, <2>1
    <2>5. PICK S \in Solutions(P) : x \notin S
      BY <2>3, <2>4 DEF AlwaysMine
    <2>6. S \in Placements(P)
      BY <1>2
    <2>7. (S \cup (mines \ CellsOf(P))) \cap Fringe \in Consistent
      BY <1>1, <2>6, Combined
    <2>8. QED
      BY <2>2, <2>3, <2>5, <2>7
  <1>9. ForcedSafe(Consistent) \subseteq safe'
    <2>1. SUFFICES ASSUME NEW x \in ForcedSafe(Consistent), x \notin safe' PROVE FALSE
      OBVIOUS
    <2>2. x \in Fringe /\ \A M \in Consistent : x \notin M
      BY <2>1 DEF ForcedSafe
    <2>3. mines \in Beyond(revealed)
      <3>1. \A c \in revealed : Agrees(mines, c)
        BY DEF Belief, Agrees, Adjacent
      <3>2. QED
        BY <3>1 DEF Belief, Beyond
    <2>4. mines \cap Fringe \in Consistent
      BY <1>1, <2>3, ConsistentAre DEF Beyond
    <2>5. x \notin known
      BY <2>2, <2>4 DEF Belief
    <2>6. PICK P \in comps : x \in CellsOf(P)
      BY <1>7, <2>2, <2>5
    <2>7. x \notin AlwaysSafe(P)
      BY <1>1, <2>1
    <2>8. PICK S \in Solutions(P) : x \in S
      BY <2>6, <2>7 DEF AlwaysSafe
    <2>9. S \in Placements(P)
      BY <1>2
    <2>10. (S \cup (mines \ CellsOf(P))) \cap Fringe \in Consistent
      BY <1>1, <2>9, Combined
    <2>11. QED
      BY <2>2, <2>8, <2>10
  <1>10. Fringe' = Fringe /\ Consistent' = Consistent
    BY <1>1 DEF Fringe, Consistent, Adjacent
  <1>11. Counted(revealed)' = Counted(revealed)
    BY <1>1 DEF Counted, Beyond, Agrees, Adjacent
  <1>12. KnownForced'
    BY <1>1, <1>5, <1>6, <1>10, <1>11 DEF KnownForced
  <1>13. Concluded'
    BY <1>5, <1>6, <1>8, <1>9, <1>10, <1>11 DEF Concluded, ForcedMines, ForcedSafe
  <1>14. QED
    BY <1>12, <1>13

\* Known mines stay known when more is revealed.
LEMMA KnownNext ==
    ASSUME KnownForced, Belief', UNCHANGED <<mines, known, tier>>, revealed \subseteq revealed'
    PROVE  KnownForced'
  <1>1. \A M, c : Agrees(M, c)' <=> Agrees(M, c)
    BY DEF Agrees, Adjacent
  <1>2. ASSUME NEW M \in Counted(revealed)' PROVE known' \subseteq M
    <2>1. /\ M \in SUBSET (Cell \ revealed') /\ \A c \in revealed' : Agrees(M, c)
          /\ tier = "perfect" => Cardinality(M) = MineCount
      BY <1>1 DEF Counted, Beyond
    <2>2. M \in Counted(revealed)
      BY <2>1 DEF Counted, Beyond
    <2>3. QED
      BY <2>2 DEF KnownForced
  <1>3. tier = "probabilistic" => known' \subseteq Fringe'
    BY DEF KnownForced, Fringe, Belief
  <1>4. QED
    BY <1>2, <1>3 DEF KnownForced

Exact == SameSaid /\ KnownForced /\ Concluded

LEMMA ComponentExact ==
    ASSUME Belief, Belief', Kept, Exact, ComponentNext, UNCHANGED <<mines, driverVars>>
    PROVE  Exact'
  <1>1. CASE Solve
    BY <1>1, SolveSaid, SolveConcludes DEF Exact
  <1>2. CASE Record \/ Reassess \/ AddConstraint \/ AddGroup \/ Divide
    <2>1. known' = known /\ tier' = tier /\ revealed \subseteq revealed' /\ phase' # "decide"
      BY <1>2 DEF Record, Reassess, AddConstraint, AddGroup, Divide, Kept, Placing
    <2>2. KnownForced' /\ Concluded'
      BY <2>1, KnownNext DEF Exact, Concluded
    <2>3. SameSaid'
      <3>1. CASE Record
        BY <3>1, RecordSaid DEF Exact
      <3>2. CASE Reassess
        <4>1. PICK C \in todo : \E s, t \in C : Nested(s, t) /\ groups' = Split(s, t)
          BY <3>2 DEF Reassess
        <4>2. PICK s \in C, t \in C : Nested(s, t) /\ groups' = Split(s, t)
          BY <4>1
        <4>3. C \subseteq DOMAIN groups
          BY DEF Kept, Apart, Placing
        <4>4. UNCHANGED <<mines, revealed, known, fresh>>
          BY <3>2 DEF Reassess
        <4>5. QED
          BY <4>2, <4>3, <4>4, SplitSaid DEF Exact
      <3>3. CASE AddConstraint
        BY <3>3, AddConstraintSaid DEF Exact
      <3>4. CASE AddGroup
        <4>1. UNCHANGED <<mines, revealed, known, fresh>>
          BY <3>4 DEF AddGroup
        <4>2. Head(adding) \in DOMAIN groups /\ target \subseteq DOMAIN groups
          <5>1. adding \in Seq(DOMAIN groups) /\ adding # <<>>
            BY <3>4 DEF AddGroup, Kept, Placing
          <5>2. QED
            BY <5>1, RangeTail DEF Kept, Apart, Loose
        <4>3. ASSUME NEW e \in target, SplitWith(Head(adding), e) PROVE SameSaid'
          <5>1. PICK s \in {Head(adding), e}, t \in {Head(adding), e} :
                    Nested(s, t) /\ groups' = Split(s, t)
            BY <4>3 DEF SplitWith
          <5>2. s \in DOMAIN groups /\ t \in DOMAIN groups
            BY <4>2, <4>3
          <5>3. QED
            BY <4>1, <5>1, <5>2, SplitSaid DEF Exact
        <4>4. CASE PutInPlace(Head(adding))
          BY <4>1, <4>4, SameGroupsSaid DEF PutInPlace, Exact
        <4>5. QED
          BY <3>4, <4>3, <4>4 DEF AddGroup
      <3>5. CASE Divide
        BY <3>5, SameGroupsSaid DEF Divide, Exact
      <3>6. QED
        BY <1>2, <3>1, <3>2, <3>3, <3>4, <3>5
    <2>4. QED
      BY <2>2, <2>3 DEF Exact
  <1>3. QED
    BY <1>1, <1>2 DEF ComponentNext

\* A new solver knows nothing, and nothing follows.
LEMMA NothingSaid ==
    ASSUME DOMAIN groups = {}, revealed = {}, known = {}, phase # "decide"
    PROVE  Exact
  BY DEF Exact, SameSaid, KnownForced, Concluded

LEMMA DriverExact ==
    ASSUME Belief', Kept, Exact,
           \/ Spread \/ EndReveal \/ UncoverAll \/ Verdict \/ ClickQueued \/ Guess
    PROVE  Exact'
  <1>1. CASE Verdict
    <2>1. DOMAIN groups' = {} /\ revealed' = {} /\ known' = {} /\ phase' # "decide"
      BY <1>1 DEF Verdict
    <2>2. QED
      BY <2>1 DEF Exact, SameSaid, KnownForced, Concluded
  <1>2. CASE Spread \/ EndReveal \/ UncoverAll \/ ClickQueued \/ Guess
    <2>1. UNCHANGED <<mines, solverVars>> /\ phase' # "decide"
      BY <1>2 DEF Spread, EndReveal, UncoverAll, ClickQueued, Guess, Click
    <2>2. UNCHANGED <<mines, revealed, known, tier, fresh, groups>>
      BY <2>1 DEF solverVars, componentVars
    <2>3. SameSaid'
      BY <2>2, SameGroupsSaid DEF Exact
    <2>4. KnownForced' /\ Concluded'
      BY <2>1, <2>2, KnownNext DEF Exact, Concluded
    <2>5. QED
      BY <2>3, <2>4 DEF Exact
  <1>3. QED
    BY <1>1, <1>2

ExactInv == tier \in Tiers /\ ApartInv /\ TierInv /\ (tier # "subset" => Exact)

LEMMA ExactInit == Init => ExactInv
  BY ApartInit, InitInv, NothingSaid DEF Init, ExactInv

LEMMA ExactStep == ExactInv /\ [Next]_vars => ExactInv'
  <1> SUFFICES ASSUME ExactInv, [Next]_vars PROVE ExactInv'
    OBVIOUS
  <1>1. tier' = tier /\ ApartInv' /\ TierInv /\ TierInv'
    BY TierStays, ApartStep, NextInv DEF ExactInv
  <1>2. ASSUME tier # "subset" PROVE Exact'
    <2>1. Belief /\ Belief' /\ Kept /\ Exact
      BY <1>1, <1>2 DEF ExactInv, ApartInv, TierInv
    <2>2. CASE SubsetNext
      BY <1>2, <2>1, <2>2 DEF SubsetNext, SubsetRecord, SubsetSplit, SubsetConclude, Kept, Placing
    <2>3. CASE ComponentNext /\ UNCHANGED <<mines, driverVars>>
      BY <2>1, <2>3, ComponentExact
    <2>4. CASE Spread \/ EndReveal \/ UncoverAll \/ Verdict \/ ClickQueued \/ Guess
      BY <2>1, <2>4, DriverExact
    <2>5. CASE UNCHANGED vars
      <3>1. UNCHANGED <<mines, revealed, known, fresh, groups, safe, phase, tier>>
        BY <2>5 DEF vars, solverVars, componentVars
      <3>2. Fringe' = Fringe /\ Consistent' = Consistent /\ Counted(revealed)' = Counted(revealed)
        BY <3>1 DEF Fringe, Consistent, Adjacent, Counted, Beyond, Agrees
      <3>3. SameSaid' /\ KnownForced'
        BY <2>1, <3>1, SameGroupsSaid, KnownNext DEF Exact
      <3>4. Concluded'
        BY <2>1, <3>1, <3>2 DEF Exact, Concluded, ForcedMines, ForcedSafe
      <3>5. QED
        BY <3>3, <3>4 DEF Exact
    <2>6. QED
      BY <2>2, <2>3, <2>4, <2>5 DEF Next, Solving
  <1>3. QED
    BY <1>1, <1>2 DEF ExactInv

\* After every call of the probabilistic and the perfect tier, on every board, the
\* groups that were kept, split, merged and stripped since the first call allow
\* the same placements of mines as the numbers that are revealed.
THEOREM GroupsSayAll == Spec => []GroupsExact
  <1>1. Init => ExactInv
    BY ExactInit
  <1>2. ExactInv /\ [Next]_vars => ExactInv'
    BY ExactStep
  <1>3. ExactInv => GroupsExact
    <2>1. SUFFICES ASSUME ExactInv, Counting, AfterCall PROVE GroupsExact
      BY DEF GroupsExact
    <2>2. QED
      BY <2>1, SaidIsExact DEF Counting, ExactInv, ApartInv, TierInv, Exact
  <1>4. QED
    BY <1>1, <1>2, <1>3, PTL DEF Spec

\* A feasible placement leaves cells for the mines that it does not place.
LEMMA FeasibleExtends ==
    ASSUME revealed \subseteq Cell, NEW M \in Feasible
    PROVE  \E W \in Counted(revealed) : W \cap Fringe = M
  <1> DEFINE others == Cell \ (revealed \cup Fringe)
  <1>1. /\ M \in Consistent /\ Cardinality(M) <= MineCount
        /\ MineCount - Cardinality(M) <= Cardinality(others)
    BY DEF Feasible
  <1>2. M \subseteq Fringe /\ M \subseteq Cell \ revealed /\ Fringe \subseteq Cell
        /\ \A c \in revealed : Agrees(M, c)
    BY <1>1, ConsistentAre DEF Fringe
  <1>3. IsFiniteSet(others) /\ Cardinality(others) \in Nat
        /\ IsFiniteSet(M) /\ Cardinality(M) \in Nat /\ MineCount \in Nat
    BY <1>2, PartsFinite, GameAssumption
  <1>4. MineCount - Cardinality(M) \in 0..Cardinality(others)
    BY <1>1, <1>3
  <1>5. PICK T \in SUBSET others : Cardinality(T) = MineCount - Cardinality(M)
    BY <1>3, <1>4, PartOfSize
  <1> DEFINE W == M \cup T
  <1>6. W \in SUBSET (Cell \ revealed) /\ W \cap Fringe = M /\ M \cap T = {}
    BY <1>2
  <1>7. \A c \in revealed : Agrees(W, c)
    <2>1. ASSUME NEW c \in revealed PROVE Agrees(W, c)
      <3>1. Agrees(W \cap Fringe, c)
        BY <1>2, <1>6
      <3> HIDE DEF W
      <3>2. QED
        BY <1>6, <3>1, OnFringe
    <2>2. QED
      BY <2>1
  <1>8. Cardinality(W) = MineCount
    <2>1. IsFiniteSet(T) /\ Cardinality(M \cap T) = 0
      BY <1>3, <1>6, FS_Subset, FS_EmptySet
    <2>2. Cardinality(M \cup T) = Cardinality(M) + Cardinality(T) - Cardinality(M \cap T)
      BY <1>3, <2>1, FS_Union
    <2>3. QED
      BY <1>3, <1>5, <2>1, <2>2
  <1>9. W \in Counted(revealed)
    BY <1>6, <1>7, <1>8 DEF Counted, Beyond
  <1>10. QED
    BY <1>6, <1>9

\* Without counting, a placement beside the revealed cells is one of the board.
LEMMA ConcludedAll ==
    ASSUME Belief, Exact, tier = "probabilistic", phase = "decide"
    PROVE  known = ForcedMines(Consistent) /\ safe = ForcedSafe(Consistent)
  <1>1. \A M \in Consistent : M \in Counted(revealed)
    BY ConsistentAre DEF Counted, Beyond, Belief
  <1>2. known \subseteq Fringe /\ \A M \in Consistent : known \subseteq M /\ safe \cap M = {}
    BY <1>1 DEF Exact, KnownForced, Concluded
  <1>3. known \subseteq ForcedMines(Consistent) /\ safe \subseteq ForcedSafe(Consistent)
    BY <1>2 DEF ForcedMines, ForcedSafe, Exact, Concluded
  <1>4. QED
    BY <1>3 DEF Exact, Concluded

-----------------------------------------------------------------------------
(* What the subset tier concludes, whose groups are built anew.             *)

\* Covered cells beside the cells of R.
Rim(R) == {x \in Cell \ R : Neighbors[x] \cap R # {}}

\* The numbers on R imply that K are mines and S are safe, and both lie beside R.
Implied(R, K, S) ==
    /\ K \cup S \subseteq Rim(R)
    /\ \A M \in Beyond(R) : K \subseteq M /\ S \cap M = {}

\* Groups of the numbers on R: each fits all that agrees with the numbers and lies
\* within the open cells of one, and each open cell of a number is in a group within
\* the open cells of that number.
Spanned(R, K, S, grp) ==
    /\ \A o \in DOMAIN grp :
        /\ \E c \in R : grp[o].cells \subseteq Open(c, R, K, S)
        /\ \A M \in Beyond(R) : Fits(M, grp[o])
    /\ \A c \in R : \A x \in Open(c, R, K, S) :
        \E o \in DOMAIN grp : x \in grp[o].cells /\ grp[o].cells \subseteq Open(c, R, K, S)

Told ==
    /\ Implied(revealed, known, {})
    /\ phase \in {"split", "decide"} => Implied(revealed, known, safe)
    /\ phase = "split" => Spanned(revealed, known, safe, groups)
    /\ phase = "decide" =>
        PassMines(revealed, known, safe) = {} /\ PassSafe(revealed, known, safe) = {}

\* The board does not change.
LEMMA ToldNext ==
    ASSUME UNCHANGED mines, NEW R, R = revealed', NEW K, K = known', NEW S, S = safe',
           NEW grp, grp = groups'
    PROVE  /\ Implied(revealed, known, {})' <=> Implied(R, K, {})
           /\ Implied(revealed, known, safe)' <=> Implied(R, K, S)
           /\ Spanned(revealed, known, safe, groups)' <=> Spanned(R, K, S, grp)
           /\ PassMines(revealed, known, safe)' = PassMines(R, K, S)
           /\ PassSafe(revealed, known, safe)' = PassSafe(R, K, S)
  <1>1. \A M, c : Agrees(M, c)' <=> Agrees(M, c)
    BY DEF Agrees, Adjacent
  <1>2. Beyond(revealed)' = Beyond(R)
    BY <1>1 DEF Beyond
  <1>3. \A c : Adjacent(c)' = Adjacent(c)
    BY DEF Adjacent
  <1>4. (\A M \in Beyond(R) : known \subseteq M /\ safe \cap M = {})'
            <=> \A M \in Beyond(R) : K \subseteq M /\ S \cap M = {}
    <2>1. Beyond(R)' = Beyond(R)
      BY <1>1 DEF Beyond
    <2>2. QED
      BY <2>1
  <1>5. Implied(revealed, known, safe)' <=> Implied(R, K, S)
    BY <1>2, <1>4 DEF Implied
  <1>6. Implied(revealed, known, {})' <=> Implied(R, K, {})
    BY <1>2, <1>4 DEF Implied
  <1>7. \A c : Open(c, revealed, known, safe)' = Open(c, R, K, S)
    BY DEF Open
  <1>8. Spanned(revealed, known, safe, groups)' <=> Spanned(R, K, S, grp)
    BY <1>2, <1>7 DEF Spanned, Fits
  <1>9. \A c : /\ AllMines(c, revealed, known, safe)' <=> AllMines(c, R, K, S)
               /\ AllSafe(c, revealed, known, safe)' <=> AllSafe(c, R, K, S)
    BY <1>3, <1>7 DEF AllMines, AllSafe
  <1>10. QED
    BY <1>5, <1>6, <1>7, <1>8, <1>9 DEF PassMines, PassSafe

\* The group of a number fits all that agrees with it.
LEMMA ConstraintTold ==
    ASSUME mines \subseteq Cell, NEW R, R \subseteq Cell, NEW K, K \cap R = {}, NEW S,
           NEW c \in R, NEW M \in Beyond(R), K \subseteq M, S \cap M = {}
    PROVE  Fits(M, Constraint(c, R, K, S))
  <1> DEFINE near == Neighbors[c] \cap M
             flagged == Neighbors[c] \cap K
  <1>1. /\ c \in Cell /\ Neighbors[c] \subseteq Cell
        /\ M \subseteq Cell /\ M \cap R = {} /\ Agrees(M, c)
    BY NeighborsAreCells DEF Beyond
  <1>2. flagged \subseteq near /\ near \subseteq Cell
        /\ M \cap Open(c, R, K, S) = near \ flagged
    BY <1>1 DEF Open
  <1>3. Cardinality(near \ flagged) = Cardinality(near) - Cardinality(flagged)
    BY <1>2, RestCounted
  <1>4. QED
    BY <1>1, <1>2, <1>3 DEF Fits, Constraint, Agrees

\* Groups built anew.
LEMMA RebuiltSpans ==
    ASSUME mines \subseteq Cell, NEW R, R \subseteq Cell, NEW K, NEW S, Implied(R, K, S)
    PROVE  Spanned(R, K, S, Rebuilt(R, K, S))
  <1>1. DOMAIN Rebuilt(R, K, S) = {d \in R : Open(d, R, K, S) # {}}
    BY DEF Rebuilt
  <1>2. \A o \in DOMAIN Rebuilt(R, K, S) : Rebuilt(R, K, S)[o] = Constraint(o, R, K, S)
    BY DEF Rebuilt
  <1>3. \A o : Constraint(o, R, K, S).cells = Open(o, R, K, S)
    BY DEF Constraint
  <1>4. ASSUME NEW o \in R, NEW M \in Beyond(R) PROVE Fits(M, Constraint(o, R, K, S))
    BY ConstraintTold DEF Implied, Rim
  <1>5. QED
    BY <1>1, <1>2, <1>3, <1>4 DEF Spanned

\* Open cells lie beside what is revealed.
LEMMA OpenOnRim ==
    ASSUME NEW R, R \subseteq Cell, NEW c \in R, NEW K, NEW S
    PROVE  Open(c, R, K, S) \subseteq Rim(R)
  <1>1. ASSUME NEW x \in Open(c, R, K, S) PROVE x \in Rim(R)
    <2>1. x \in Neighbors[c] /\ x \notin R /\ c \in Cell
      BY DEF Open
    <2>2. x \in Cell /\ c \in Neighbors[x]
      BY <2>1, NeighborsSymmetric
    <2>3. QED
      BY <2>1, <2>2 DEF Rim
  <1>2. QED
    BY <1>1

\* A group that is all safe or all mines says so of every placement it fits.
LEMMA ConclusionsFit ==
    ASSUME AllRight(groups), NEW M, M \subseteq Cell,
           \A o \in DOMAIN groups : Fits(M, groups[o])
    PROVE  /\ CellsOf(SafeGroups(DOMAIN groups)) \cap M = {}
           /\ CellsOf(MineOnlyGroups(DOMAIN groups)) \subseteq M
  <1>1. ASSUME NEW o \in DOMAIN groups
        PROVE  /\ groups[o].cells \subseteq Cell /\ M \cap groups[o].cells \subseteq groups[o].cells
               /\ Cardinality(M \cap groups[o].cells) = groups[o].mines
    BY DEF AllRight, RightGroup, Fits
  <1>2. ASSUME NEW o \in DOMAIN groups, groups[o].mines = 0
        PROVE  groups[o].cells \cap M = {}
    <2>1. M \cap groups[o].cells \subseteq Cell /\ Cardinality(M \cap groups[o].cells) = 0
      BY <1>1, <1>2
    <2>2. M \cap groups[o].cells = {}
      BY <2>1, PartsFinite, FS_EmptySet
    <2>3. QED
      BY <2>2
  <1>3. ASSUME NEW o \in DOMAIN groups, groups[o].mines = Cardinality(groups[o].cells)
        PROVE  groups[o].cells \subseteq M
    <2>1. Cardinality(M \cap groups[o].cells) = Cardinality(groups[o].cells)
      BY <1>1, <1>3
    <2>2. M \cap groups[o].cells = groups[o].cells
      BY <1>1, <2>1, PartsFinite, FS_Subset
    <2>3. QED
      BY <2>2
  <1>4. QED
    BY <1>2, <1>3 DEF CellsOf, SafeGroups, MineOnlyGroups

LEMMA RecordTold ==
    ASSUME Belief, Belief', Told, SubsetRecord, UNCHANGED mines
    PROVE  Told'
  <1>1. PICK R, K, S, grp : R = revealed' /\ K = known' /\ S = safe' /\ grp = groups'
    OBVIOUS
  <1>2. /\ revealed \subseteq R /\ known = K /\ S = {} /\ phase' = "split"
        /\ grp = Rebuilt(R, K, S)
    BY <1>1 DEF SubsetRecord
  <1>3. mines \subseteq Cell /\ R \subseteq Cell /\ K \cap R = {}
    BY <1>1, <1>2 DEF Belief
  <1>4. Beyond(R) \subseteq Beyond(revealed) /\ Rim(revealed) \ R \subseteq Rim(R)
    BY <1>2 DEF Beyond, Rim
  <1>5. Implied(R, K, S) /\ Implied(R, K, {})
    BY <1>2, <1>3, <1>4 DEF Told, Implied
  <1>6. Spanned(R, K, S, grp)
    BY <1>2, <1>3, <1>5, RebuiltSpans
  <1>7. QED
    BY <1>1, <1>2, <1>5, <1>6, ToldNext DEF Told

LEMMA SplitTold ==
    ASSUME Belief, Told, SubsetSplit, UNCHANGED mines
    PROVE  Told'
  <1>1. PICK R, K, S, grp : R = revealed' /\ K = known' /\ S = safe' /\ grp = groups'
    OBVIOUS
  <1>2. PICK s, t \in DOMAIN groups : Nested(s, t) /\ groups' = Split(s, t)
    BY DEF SubsetSplit
  <1>3. /\ R = revealed /\ K = known /\ S = safe /\ phase = "split" /\ phase' = "split"
        /\ grp = Split(s, t)
    BY <1>1, <1>2 DEF SubsetSplit
  <1>4. /\ DOMAIN grp = DOMAIN groups /\ grp[t].cells = groups[t].cells \ groups[s].cells
        /\ \A o \in DOMAIN groups \ {t} : grp[o] = groups[o]
        /\ s # t /\ groups[s].cells \subseteq groups[t].cells
    BY <1>2, <1>3 DEF Split, Nested
  <1>5. Implied(R, K, S) /\ Implied(R, K, {}) /\ Spanned(R, K, S, groups)
    BY <1>3 DEF Told
  <1>6. ASSUME NEW M \in Beyond(R), NEW o \in DOMAIN grp PROVE Fits(M, grp[o])
    <2>1. M \subseteq Cell /\ \A p \in DOMAIN groups : Fits(M, groups[p])
      BY <1>5 DEF Spanned, Beyond
    <2>2. QED
      BY <1>2, <1>3, <1>6, <2>1, SplitFits DEF Belief
  <1>7. ASSUME NEW o \in DOMAIN grp PROVE \E c \in R : grp[o].cells \subseteq Open(c, R, K, S)
    BY <1>4, <1>5 DEF Spanned
  <1>8. ASSUME NEW c \in R, NEW x \in Open(c, R, K, S)
        PROVE  \E o \in DOMAIN grp : x \in grp[o].cells /\ grp[o].cells \subseteq Open(c, R, K, S)
    <2>1. PICK o \in DOMAIN groups :
              x \in groups[o].cells /\ groups[o].cells \subseteq Open(c, R, K, S)
      BY <1>5 DEF Spanned
    <2>2. CASE o = t /\ x \in groups[s].cells
      BY <1>4, <2>1, <2>2
    <2>3. CASE ~(o = t /\ x \in groups[s].cells)
      BY <1>4, <2>1, <2>3
    <2>4. QED
      BY <2>2, <2>3
  <1>9. Spanned(R, K, S, grp)
    BY <1>6, <1>7, <1>8 DEF Spanned
  <1>10. QED
    BY <1>1, <1>3, <1>5, <1>9, ToldNext DEF Told

\* A basic rule that applies would have been seen in a group.
LEMMA NothingLeft ==
    ASSUME Belief, Spanned(revealed, known, safe, groups),
           CellsOf(SafeGroups(DOMAIN groups)) \subseteq safe,
           CellsOf(MineOnlyGroups(DOMAIN groups)) \subseteq known
    PROVE  PassMines(revealed, known, safe) = {} /\ PassSafe(revealed, known, safe) = {}
  <1>1. Sound(revealed, known, safe) /\ mines \subseteq Cell
    BY DEF Belief, Sound
  <1>2. ASSUME NEW c \in revealed, NEW x \in Open(c, revealed, known, safe)
        PROVE  ~AllMines(c, revealed, known, safe) /\ ~AllSafe(c, revealed, known, safe)
    <2>1. PICK o \in DOMAIN groups :
              x \in groups[o].cells /\ groups[o].cells \subseteq Open(c, revealed, known, safe)
      BY <1>2 DEF Spanned
    <2>2. groups[o].mines = Cardinality(groups[o].cells \cap mines)
      BY DEF Belief, AllRight, RightGroup
    <2>3. x \notin known /\ x \notin safe
      BY <1>2 DEF Open
    <2>4. ASSUME AllMines(c, revealed, known, safe) PROVE FALSE
      <3>1. groups[o].cells \cap mines = groups[o].cells
        BY <1>1, <2>1, <2>4, Rule1Sound
      <3>2. o \in MineOnlyGroups(DOMAIN groups)
        BY <2>2, <3>1 DEF MineOnlyGroups
      <3>3. QED
        BY <2>1, <2>3, <3>2 DEF CellsOf
    <2>5. ASSUME AllSafe(c, revealed, known, safe) PROVE FALSE
      <3>1. groups[o].cells \cap mines = {}
        BY <1>1, <2>1, <2>5, Rule2Sound
      <3>2. o \in SafeGroups(DOMAIN groups)
        BY <2>2, <3>1, FS_EmptySet DEF SafeGroups
      <3>3. QED
        BY <2>1, <2>3, <3>2 DEF CellsOf
    <2>6. QED
      BY <2>4, <2>5
  <1>3. QED
    BY <1>2 DEF PassMines, PassSafe

LEMMA ConcludeTold ==
    ASSUME Belief, Told, SubsetConclude, UNCHANGED mines
    PROVE  Told'
  <1>1. PICK R, K, S, grp : R = revealed' /\ K = known' /\ S = safe' /\ grp = groups'
    OBVIOUS
  <1> DEFINE more == CellsOf(SafeGroups(DOMAIN groups))
             found == CellsOf(MineOnlyGroups(DOMAIN groups))
  <1>2. /\ R = revealed /\ K = known \cup found /\ S = safe \cup more /\ phase = "split"
        /\ IF S = safe /\ K = known THEN phase' = "decide"
           ELSE phase' = "split" /\ grp = Rebuilt(R, K, S)
    BY <1>1 DEF SubsetConclude
  <1>3. Spanned(R, known, safe, groups) /\ Implied(R, known, safe)
    BY <1>2 DEF Told
  <1>4. mines \subseteq Cell /\ R \subseteq Cell
    BY <1>2 DEF Belief
  <1>5. \A M \in Beyond(R) : more \cap M = {} /\ found \subseteq M
    BY <1>3, ConclusionsFit DEF Spanned, Beyond, Belief
  <1>6. \A o \in DOMAIN groups : groups[o].cells \subseteq Rim(R)
    <2>1. \A o \in DOMAIN groups : \E c \in R : groups[o].cells \subseteq Open(c, R, known, safe)
      BY <1>3 DEF Spanned
    <2>2. \A c \in R : Open(c, R, known, safe) \subseteq Rim(R)
      BY <1>4, OpenOnRim
    <2>3. QED
      BY <2>1, <2>2
  <1>7. more \cup found \subseteq Rim(R)
    BY <1>6 DEF CellsOf, SafeGroups, MineOnlyGroups
  <1> HIDE DEF more, found
  <1>8. Implied(R, K, S) /\ Implied(R, K, {})
    BY <1>2, <1>3, <1>5, <1>7 DEF Implied
  <1>9. CASE S = safe /\ K = known
    <2>1. PassMines(revealed, known, safe) = {} /\ PassSafe(revealed, known, safe) = {}
      BY <1>2, <1>3, <1>9, NothingLeft DEF more, found
    <2>2. PassMines(R, K, S) = {} /\ PassSafe(R, K, S) = {}
      BY <1>2, <1>9, <2>1
    <2>3. QED
      BY <1>1, <1>2, <1>8, <1>9, <2>2, ToldNext DEF Told
  <1>10. CASE ~(S = safe /\ K = known)
    <2>1. Spanned(R, K, S, grp)
      BY <1>2, <1>4, <1>8, <1>10, RebuiltSpans
    <2>2. QED
      BY <1>1, <1>2, <1>8, <1>10, <2>1, ToldNext DEF Told
  <1>11. QED
    BY <1>9, <1>10

\* A solver that has not begun has nothing told.
LEMMA NothingTold ==
    ASSUME revealed = {}, known = {}, phase \notin {"split", "decide"}
    PROVE  Told
  BY DEF Told, Implied

\* Steps that leave the solver alone.
LEMMA StillTold ==
    ASSUME Told, UNCHANGED <<mines, revealed, known, safe, groups>>,
           phase' \in {"split", "decide"} => phase' = phase
    PROVE  Told'
  <1>1. PICK R, K, S, grp : R = revealed' /\ K = known' /\ S = safe' /\ grp = groups'
    OBVIOUS
  <1>2. R = revealed /\ K = known /\ S = safe /\ grp = groups
    BY <1>1
  <1>3. QED
    BY <1>1, <1>2, ToldNext DEF Told

ToldInv == ExactInv /\ (tier = "subset" => Told)

LEMMA ToldInit == Init => ToldInv
  BY ExactInit, NothingTold DEF Init, ToldInv

LEMMA ToldStep == ToldInv /\ [Next]_vars => ToldInv'
  <1> SUFFICES ASSUME ToldInv, [Next]_vars PROVE ToldInv'
    OBVIOUS
  <1>1. tier' = tier /\ ExactInv /\ ExactInv'
    BY TierStays, ExactStep DEF ToldInv
  <1>2. Belief /\ Belief' /\ Placed
    BY <1>1 DEF ExactInv, TierInv
  <1>3. ASSUME tier = "subset" PROVE Told'
    <2>1. Told
      BY <1>3 DEF ToldInv
    <2>2. CASE SubsetNext /\ UNCHANGED <<mines, driverVars>>
      BY <1>2, <2>1, <2>2, RecordTold, SplitTold, ConcludeTold DEF SubsetNext
    <2>3. CASE ComponentNext
      BY <1>2, <1>3, <2>3 DEF ComponentNext, Record, Reassess, AddConstraint, AddGroup, Divide, Solve,
                              Placed, Counting
    <2>4. CASE Spread \/ EndReveal \/ UncoverAll \/ ClickQueued \/ Guess
      <3>1. UNCHANGED <<mines, solverVars>> /\ phase' \notin {"split", "decide"}
        BY <2>4 DEF Spread, EndReveal, UncoverAll, ClickQueued, Guess, Click
      <3>2. QED
        BY <2>1, <3>1, StillTold DEF solverVars
    <2>5. CASE Verdict
      <3>1. revealed' = {} /\ known' = {} /\ phase' = "reveal"
        BY <2>5 DEF Verdict
      <3>2. QED
        BY <3>1 DEF Told, Implied
    <2>6. CASE UNCHANGED vars
      BY <2>1, <2>6, StillTold DEF vars, solverVars
    <2>7. QED
      BY <2>2, <2>3, <2>4, <2>5, <2>6 DEF Next, Solving
  <1>4. QED
    BY <1>1, <1>3 DEF ToldInv

\* The passes of the basic rules do not name what is revealed.
LEMMA DeducedUnrevealed ==
    ASSUME NEW R, R \subseteq Cell
    PROVE  Deduced(R, {}).safe \cap R = {}
  <1> DEFINE A == {p \in Knowledge : p.safe \cap R = {}}
  <1>1. A \in SUBSET Knowledge /\ [mines |-> {}, safe |-> {}] \in A
    BY DEF Knowledge
  <1>2. ASSUME NEW p \in A PROVE Pass(R)[p] \in A
    <2>1. p \in Knowledge /\ p.safe \cap R = {}
      OBVIOUS
    <2>2. PICK q : q = Pass(R)[p]
      OBVIOUS
    <2>3. q \in Knowledge
      BY <2>1, <2>2, PassType
    <2>4. q.safe = p.safe \cup PassSafe(R, p.mines, p.safe)
      BY <2>1, <2>2 DEF Pass
    <2>5. PassSafe(R, p.mines, p.safe) \cap R = {}
      BY DEF PassSafe, Open
    <2>6. QED
      BY <2>1, <2>2, <2>3, <2>4, <2>5
  <1> HIDE DEF A
  <1>3. Deduced(R, {}) \in A
    BY <1>1, <1>2, DeducedWithin
  <1>4. QED
    BY <1>3 DEF A

\* The subset tier concludes what the basic rules conclude, and only what follows.
LEMMA SubsetConcludes ==
    ASSUME Belief, Told, phase = "decide"
    PROVE  LET basic == Deduced(revealed, {}) IN
           /\ basic.mines \subseteq known /\ known \subseteq ForcedMines(Consistent)
           /\ basic.safe \subseteq safe /\ safe \subseteq ForcedSafe(Consistent)
  <1>1. PICK R, K, S : R = revealed /\ K = known /\ S = safe
    OBVIOUS
  <1>2. Exhausted(R, K, S) /\ Implied(R, K, S) /\ mines \subseteq Cell /\ R \subseteq Cell
    BY <1>1 DEF Belief, Told, Exhausted, Sound
  <1>3. Deduced(R, {}) \in Below(R, K, S)
    <2>1. PICK L : L = {}
      OBVIOUS
    <2>2. Deduced(R, L) \in Below(R, K, S)
      BY <1>2, <2>1, DeducedBelow
    <2>3. QED
      BY <2>1, <2>2
  <1>4. Deduced(R, {}).safe \cap R = {}
    BY <1>2, DeducedUnrevealed
  <1>5. Deduced(R, {}).mines \subseteq K /\ Deduced(R, {}).safe \subseteq S
    BY <1>3, <1>4 DEF Below
  <1>6. \A M \in Consistent : M \in Beyond(R)
    BY <1>1, <1>2, ConsistentAre DEF Beyond
  <1>7. Rim(R) = Fringe
    BY <1>1 DEF Rim, Fringe
  <1>8. K \subseteq ForcedMines(Consistent)
    BY <1>2, <1>6, <1>7 DEF Implied, ForcedMines
  <1>9. S \subseteq ForcedSafe(Consistent)
    BY <1>2, <1>6, <1>7 DEF Implied, ForcedSafe
  <1>10. QED
    BY <1>1, <1>5, <1>8, <1>9

\* The subset tier concludes all that the basic rules do and nothing that is not
\* implied, the probabilistic tier all that the revealed numbers imply and nothing
\* else, the perfect tier all that they imply and nothing that they and the number
\* of mines left do not imply, on every board and for every order in which cells
\* were uncovered: the groups of the subset tier span the open cells of every
\* number, however they were split, and what the components of the others say one
\* by one is what the board says, as a placement for one of them can be combined
\* with the true mines elsewhere.
THEOREM AllThatIsImplied == Spec => []TierStrength
  <1>1. Init => ToldInv
    BY ToldInit
  <1>2. ToldInv /\ [Next]_vars => ToldInv'
    BY ToldStep
  <1>3. ToldInv => TierStrength
    <2>1. SUFFICES ASSUME ToldInv, phase = "decide" PROVE TierStrength
      BY DEF TierStrength, AfterCall
    <2>2. Belief /\ tier \in {"subset", "probabilistic", "perfect"}
      BY <2>1, TiersAssumption DEF ToldInv, ExactInv, TierInv
    <2>3. CASE tier = "subset"
      BY <2>1, <2>2, <2>3, SubsetConcludes DEF TierStrength, ToldInv
    <2>4. ASSUME tier # "subset" PROVE Exact
      BY <2>1, <2>4 DEF ToldInv, ExactInv
    <2>5. CASE tier = "probabilistic"
      BY <2>1, <2>2, <2>4, <2>5, ConcludedAll DEF TierStrength
    <2>6. CASE tier = "perfect"
      <3>1. ASSUME NEW M \in Feasible PROVE known \cap Fringe \subseteq M /\ safe \cap M = {}
        <4>1. PICK W \in Counted(revealed) : W \cap Fringe = M
          BY <2>2, FeasibleExtends DEF Belief
        <4>2. known \subseteq W /\ safe \cap W = {}
          BY <2>1, <2>4, <2>6 DEF Exact, KnownForced, Concluded
        <4>3. QED
          BY <4>1, <4>2
      <3>2. known \cap Fringe \subseteq ForcedMines(Feasible)
        BY <3>1 DEF ForcedMines
      <3>3. safe \subseteq ForcedSafe(Feasible)
        BY <2>1, <2>4, <2>6, <3>1 DEF ForcedSafe, Exact, Concluded
      <3>4. QED
        BY <2>1, <2>4, <2>6, <3>2, <3>3 DEF TierStrength, Exact, Concluded
    <2>7. QED
      BY <2>2, <2>3, <2>5, <2>6
  <1>4. QED
    BY <1>1, <1>2, <1>3, PTL DEF Spec

-----------------------------------------------------------------------------
(* The fate of a board with the probabilistic tier.                        *)

\* Cells that can be all that is uncovered: cascades stop at them, and no other
\* cell is safe whatever the true board.
Stuck(R) ==
    /\ R \subseteq Cell \ mines /\ Start \in R
    /\ \A z \in R : Adjacent(z) = 0 => Neighbors[z] \subseteq R
    /\ \A x \in Cell \ R : \E M \in Beyond(R) : x \in M

\* The cells that have been uncovered or are about to be.
Reached == revealed \cup pending \cup shown \cup safe \cup queue

\* Without a guess no stuck set is ever left, and the generator found out whether
\* there is one that is not the whole board.
Fate ==
    /\ mines \in Boards
    /\ Start \in shown \cup pending /\ (phase # "reveal" => Start \in shown)
    /\ \A c \in revealed : Adjacent(c) = 0 => Neighbors[c] \subseteq revealed
    /\ ~guessed => \A R \in SUBSET Cell : Stuck(R) => Reached \subseteq R
    /\ driver = "generator" => ~guessed
    /\ driver = "bot" =>
          (accepted <=> \A R \in SUBSET Cell : Stuck(R) => R = Cell \ mines)
    /\ driver = "bot" /\ accepted => ~guessed

\* A call that finds nothing safe is stuck.
LEMMA NothingSafe ==
    ASSUME Belief, Kept, Exact, Fate, tier = "probabilistic", phase = "decide", safe = {}
    PROVE  Stuck(shown)
  <1>1. shown = revealed /\ revealed \subseteq Cell \ mines /\ Start \in revealed
    BY DEF Kept, UncoveredOnce, Belief, Fate
  <1>2. ASSUME NEW x \in Cell \ revealed PROVE \E M \in Beyond(revealed) : x \in M
    <2>1. CASE x \in Fringe
      <3>1. PICK M \in Consistent : x \in M
        BY <2>1, ConcludedAll DEF ForcedSafe
      <3>2. M \in Beyond(revealed)
        BY <1>1, ConsistentAre DEF Beyond
      <3>3. QED
        BY <3>1, <3>2
    <2>2. CASE x \notin Fringe
      <3>1. ASSUME NEW c \in revealed PROVE Agrees(mines \cup {x}, c)
        <4>1. c \in Cell /\ c \notin mines
          BY <1>1
        <4>2. x \notin Neighbors[c]
          <5>1. c \notin Neighbors[x]
            BY <1>2, <2>2 DEF Fringe
          <5>2. QED
            BY <1>2, <4>1, <5>1, NeighborsSymmetric
        <4>3. Neighbors[c] \cap (mines \cup {x}) = Neighbors[c] \cap mines
          BY <4>2
        <4>4. QED
          BY <4>1, <4>3 DEF Agrees, Adjacent
      <3>2. mines \cup {x} \in Beyond(revealed)
        BY <1>1, <1>2, <3>1 DEF Beyond, Belief
      <3>3. QED
        BY <3>2
    <2>3. QED
      BY <2>1, <2>2
  <1>3. QED
    BY <1>1, <1>2 DEF Stuck, Fate

\* What is concluded from cells of a stuck set is in it.
LEMMA StuckHolds ==
    ASSUME Kept, NEW R, Stuck(R), revealed \subseteq R
    PROVE  ForcedSafe(Consistent) \subseteq R
  <1> SUFFICES ASSUME NEW x \in ForcedSafe(Consistent), x \notin R PROVE FALSE
    OBVIOUS
  <1>1. x \in Fringe /\ x \in Cell /\ \A M \in Consistent : x \notin M
    BY DEF ForcedSafe, Fringe
  <1>2. PICK M \in Beyond(R) : x \in M
    BY <1>1 DEF Stuck
  <1>3. M \in SUBSET (Cell \ revealed) /\ \A c \in revealed : Agrees(M, c)
    BY DEF Beyond
  <1>4. M \cap Fringe \in Consistent
    BY <1>3, ConsistentAre DEF Kept, Placing
  <1>5. QED
    BY <1>1, <1>2, <1>4

\* IsSolved counts cells; it holds when all safe cells are shown.
LEMMA SolvedShown ==
    ASSUME mines \in Boards, Belief
    PROVE  IsSolved <=> shown = Cell \ mines
  <1>1. mines \subseteq Cell /\ Cardinality(mines) = MineCount
    BY TiersAssumption DEF RandomBoards, kSubset
  <1>2. Cardinality(Cell \ mines) = Cardinality(Cell) - MineCount
    BY <1>1, RestCounted
  <1>3. shown \subseteq Cell \ mines /\ IsFiniteSet(Cell \ mines)
    BY PartsFinite DEF Belief
  <1>4. Cardinality(shown) = Cardinality(Cell \ mines) => shown = Cell \ mines
    BY <1>3, FS_Subset
  <1>5. QED
    BY <1>2, <1>4 DEF IsSolved

\* The board does not change, nor does what is stuck on it.
LEMMA StuckStays ==
    ASSUME UNCHANGED mines
    PROVE  \A R : Stuck(R)' <=> Stuck(R)
  <1>1. \A c : Adjacent(c)' = Adjacent(c)
    BY DEF Adjacent
  <1>2. \A R : Beyond(R)' = Beyond(R)
    BY <1>1 DEF Beyond, Agrees
  <1>3. QED
    BY <1>1, <1>2 DEF Stuck

\* What the generator's verdict means stays so while the bot plays.
LEMMA FateKept ==
    ASSUME Fate, UNCHANGED <<mines, driver, accepted, guessed>>,
           Start \in shown' \cup pending', phase' # "reveal" => Start \in shown',
           \A c \in revealed' : Adjacent(c) = 0 => Neighbors[c] \subseteq revealed',
           ~guessed => \A R \in SUBSET Cell : Stuck(R) => Reached' \subseteq R
    PROVE  Fate'
  <1>1. \A R : Stuck(R)' <=> Stuck(R)
    BY StuckStays
  <1>2. \A c : Adjacent(c)' = Adjacent(c)
    BY DEF Adjacent
  <1>3. ~guessed' => \A R \in SUBSET Cell : Stuck(R)' => Reached' \subseteq R
    BY <1>1
  <1>4. QED
    BY <1>1, <1>2, <1>3 DEF Fate

LEMMA FateComponent ==
    ASSUME Kept, Exact', Fate, tier = "probabilistic",
           ComponentNext, UNCHANGED <<mines, driverVars>>
    PROVE  Fate'
  <1>1. /\ phase # "reveal" /\ phase' # "reveal"
        /\ UNCHANGED <<mines, driver, accepted, guessed, shown, queue>>
    BY DEF ComponentNext, Record, Reassess, AddConstraint, AddGroup, Divide, Solve, driverVars,
       Kept, Placing
  <1>2. Start \in shown' \cup pending' /\ Start \in shown'
    BY <1>1 DEF Fate
  <1>3. /\ \A c \in revealed' : Adjacent(c) = 0 => Neighbors[c] \subseteq revealed'
        /\ ~guessed => \A R \in SUBSET Cell : Stuck(R) => Reached' \subseteq R
    <2>1. CASE Record
      <3>1. /\ phase = "feed" /\ revealed' = revealed \cup pending /\ pending' = {}
            /\ UNCHANGED <<safe, shown, queue>>
        BY <1>1, <2>1 DEF Record
      <3>2. \A c \in revealed' : Adjacent(c) = 0 => Neighbors[c] \subseteq revealed'
        BY <3>1 DEF Fate, Kept, ZerosDone
      <3>3. Reached' = Reached
        BY <3>1 DEF Reached
      <3>4. QED
        BY <3>2, <3>3 DEF Fate
    <2>2. CASE Reassess \/ AddConstraint \/ AddGroup \/ Divide
      <3>1. UNCHANGED <<revealed, pending, safe, shown, queue>>
        BY <1>1, <2>2 DEF Reassess, AddConstraint, AddGroup, Divide
      <3>2. QED
        BY <3>1 DEF Fate, Reached
    <2>3. CASE Solve
      <3>1. phase' = "decide" /\ UNCHANGED <<revealed, pending, shown, queue>>
        BY <1>1, <2>3 DEF Solve
      <3>2. Fringe' = Fringe /\ Consistent' = Consistent
        BY <1>1, <3>1 DEF Fringe, Consistent, Adjacent
      <3>3. safe' \subseteq ForcedSafe(Consistent)
        <4>1. tier' = "probabilistic" /\ revealed \subseteq Cell
          BY <2>3 DEF Solve, Kept, Placing
        <4>2. \A M \in Consistent : M \in Beyond(revealed)
          BY <4>1, ConsistentAre DEF Beyond
        <4>3. Counted(revealed)' = Beyond(revealed)
          BY <1>1, <3>1, <4>1 DEF Counted, Beyond, Agrees, Adjacent
        <4>4. safe' \subseteq Fringe' /\ \A M \in Counted(revealed)' : safe' \cap M = {}
          BY <3>1 DEF Exact, Concluded
        <4>5. QED
          BY <3>2, <4>2, <4>3, <4>4 DEF ForcedSafe
      <3>4. ASSUME ~guessed, NEW R \in SUBSET Cell, Stuck(R) PROVE Reached' \subseteq R
        <4>1. Reached \subseteq R
          BY <3>4 DEF Fate
        <4>2. safe' \subseteq R
          BY <3>3, <3>4, <4>1, StuckHolds DEF Reached
        <4>3. QED
          BY <3>1, <4>1, <4>2 DEF Reached
      <3>5. QED
        BY <3>1, <3>4 DEF Fate
    <2>4. QED
      BY <2>1, <2>2, <2>3 DEF ComponentNext
  <1>4. QED
    BY <1>1, <1>2, <1>3, FateKept

LEMMA FateVerdict ==
    ASSUME Belief, Kept, Exact, Fate, tier = "probabilistic", Verdict
    PROVE  Fate'
  <1>1. /\ driver = "generator" /\ phase = "decide" /\ safe = {} /\ accepted' = IsSolved
        /\ driver' = "bot" /\ pending' = {Start} /\ shown' = {} /\ phase' = "reveal"
        /\ revealed' = {} /\ safe' = {} /\ UNCHANGED <<mines, queue, guessed>>
    BY DEF Verdict
  <1>2. ~guessed
    BY <1>1 DEF Fate
  <1>3. Stuck(shown) /\ shown \in SUBSET Cell
    BY <1>1, NothingSafe DEF Belief
  <1>4. IsSolved <=> shown = Cell \ mines
    BY SolvedShown DEF Fate
  <1>5. ASSUME NEW R \in SUBSET Cell, Stuck(R)
        PROVE  shown \subseteq R /\ R \subseteq Cell \ mines /\ Reached' \subseteq R
    BY <1>1, <1>2, <1>5 DEF Fate, Reached, Stuck
  <1>6. accepted' <=> \A R \in SUBSET Cell : Stuck(R) => R = Cell \ mines
    <2>1. CASE shown = Cell \ mines
      BY <1>1, <1>4, <1>5, <2>1
    <2>2. CASE shown # Cell \ mines
      BY <1>1, <1>3, <1>4, <2>2
    <2>3. QED
      BY <2>1, <2>2
  <1>7. \A R : Stuck(R)' <=> Stuck(R)
    BY <1>1, StuckStays
  <1>8. \A R \in SUBSET Cell : Stuck(R)' => Reached' \subseteq R
    BY <1>5, <1>7
  <1>9. accepted' <=> \A R \in SUBSET Cell : Stuck(R)' => R = Cell \ mines'
    BY <1>1, <1>6, <1>7
  <1>10. QED
    BY <1>1, <1>2, <1>8, <1>9 DEF Fate

LEMMA FateGuess ==
    ASSUME Belief, Kept, Exact, Fate, tier = "probabilistic", Guess
    PROVE  Fate'
  <1>1. /\ driver = "bot" /\ phase = "decide" /\ shown # Cell \ mines /\ safe = {}
        /\ guessed' = TRUE /\ phase' = "reveal"
        /\ UNCHANGED <<mines, revealed, driver, shown, accepted>>
    BY DEF Guess, Deciding, AllUncovered, Click, solverVars
  <1>2. Stuck(shown) /\ shown \in SUBSET Cell
    BY <1>1, NothingSafe DEF Belief
  <1>3. ~accepted
    BY <1>1, <1>2 DEF Fate
  <1>4. \A R : Stuck(R)' <=> Stuck(R)
    BY <1>1, StuckStays
  <1>5. \A c : Adjacent(c)' = Adjacent(c)
    BY <1>1 DEF Adjacent
  <1>6. Start \in shown'
    BY <1>1 DEF Fate
  <1>7. accepted' <=> \A R \in SUBSET Cell : Stuck(R)' => R = Cell \ mines'
    BY <1>1, <1>4 DEF Fate
  <1>8. QED
    BY <1>1, <1>3, <1>5, <1>6, <1>7 DEF Fate

LEMMA FateDriver ==
    ASSUME Belief, Kept, Exact, Fate, tier = "probabilistic",
           \/ Spread \/ EndReveal \/ UncoverAll \/ Verdict \/ ClickQueued \/ Guess
    PROVE  Fate'
  <1>1. CASE Spread
    <2>1. /\ phase = "reveal" /\ phase' = "reveal"
          /\ pending' = pending \cup Beside(pending, Cell \ shown)
          /\ UNCHANGED <<mines, revealed, safe, driver, accepted, guessed, shown, queue>>
      BY <1>1 DEF Spread, driverVars, solverVars
    <2>2. ASSUME ~guessed, NEW R \in SUBSET Cell, Stuck(R) PROVE Reached' \subseteq R
      <3>1. Reached \subseteq R
        BY <2>2 DEF Fate
      <3>2. Beside(pending, Cell \ shown) \subseteq R
        BY <2>2, <3>1 DEF Beside, BesideZeros, Stuck, Reached
      <3>3. QED
        BY <2>1, <3>1, <3>2 DEF Reached
    <2>3. QED
      BY <2>1, <2>2, FateKept DEF Fate
  <1>2. CASE EndReveal
    <2>1. /\ phase = "reveal" /\ shown' = shown \cup pending /\ queue' = queue \ pending
          /\ UNCHANGED <<mines, revealed, safe, pending, driver, accepted, guessed>>
      BY <1>2 DEF EndReveal, solverVars
    <2>2. Reached' \subseteq Reached
      BY <2>1 DEF Reached
    <2>3. Start \in shown' \cup pending' /\ Start \in shown'
      BY <2>1 DEF Fate
    <2>4. ~guessed => \A R \in SUBSET Cell : Stuck(R) => Reached' \subseteq R
      BY <2>2 DEF Fate
    <2>5. \A c \in revealed' : Adjacent(c) = 0 => Neighbors[c] \subseteq revealed'
      BY <2>1 DEF Fate
    <2>6. QED
      BY <2>1, <2>3, <2>4, <2>5, FateKept
  <1>3. CASE UncoverAll \/ ClickQueued
    <2>1. /\ phase = "decide" /\ phase' = "reveal"
          /\ UNCHANGED <<mines, revealed, safe, driver, accepted, guessed, shown>>
          /\ queue' \subseteq queue \cup safe /\ pending' \subseteq queue \cup safe
      BY <1>3 DEF UncoverAll, ClickQueued, Deciding, Click, solverVars, driverVars
    <2>2. Reached' \subseteq Reached
      BY <2>1 DEF Reached
    <2>3. Start \in shown' \cup pending' /\ (phase' # "reveal" => Start \in shown')
      BY <2>1 DEF Fate
    <2>4. ~guessed => \A R \in SUBSET Cell : Stuck(R) => Reached' \subseteq R
      BY <2>2 DEF Fate
    <2>5. \A c \in revealed' : Adjacent(c) = 0 => Neighbors[c] \subseteq revealed'
      BY <2>1 DEF Fate
    <2>6. QED
      BY <2>1, <2>3, <2>4, <2>5, FateKept
  <1>4. CASE Verdict
    BY <1>4, FateVerdict
  <1>5. CASE Guess
    BY <1>5, FateGuess
  <1>6. QED
    BY <1>1, <1>2, <1>3, <1>4, <1>5

FateInv == ExactInv /\ (tier = "probabilistic" => Fate)

LEMMA FateInit == Init => FateInv
  <1> SUFFICES ASSUME Init PROVE Fate
    BY ExactInit DEF FateInv
  <1>1. Reached = {Start}
    BY DEF Init, Reached
  <1>2. \A R : Stuck(R) => Reached \subseteq R
    BY <1>1 DEF Stuck
  <1>3. QED
    BY <1>2 DEF Init, Fate

LEMMA FateStep == FateInv /\ [Next]_vars => FateInv'
  <1> SUFFICES ASSUME FateInv, [Next]_vars PROVE FateInv'
    OBVIOUS
  <1>1. ExactInv /\ ExactInv' /\ tier' = tier
    BY ExactStep, TierStays DEF FateInv
  <1>2. ASSUME tier = "probabilistic" PROVE Fate'
    <2>1. Belief /\ Belief' /\ Kept /\ Exact /\ Exact' /\ Fate
      BY <1>1, <1>2 DEF ExactInv, ApartInv, TierInv, FateInv
    <2>2. CASE SubsetNext
      BY <1>2, <2>1, <2>2 DEF SubsetNext, SubsetRecord, SubsetSplit, SubsetConclude, Kept, Placing
    <2>3. CASE ComponentNext /\ UNCHANGED <<mines, driverVars>>
      BY <1>2, <2>1, <2>3, FateComponent
    <2>4. CASE Spread \/ EndReveal \/ UncoverAll \/ Verdict \/ ClickQueued \/ Guess
      BY <1>2, <2>1, <2>4, FateDriver
    <2>5. CASE UNCHANGED vars
      <3>1. UNCHANGED <<mines, driver, accepted, guessed, revealed, pending, shown, safe, queue, phase>>
        BY <2>5 DEF vars, solverVars, driverVars
      <3>2. QED
        BY <2>1, <3>1, FateKept DEF Fate, Reached
    <2>6. QED
      BY <2>2, <2>3, <2>4, <2>5 DEF Next, Solving
  <1>3. QED
    BY <1>1, <1>2 DEF FateInv

\* With the probabilistic tier the generator's verdict is the bot's fate, on
\* every board: a bot without mistakes needs no guess on an accepted board and
\* cannot do without one on a rejected board, although the generator uncovers
\* all deduced cells at once and the bot one at a time, in any order.  Neither
\* leaves a stuck set of cells without a guess, and where the generator stopped
\* is one.
THEOREM VerdictIsFate == Spec => []GuessOnlyIfRejected
  <1>1. Init => FateInv
    BY FateInit
  <1>2. FateInv /\ [Next]_vars => FateInv'
    BY FateStep
  <1>3. FateInv => GuessOnlyIfRejected
    <2>1. SUFFICES ASSUME Belief, Fate, driver = "bot"
                   PROVE  /\ accepted => ~guessed
                          /\ AllUncovered => accepted \/ guessed
      BY DEF FateInv, ExactInv, TierInv, GuessOnlyIfRejected
    <2>2. ASSUME AllUncovered, ~guessed PROVE accepted
      <3>1. ASSUME NEW R \in SUBSET Cell, Stuck(R) PROVE R = Cell \ mines
        <4>1. Reached \subseteq R
          BY <2>1, <2>2, <3>1 DEF Fate
        <4>2. shown = Cell \ mines /\ shown \subseteq R /\ R \subseteq Cell \ mines
          BY <2>2, <3>1, <4>1 DEF Reached, AllUncovered, Stuck
        <4>3. QED
          BY <4>2
      <3>2. QED
        BY <2>1, <3>1 DEF Fate
    <2>3. QED
      BY <2>1, <2>2 DEF Fate
  <1>4. QED
    BY <1>1, <1>2, <1>3, PTL DEF Spec
=============================================================================

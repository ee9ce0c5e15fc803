----------------------------- MODULE BotProofs ------------------------------
(***************************************************************************)
(* A bot on a board of any size, with any number of mines and any order of *)
(* reveals, rules and choices: what it deduces is true, it claims to have  *)
(* won only when it has, the regions it guesses from are the documented    *)
(* ones, and without mistakes it needs no guess on an accepted board.      *)
(***************************************************************************)
EXTENDS BotGame, BoardProofs

-----------------------------------------------------------------------------
(* The partition that the solvers keep cell by cell.                       *)

LEMMA UnknownDocumented ==
    PartitionAgrees => Unknown = DocumentedUnknown
  BY DEF PartitionAgrees, Unknown, DocumentedFrontier, DocumentedNear

\* A reveal: the new frontier is the old one without c and with its unknown
\* neighbors; what is beside those and was deep comes near.
LEMMA RevealAgrees ==
    ASSUME PartitionAgrees, NEW c \in Cell, MarkRevealed(c)
    PROVE  PartitionAgrees'
  <1>1. c \in DocumentedUnknown
    BY UnknownDocumented DEF MarkRevealed
  <1>2. DocumentedUnknown' = DocumentedUnknown \ {c}
    BY DEF MarkRevealed, DocumentedUnknown
  <1>3. Promoted(c) = {d \in Neighbors[c] : d \in DocumentedUnknown \ DocumentedFrontier}
    BY UnknownDocumented DEF Promoted, PartitionAgrees
  <1>4. DocumentedFrontier' = {d \in DocumentedUnknown \ {c} :
                                  Neighbors[d] \cap (revealed \cup {c}) # {}}
    BY <1>2 DEF MarkRevealed, DocumentedFrontier
  <1>5. frontier' = DocumentedFrontier'
    <2>1. ASSUME NEW d \in DocumentedUnknown \ {c}
          PROVE  d \in DocumentedFrontier' <=> d \in DocumentedFrontier \/ d \in Promoted(c)
      <3>1. d \in Cell /\ (d \in Neighbors[c] <=> c \in Neighbors[d])
        BY NeighborsSymmetric DEF DocumentedUnknown
      <3>2. QED
        BY <1>3, <1>4, <3>1 DEF DocumentedFrontier
    <2>2. c \notin Promoted(c)
      BY NeighborsSymmetric DEF Promoted
    <2>3. DocumentedFrontier' \subseteq DocumentedUnknown \ {c}
      BY <1>4
    <2>4. (DocumentedFrontier \cup Promoted(c)) \subseteq DocumentedUnknown
      BY <1>3 DEF DocumentedFrontier
    <2>5. frontier' = (DocumentedFrontier \ {c}) \cup Promoted(c)
      BY DEF MarkRevealed, PartitionAgrees
    <2>6. QED
      BY <2>1, <2>2, <2>3, <2>4, <2>5
  <1>6. DocumentedNear' = {d \in (DocumentedUnknown \ {c}) \ frontier' :
                              Neighbors[d] \cap frontier' # {}}
    BY <1>2, <1>5 DEF DocumentedNear
  <1>7. /\ frontier' = (frontier \ {c}) \cup Promoted(c)
        /\ nearFrontier' = (nearFrontier \cup Approached(c)) \ (Promoted(c) \cup {c})
        /\ deep' = deep \ (Approached(c) \cup Promoted(c) \cup {c})
    BY DEF MarkRevealed
  <1>8. /\ frontier = DocumentedFrontier
        /\ nearFrontier = {d \in DocumentedUnknown \ frontier : Neighbors[d] \cap frontier # {}}
        /\ deep = DocumentedUnknown \ (frontier \cup nearFrontier)
    BY DEF PartitionAgrees, DocumentedNear
  <1>9. nearFrontier' = DocumentedNear'
    <2>1. ASSUME NEW d \in DocumentedUnknown \ {c}, d \notin frontier'
          PROVE  d \in nearFrontier' <=> Neighbors[d] \cap frontier' # {}
      <3>1. d \in Cell
        BY DEF DocumentedUnknown
      <3>2. d \notin frontier /\ d \notin Promoted(c)
        BY <2>1, <1>7
      <3>3. c \notin Neighbors[d]
        BY <1>3, <1>8, <3>1, <3>2, NeighborsSymmetric
      <3>4. d \in nearFrontier <=> Neighbors[d] \cap frontier # {}
        BY <1>8, <3>2
      <3>5. d \in deep <=> d \notin nearFrontier
        BY <1>8, <3>2
      <3>6. (\E e \in Promoted(c) : d \in Neighbors[e]) <=> Neighbors[d] \cap Promoted(c) # {}
        <4>1. \A e \in Promoted(c) : e \in Cell /\ (d \in Neighbors[e] <=> e \in Neighbors[d])
          BY <1>3, <3>1, NeighborsSymmetric DEF DocumentedUnknown
        <4>2. QED
          BY <4>1
      <3>7. d \in Approached(c) <=> d \in deep /\ Neighbors[d] \cap Promoted(c) # {}
        BY <3>6 DEF Approached
      <3>8. d \in nearFrontier' <=> d \in nearFrontier \/ d \in Approached(c)
        BY <1>7, <2>1, <3>2
      <3>9. QED
        BY <1>7, <3>2, <3>3, <3>4, <3>5, <3>7, <3>8
    <2>2. nearFrontier' \subseteq (DocumentedUnknown \ {c}) \ frontier'
      BY <1>7, <1>8 DEF Approached
    <2>3. QED
      BY <1>6, <2>1, <2>2
  <1>10. deep' = DocumentedUnknown' \ (DocumentedFrontier' \cup DocumentedNear')
    BY <1>2, <1>3, <1>5, <1>7, <1>8, <1>9
  <1>11. QED
    BY <1>5, <1>9, <1>10 DEF PartitionAgrees

\* A mine: it leaves its set, and the near cells that it alone anchored are
\* deep; frontier cells stay, since what anchors them is revealed.
LEMMA MineAgrees ==
    ASSUME PartitionAgrees, NEW c \in Cell, MarkMine(c)
    PROVE  PartitionAgrees'
  <1>1. c \in DocumentedUnknown
    BY UnknownDocumented DEF MarkMine
  <1>2. DocumentedUnknown' = DocumentedUnknown \ {c}
    BY DEF MarkMine, DocumentedUnknown
  <1>3. frontier' = DocumentedFrontier'
    BY <1>2 DEF MarkMine, DocumentedFrontier, PartitionAgrees
  <1>4. DocumentedNear' = {d \in (DocumentedUnknown \ {c}) \ frontier' :
                              Neighbors[d] \cap frontier' # {}}
    BY <1>2, <1>3 DEF DocumentedNear
  <1>5. /\ frontier = DocumentedFrontier
        /\ nearFrontier = {d \in DocumentedUnknown \ frontier : Neighbors[d] \cap frontier # {}}
        /\ deep = DocumentedUnknown \ (frontier \cup nearFrontier)
    BY DEF PartitionAgrees, DocumentedNear
  <1>6. /\ frontier' = frontier \ {c}
        /\ nearFrontier' = nearFrontier \ (Demoted(c) \cup {c})
        /\ deep' = (deep \ {c}) \cup Demoted(c)
    BY DEF MarkMine
  <1>7. nearFrontier' = DocumentedNear'
    <2>1. ASSUME NEW d \in nearFrontier, d # c
          PROVE  d \in Demoted(c) <=> Neighbors[d] \cap frontier' = {}
      <3>1. d \in Cell /\ (d \in Neighbors[c] <=> c \in Neighbors[d])
        BY <1>5, NeighborsSymmetric DEF DocumentedUnknown
      <3>2. Neighbors[d] \cap frontier # {}
        BY <1>5
      <3>3. QED
        BY <1>6, <3>1, <3>2 DEF Demoted
    <2>2. QED
      BY <1>4, <1>5, <1>6, <2>1
  <1>8. Demoted(c) \subseteq nearFrontier \ {c}
    BY NeighborsSymmetric DEF Demoted
  <1>9. deep' = DocumentedUnknown' \ (DocumentedFrontier' \cup DocumentedNear')
    BY <1>1, <1>2, <1>3, <1>5, <1>6, <1>7, <1>8
  <1>10. QED
    BY <1>3, <1>7, <1>9 DEF PartitionAgrees

LEMMA PartitionInitAgrees == PartitionInit => PartitionAgrees
  BY DEF PartitionInit, PartitionAgrees, DocumentedUnknown, DocumentedFrontier, DocumentedNear

\* For a board of any size and every order in which a solver records reveals
\* and mines, _frontier, _near_frontier and _deep are the sets that
\* FrontierSets documents (solver_types.py:31), although they are only ever
\* updated around the marked cell (solver_types.py:446-511).
THEOREM PartitionCorrect == PartitionSpec => []PartitionAgrees
  <1>1. PartitionInit => PartitionAgrees
    BY PartitionInitAgrees
  <1>2. PartitionAgrees /\ [PartitionNext]_frontierVars => PartitionAgrees'
    <2>1. ASSUME PartitionAgrees, PartitionNext
          PROVE  PartitionAgrees'
      BY <2>1, RevealAgrees, MineAgrees DEF PartitionNext
    <2>2. ASSUME PartitionAgrees, UNCHANGED frontierVars
          PROVE  PartitionAgrees'
      BY <2>2 DEF PartitionAgrees, DocumentedUnknown, DocumentedFrontier, DocumentedNear,
                  frontierVars
    <2>3. QED
      BY <2>1, <2>2
  <1>3. QED
    BY <1>1, <1>2, PTL DEF PartitionSpec

-----------------------------------------------------------------------------
(* The inductive invariant.                                                *)

Board == mines \subseteq Cell /\ Cardinality(mines) = MineCount

\* Nothing is believed of a cell that is not so; the mines a bot ran into,
\* which the solver is not told of, are mines.
Belief ==
    /\ known \subseteq mines /\ hit \subseteq mines
    /\ revealed \subseteq Cell \ mines /\ pending \subseteq Cell \ mines
    /\ safe \subseteq Cell \ mines /\ queue \subseteq Cell \ mines

\* A finished game is not played on.
Ending == (done => phase = "idle") /\ (complete => done)

BotInv == Board /\ Belief /\ Ending /\ PartitionAgrees /\ WonIsTrue

LEMMA InitInv == Init => BotInv
  <1> SUFFICES ASSUME Init PROVE BotInv
    OBVIOUS
  <1>1. mines \subseteq Cell \ (Neighbors[Start] \cup {Start}) /\ Cardinality(mines) = MineCount
    BY DEF Init, Generate, RandomBoards, kSubset
  <1>2. PartitionAgrees
    BY PartitionInitAgrees DEF Init
  <1>3. Belief
    BY <1>1, GameAssumption DEF Init, PartitionInit, Belief
  <1>4. QED
    BY <1>1, <1>2, <1>3 DEF Init, BotInv, Board, Ending, WonIsTrue

\* The cells that are not mines.
LEMMA SafeCounted ==
    ASSUME Board
    PROVE  IsFiniteSet(Cell \ mines) /\ Cardinality(Cell \ mines) = Cardinality(Cell) - MineCount
  <1>1. IsFiniteSet(Cell) /\ IsFiniteSet(mines) /\ IsFiniteSet(Cell \ mines)
    BY CellsFinite, FS_Subset DEF Board
  <1>2. Cell \cap mines = mines
    BY DEF Board
  <1>3. Cardinality(Cell \ mines) = Cardinality(Cell) - Cardinality(Cell \cap mines)
    BY <1>1, FS_Difference
  <1>4. QED
    BY <1>1, <1>2, <1>3 DEF Board

\* As many cells uncovered as there are without mines: all of them.
LEMMA AllShownMeans ==
    ASSUME Board, Belief, AllShown
    PROVE  Shown = Cell \ mines
  <1>1. IsFiniteSet(Cell \ mines)
    BY SafeCounted
  <1>2. Cardinality(Cell \ mines) = Cardinality(Cell) - MineCount
    BY SafeCounted
  <1>3. Shown \subseteq Cell \ mines
    BY DEF Belief, Shown
  <1>4. Cardinality(Shown) <= Cardinality(Cell \ mines)
    BY <1>1, <1>3, FS_Subset
  <1>5. Cardinality(Shown) \in Nat /\ Cardinality(Cell \ mines) \in Nat
    BY <1>1, <1>3, FS_Subset, FS_CardinalityType
  <1>6. Cardinality(Shown) = Cardinality(Cell \ mines)
    BY <1>2, <1>4, <1>5 DEF AllShown
  <1>7. QED
    BY <1>1, <1>3, <1>6, FS_Subset

\* A bot without a move has touched every cell, and mines are not uncovered.
LEMMA NoMoveMeans ==
    ASSUME Board, Belief, NextMoves = {}
    PROVE  Shown = Cell \ mines
  <1>1. Guesses(frontier) = {}
    BY DEF NextMoves
  <1>2. Pickable = {}
    BY <1>1 DEF Guesses
  <1>3. QED
    BY <1>2 DEF Pickable, Belief, Shown

-----------------------------------------------------------------------------
(* One lemma for each group of steps.                                      *)

LEMMA SolverInv ==
    ASSUME BotInv, NEW c \in Cell, Feed(c) \/ Rule1(c) \/ Rule2(c)
    PROVE  BotInv'
  <1>1. CASE Feed(c)
    <2>1. Belief'
      BY <1>1 DEF BotInv, Belief, Feed, MarkRevealed
    <2>2. PartitionAgrees'
      BY <1>1, RevealAgrees DEF BotInv, Feed
    <2>3. Shown' = Shown
      BY <1>1 DEF Feed, MarkRevealed, Shown
    <2>4. QED
      BY <1>1, <2>1, <2>2, <2>3 DEF BotInv, Board, Ending, WonIsTrue, Feed
  <1>2. CASE Rule1(c)
    <2>1. Sound(revealed, known, safe)
      BY DEF BotInv, Belief, Sound
    <2>2. PICK m \in Open(c, revealed, known, safe) : MarkMine(m)
      BY <1>2 DEF Rule1
    <2>3. m \in mines
      BY <1>2, <2>1, <2>2, Rule1Sound DEF BotInv, Board, Rule1
    <2>4. PartitionAgrees'
      BY <2>2, <2>3, MineAgrees DEF BotInv, Board
    <2>5. Belief'
      BY <1>2, <2>2, <2>3 DEF BotInv, Belief, Rule1, gameVars, MarkMine
    <2>6. QED
      BY <1>2, <2>2, <2>4, <2>5 DEF BotInv, Board, Ending, WonIsTrue, Shown, Rule1, gameVars,
                                    MarkMine
  <1>3. CASE Rule2(c)
    <2>1. Sound(revealed, known, safe)
      BY DEF BotInv, Belief, Sound
    <2>2. Open(c, revealed, known, safe) \cap mines = {}
      BY <1>3, <2>1, Rule2Sound DEF BotInv, Board, Rule2
    <2>3. Open(c, revealed, known, safe) \subseteq Cell
      BY NeighborsAreCells DEF Open
    <2>4. Belief'
      BY <1>3, <2>2, <2>3 DEF BotInv, Belief, Rule2, frontierVars
    <2>5. PartitionAgrees'
      BY <1>3 DEF BotInv, Rule2, frontierVars, PartitionAgrees, DocumentedUnknown,
                  DocumentedFrontier, DocumentedNear
    <2>6. QED
      BY <1>3, <2>4, <2>5 DEF BotInv, Board, Ending, WonIsTrue, Shown, Rule2, frontierVars
  <1>4. QED
    BY <1>1, <1>2, <1>3

\* The partition does not change outside the solver.
LEMMA PartitionKept ==
    ASSUME PartitionAgrees, UNCHANGED frontierVars
    PROVE  PartitionAgrees'
  BY DEF frontierVars, PartitionAgrees, DocumentedUnknown, DocumentedFrontier, DocumentedNear

LEMMA MoveInv ==
    ASSUME BotInv, NEW c \in Cell,
           BeginStep \/ Enqueue \/ ClickMine(c) \/ ClickSafe(c) \/ Cancel
    PROVE  BotInv'
  <1>1. UNCHANGED frontierVars
    BY DEF BeginStep, Enqueue, ClickMine, ClickSafe, Cancel
  <1>2. PartitionAgrees'
    BY <1>1, PartitionKept DEF BotInv
  <1>3. CASE BeginStep
    BY <1>2, <1>3 DEF BotInv, Board, Belief, Ending, WonIsTrue, Shown, BeginStep, frontierVars
  <1>4. CASE Enqueue
    <2>1. queue' \subseteq queue \cup safe
      BY <1>4 DEF Enqueue, Kept
    <2>2. QED
      BY <1>2, <1>4, <2>1 DEF BotInv, Board, Belief, Ending, WonIsTrue, Shown, Enqueue, Solving,
                              frontierVars
  <1>5. CASE ClickMine(c)
    BY <1>2, <1>5 DEF BotInv, Board, Belief, Ending, WonIsTrue, Shown, ClickMine, frontierVars
  <1>6. CASE ClickSafe(c)
    BY <1>2, <1>6 DEF BotInv, Board, Belief, Ending, WonIsTrue, Shown, ClickSafe, frontierVars
  <1>7. CASE Cancel
    BY <1>2, <1>7 DEF BotInv, Board, Belief, Ending, WonIsTrue, Shown, Cancel, frontierVars
  <1>8. QED
    BY <1>3, <1>4, <1>5, <1>6, <1>7

LEMMA RevealInv ==
    ASSUME BotInv, Spread \/ EndReveal \/ Finish
    PROVE  BotInv'
  <1>1. UNCHANGED frontierVars
    BY DEF Spread, EndReveal, Finish
  <1>2. PartitionAgrees'
    BY <1>1, PartitionKept DEF BotInv
  <1>3. CASE Spread
    <2>1. Cell \ (Shown \cup hit) \subseteq Cell
      OBVIOUS
    <2>2. Beside(pending, Cell \ (Shown \cup hit)) \subseteq Cell \ mines
      BY <2>1, CascadeSafe DEF BotInv, Board, Belief
    <2>3. Belief'
      BY <1>3, <2>2 DEF BotInv, Belief, Spread, frontierVars
    <2>4. ~done /\ ~complete
      BY <1>3 DEF BotInv, Ending, Spread
    <2>5. QED
      BY <1>2, <1>3, <2>3, <2>4 DEF BotInv, Board, Ending, WonIsTrue, Spread
  <1>4. CASE EndReveal
    <2>1. Belief' /\ Shown' = Shown
      BY <1>4 DEF BotInv, Belief, Shown, EndReveal, frontierVars
    <2>2. WonIsTrue'
      <3>1. complete' => AllShown
        BY <1>4 DEF EndReveal
      <3>2. mines' = mines
        BY <1>4 DEF EndReveal
      <3>3. AllShown => Shown = Cell \ mines
        BY AllShownMeans DEF BotInv
      <3>4. QED
        BY <2>1, <3>1, <3>2, <3>3 DEF WonIsTrue
    <2>3. QED
      BY <1>2, <1>4, <2>1, <2>2 DEF BotInv, Board, Ending, EndReveal
  <1>5. CASE Finish
    <2>1. Belief' /\ Shown' = Shown
      BY <1>5 DEF BotInv, Belief, Shown, Finish, frontierVars
    <2>2. Shown = Cell \ mines
      BY <1>5, AllShownMeans, NoMoveMeans DEF BotInv, Finish
    <2>3. QED
      BY <1>2, <1>5, <2>1, <2>2 DEF BotInv, Board, Ending, WonIsTrue, Finish
  <1>6. QED
    BY <1>3, <1>4, <1>5

LEMMA NextInv == BotInv /\ [Next]_vars => BotInv'
  <1>1. ASSUME BotInv, Next
        PROVE  BotInv'
    BY <1>1, SolverInv, MoveInv, RevealInv, GameAssumption DEF Next, Step
  <1>2. ASSUME BotInv, UNCHANGED vars
        PROVE  BotInv'
    <2>1. PartitionAgrees'
      BY <1>2, PartitionKept DEF BotInv, vars
    <2>2. QED
      BY <1>2, <2>1 DEF BotInv, Board, Belief, Ending, WonIsTrue, Shown, vars, gameVars,
                        frontierVars
  <1>3. QED
    BY <1>1, <1>2

LEMMA BotInvHolds == Spec => []BotInv
  BY InitInv, NextInv, PTL DEF Spec

\* What a bot believes is true, on every board and for every profile: the two
\* rules of basic_solver.py, fed with reveals only (brain.py:146), never call
\* a mine safe or a safe cell a mine, and a cascade uncovers no mine.
THEOREM DeductionsTrue == Spec => []DeductionsSound
  <1>1. BotInv => DeductionsSound
    BY DEF BotInv, Belief, DeductionsSound, Shown
  <1>2. QED
    BY <1>1, BotInvHolds, PTL

\* game_complete means that every safe cell is uncovered, also when the bot
\* had no move left (runner.py:107).
THEOREM WinsAreTrue == Spec => []WonIsTrue
  <1>1. BotInv => WonIsTrue
    BY DEF BotInv
  <1>2. QED
    BY <1>1, BotInvHolds, PTL

\* A bot guesses from the documented regions at every moment of a game.
THEOREM RegionsCorrect == Spec => []PartitionAgrees
  <1>1. BotInv => PartitionAgrees
    BY DEF BotInv
  <1>2. QED
    BY <1>1, BotInvHolds, PTL

-----------------------------------------------------------------------------
(* A bot without mistakes on an accepted board.                            *)

\* Uncovered cells from which nothing more is uncovered or deduced.
Settled(R, K) == Exhausted(R, K, {}) /\ Cascaded(R) /\ Start \in R

\* Such a board has no settled cells but all that are safe, and the bot is on its
\* way to them: between steps it has something to feed, and when it chooses, all
\* that was fed is spread and its conclusions are drawn and queued.
Guided ==
    careful /\ solvable =>
        /\ hit = {}
        /\ \A R \in SUBSET Cell, K \in SUBSET Cell : Settled(R, K) => Cell \ mines \subseteq R
        /\ Start \in Shown
        /\ IF phase = "reveal" THEN Cascaded(revealed) ELSE Cascaded(Shown)
        /\ phase \in {"idle", "reveal"} /\ ~done => pending # {}
        /\ phase = "choose" =>
            /\ pending = {} /\ safe \subseteq queue
            /\ PassMines(revealed, known, safe) = {} /\ PassSafe(revealed, known, safe) = {}

\* The board does not change, nor does what is settled on it.
LEMMA SettledStays ==
    ASSUME UNCHANGED mines
    PROVE  /\ \A R, K : Settled(R, K)' <=> Settled(R, K)
           /\ \A R : Cascaded(R)' <=> Cascaded(R)
           /\ \A R, K, S : PassMines(R, K, S)' = PassMines(R, K, S)
           /\ \A R, K, S : PassSafe(R, K, S)' = PassSafe(R, K, S)
  <1>1. \A c : Adjacent(c)' = Adjacent(c)
    BY DEF Adjacent
  <1>2. \A R : Cascaded(R)' <=> Cascaded(R)
    BY <1>1 DEF Cascaded
  <1>3. \A R, K, S : PassMines(R, K, S)' = PassMines(R, K, S)
    BY <1>1 DEF PassMines, AllMines, Open
  <1>4. \A R, K, S : PassSafe(R, K, S)' = PassSafe(R, K, S)
    BY <1>1 DEF PassSafe, AllSafe, Open
  <1>5. \A R, K, S : Sound(R, K, S)' <=> Sound(R, K, S)
    BY DEF Sound
  <1>6. QED
    BY <1>2, <1>3, <1>4, <1>5 DEF Settled, Exhausted

LEMMA GuidedInit == Init => Guided
  <1> SUFFICES ASSUME Init, careful, solvable
               PROVE  Guided
    BY DEF Guided
  <1>1. mines \subseteq Cell
    BY InitInv DEF BotInv, Board
  <1>2. Uncovered = Cell \ mines
    BY DEF Init, Generate, IsSolvable
  <1>3. ASSUME NEW R \in SUBSET Cell, NEW K \in SUBSET Cell, Settled(R, K)
        PROVE  Cell \ mines \subseteq R
    BY <1>1, <1>2, <1>3, UncoveredBelow DEF Settled
  <1>4. Cascaded(revealed)
    BY DEF Init, PartitionInit, Cascaded
  <1>5. QED
    BY <1>3, <1>4 DEF Init, PartitionInit, Guided, Shown

\* With nothing in its queue it has uncovered everything.
LEMMA QueueLasts ==
    ASSUME BotInv, Guided, careful, solvable, phase = "choose", queue = {}
    PROVE  AllShown
  <1>1. pending = {} /\ safe = {} /\ Shown = revealed
    BY DEF Guided, Shown
  <1>2. Sound(revealed, known, {})
    BY DEF BotInv, Belief, Sound
  <1>3. Settled(revealed, known)
    BY <1>1, <1>2 DEF Settled, Exhausted, Guided
  <1>4. revealed \in SUBSET Cell /\ known \in SUBSET Cell
    BY DEF BotInv, Belief, Board
  <1>5. Shown = Cell \ mines
    <2>1. Cell \ mines \subseteq revealed
      BY <1>3, <1>4 DEF Guided
    <2>2. QED
      BY <1>1, <2>1 DEF BotInv, Belief
  <1>6. Cardinality(Cell \ mines) = Cardinality(Cell) - MineCount
    BY SafeCounted DEF BotInv
  <1>7. Cardinality(Cell) - MineCount \in Int
    BY CellsFinite, FS_CardinalityType, GameAssumption
  <1>8. QED
    BY <1>5, <1>6, <1>7 DEF AllShown

LEMMA GuidedStep == BotInv /\ Guided /\ [Next]_vars => Guided'
  <1> SUFFICES ASSUME BotInv, Guided, [Next]_vars, careful', solvable'
               PROVE  Guided'
    BY DEF Guided
  <1>1. UNCHANGED <<mines, solvable, careful>>
    BY DEF Next, Step, BeginStep, Enqueue, Finish, Spread, EndReveal, Feed, Rule1, Rule2, ClickMine,
           ClickSafe, Cancel, vars, gameVars
  <1>2. /\ \A R, K : Settled(R, K)' <=> Settled(R, K)
        /\ \A R : Cascaded(R)' <=> Cascaded(R)
        /\ \A R, K, S : PassMines(R, K, S)' = PassMines(R, K, S)
        /\ \A R, K, S : PassSafe(R, K, S)' = PassSafe(R, K, S)
    BY <1>1, SettledStays
  <1>3. \A R \in SUBSET Cell, K \in SUBSET Cell : Settled(R, K)' => Cell \ mines' \subseteq R
    BY <1>1, <1>2 DEF Guided
  <1>4. /\ (\A z \in Shown' : Adjacent(z) = 0 => Neighbors[z] \subseteq Shown') => Cascaded(Shown)'
        /\ (\A z \in revealed' : Adjacent(z) = 0 => Neighbors[z] \subseteq revealed') => Cascaded(revealed)'
    <2>1. \A c : Adjacent(c)' = Adjacent(c)
      BY <1>1 DEF Adjacent
    <2>2. QED
      BY <2>1 DEF Cascaded
  <1>6. CASE BeginStep
    <2>1. Shown' = Shown /\ phase' = "solve" /\ phase # "reveal" /\ hit' = hit
      BY <1>1, <1>6 DEF Guided, BeginStep, Shown, frontierVars
    <2>2. Cascaded(Shown)'
      BY <1>1, <1>4, <2>1 DEF Guided, Cascaded
    <2>3. QED
      BY <1>1, <1>3, <2>1, <2>2 DEF Guided
  <1>7. ASSUME NEW c \in Cell, Feed(c)
        PROVE  Guided'
    <2>1. Shown' = Shown /\ phase' = "solve" /\ phase = "solve" /\ hit' = hit
      BY <1>7 DEF Feed, MarkRevealed, Shown
    <2>2. Cascaded(Shown)'
      BY <1>1, <1>4, <2>1 DEF Guided, Cascaded
    <2>3. QED
      BY <1>1, <1>3, <2>1, <2>2 DEF Guided
  <1>8. ASSUME NEW c \in Cell, Rule1(c) \/ Rule2(c)
        PROVE  Guided'
    <2>1. Shown' = Shown /\ phase' = "solve" /\ phase = "solve" /\ hit' = hit
      BY <1>8 DEF Rule1, Rule2, MarkMine, Shown, Solving, gameVars, frontierVars
    <2>2. Cascaded(Shown)'
      BY <1>1, <1>4, <2>1 DEF Guided, Cascaded
    <2>3. QED
      BY <1>1, <1>3, <2>1, <2>2 DEF Guided
  <1>9. CASE Enqueue
    <2>1. /\ Shown' = Shown /\ phase' = "choose" /\ phase = "solve" /\ hit' = hit
          /\ pending' = {} /\ safe' \subseteq queue'
      BY <1>1, <1>9 DEF Enqueue, Solving, Kept, Shown, frontierVars
    <2>2. /\ PassMines(revealed, known, safe) = {} /\ PassSafe(revealed, known, safe) = {}
          /\ revealed' = revealed /\ known' = known /\ safe' = safe
      BY <1>9 DEF Enqueue, frontierVars
    <2>3. PassMines(revealed, known, safe)' = {} /\ PassSafe(revealed, known, safe)' = {}
      BY <1>2, <2>2
    <2>4. Cascaded(Shown)'
      BY <1>1, <1>4, <2>1 DEF Guided, Cascaded
    <2>5. QED
      BY <1>1, <1>3, <2>1, <2>3, <2>4 DEF Guided
  <1>10. CASE Finish \/ Cancel
    <2>1. Shown' = Shown /\ phase' = "idle" /\ phase # "reveal" /\ hit' = hit /\ done'
      BY <1>10 DEF Finish, Cancel, Shown, frontierVars
    <2>2. Cascaded(Shown)'
      BY <1>1, <1>4, <2>1 DEF Guided, Cascaded
    <2>3. QED
      BY <1>1, <1>3, <2>1, <2>2 DEF Guided
  <1>11. ASSUME NEW c \in Cell, ClickMine(c)
         PROVE  FALSE
    <2>1. queue # {}
      BY <1>1, <1>11, QueueLasts DEF ClickMine
    <2>2. c \in queue \cap mines
      BY <1>1, <1>11, <2>1 DEF ClickMine, NextMoves, Blunders
    <2>3. QED
      BY <2>2 DEF BotInv, Belief
  <1>12. ASSUME NEW c \in Cell, ClickSafe(c)
         PROVE  Guided'
    <2>1. /\ phase = "choose" /\ phase' = "reveal" /\ pending' = {c} /\ revealed' = revealed
          /\ hit' = hit
      BY <1>12 DEF ClickSafe, frontierVars
    <2>2. Shown = revealed /\ Start \in revealed
      BY <1>1, <2>1 DEF Guided, Shown
    <2>3. Cascaded(revealed)'
      BY <1>1, <1>4, <2>1, <2>2 DEF Guided, Cascaded
    <2>4. Start \in Shown'
      BY <2>1, <2>2 DEF Shown
    <2>5. QED
      BY <1>1, <1>3, <2>1, <2>3, <2>4 DEF Guided
  <1>13. CASE Spread
    <2>1. /\ phase = "reveal" /\ phase' = "reveal" /\ revealed' = revealed /\ hit' = hit
          /\ pending \subseteq pending' /\ done' = done
      BY <1>13 DEF Spread, frontierVars
    <2>2. Cascaded(revealed)'
      BY <1>1, <1>4, <2>1 DEF Guided, Cascaded
    <2>3. Start \in Shown'
      BY <1>1, <2>1 DEF Guided, Shown
    <2>4. QED
      BY <1>1, <1>3, <2>1, <2>2, <2>3 DEF Guided
  <1>14. CASE EndReveal
    <2>1. /\ phase = "reveal" /\ phase' = "idle" /\ Shown' = Shown /\ pending' = pending
          /\ hit' = hit /\ ~done
      BY <1>14 DEF EndReveal, Shown, frontierVars, BotInv, Ending
    <2>2. ASSUME NEW z \in Shown, Adjacent(z) = 0
          PROVE  Neighbors[z] \subseteq Shown
      <3>1. CASE z \in revealed
        BY <1>1, <2>1, <2>2, <3>1 DEF Guided, Cascaded, Shown
      <3>2. CASE z \in pending
        <4>1. Beside(pending, Cell \ Shown) = {}
          BY <1>1, <1>14 DEF EndReveal, Guided
        <4>2. z \in Cell
          BY <2>2 DEF BotInv, Belief, Board, Shown
        <4>3. Neighbors[z] \subseteq Cell
          BY <4>2, NeighborsAreCells
        <4>4. Neighbors[z] \cap (Cell \ Shown) \subseteq pending
          BY <2>2, <3>2, <4>1 DEF Beside, BesideZeros
        <4>5. QED
          BY <4>3, <4>4 DEF Shown
      <3>3. QED
        BY <2>2, <3>1, <3>2 DEF Shown
    <2>3. \A z : Adjacent(z)' = Adjacent(z)
      BY <1>1 DEF Adjacent
    <2>4. Cascaded(Shown)'
      BY <1>4, <2>1, <2>2, <2>3
    <2>5. QED
      BY <1>1, <1>3, <2>1, <2>4 DEF Guided
  <1>15. CASE UNCHANGED vars
    <2>1. /\ Shown' = Shown /\ phase' = phase /\ hit' = hit /\ revealed' = revealed
          /\ pending' = pending /\ done' = done /\ queue' = queue /\ safe' = safe /\ known' = known
      BY <1>15 DEF vars, gameVars, frontierVars, Shown
    <2>2. IF phase' = "reveal" THEN Cascaded(revealed)' ELSE Cascaded(Shown)'
      BY <1>1, <1>4, <2>1 DEF Guided, Cascaded
    <2>3. phase' = "choose" => /\ PassMines(revealed, known, safe)' = {}
                              /\ PassSafe(revealed, known, safe)' = {}
      BY <1>1, <1>2, <2>1 DEF Guided
    <2>4. QED
      BY <1>1, <1>3, <2>1, <2>2, <2>3 DEF Guided
  <1>16. QED
    BY <1>6, <1>7, <1>8, <1>9, <1>10, <1>11, <1>12, <1>13, <1>14, <1>15 DEF Next, Step

\* A bot without mistakes runs into no mine on an accepted board: the cells it
\* uncovers one click at a time reach those of the generator, which uncovers
\* all deduced cells at once (board_generator.py:57), whatever the order of its
\* rules and clicks, so that it never has to guess.
THEOREM NoneHit == Spec => []NoGuessNeeded
  <1>1. Guided => NoGuessNeeded
    BY DEF Guided, NoGuessNeeded
  <1>2. QED
    BY <1>1, BotInvHolds, GuidedInit, GuidedStep, PTL DEF Spec

-----------------------------------------------------------------------------
(* What is reported.                                                       *)

\* No cell is in two of the sets it moves through.
Disjoint ==
    /\ pending \cap revealed = {} /\ queue \cap revealed = {}
    /\ phase # "reveal" => queue \cap pending = {}
    /\ phase = "choose" => pending = {}
    /\ phase = "solve" => safe \cap revealed = {} /\ (pending # {} => safe = {})

Counted ==
    /\ ~sentInitial => reported = 0 /\ revealed = {} /\ phase \in {"idle", "reveal"}
    /\ sentInitial /\ phase = "reveal" => reported = Cardinality(revealed)
    /\ sentInitial /\ phase # "reveal" => reported = Cardinality(Shown)

Scalars ==
    /\ solvable \in BOOLEAN /\ careful \in BOOLEAN
    /\ phase \in {"idle", "solve", "choose", "reveal"}
    /\ sentInitial \in BOOLEAN /\ done \in BOOLEAN /\ complete \in BOOLEAN

CountInv == Disjoint /\ Counted /\ Scalars

LEMMA InitCount == Init => CountInv
  <1> SUFFICES ASSUME Init PROVE CountInv
    OBVIOUS
  <1>1. solvable \in BOOLEAN
    <2>1. IsSolvable \in BOOLEAN
      BY DEF IsSolvable
    <2>2. QED
      BY <2>1 DEF Init, Generate
  <1>2. QED
    BY <1>1 DEF Init, PartitionInit, CountInv, Disjoint, Counted, Scalars

\* A click is on a cell not yet uncovered.
LEMMA MoveIsNew ==
    ASSUME CountInv, phase = "choose", NEW c \in NextMoves
    PROVE  c \notin Shown
  <1>1. CASE c \in Pickable
    BY <1>1 DEF Pickable
  <1>2. CASE c \in queue
    BY <1>2 DEF CountInv, Disjoint, Shown
  <1>3. c \in Pickable \/ c \in queue
    BY DEF NextMoves, Blunders, Guesses
  <1>4. QED
    BY <1>1, <1>2, <1>3

LEMMA SolverCount ==
    ASSUME CountInv, NEW c \in Cell, Feed(c) \/ Rule1(c) \/ Rule2(c)
    PROVE  CountInv'
  <1>1. CASE Feed(c)
    <2>1. Shown' = Shown
      BY <1>1 DEF Feed, MarkRevealed, Shown
    <2>2. safe = {} /\ c \notin queue
      BY <1>1 DEF CountInv, Disjoint, Feed
    <2>3. Disjoint'
      BY <1>1, <2>2 DEF CountInv, Disjoint, Feed, MarkRevealed
    <2>4. Counted'
      BY <1>1, <2>1 DEF CountInv, Counted, Feed
    <2>5. QED
      BY <1>1, <2>3, <2>4 DEF CountInv, Scalars, Feed
  <1>2. CASE Rule1(c)
    BY <1>2 DEF CountInv, Disjoint, Counted, Scalars, Shown, Rule1, MarkMine, gameVars
  <1>3. CASE Rule2(c)
    <2>1. Open(c, revealed, known, safe) \cap revealed = {}
      BY DEF Open
    <2>2. QED
      BY <1>3, <2>1 DEF CountInv, Disjoint, Counted, Scalars, Shown, Rule2, Solving,
                        frontierVars
  <1>4. QED
    BY <1>1, <1>2, <1>3

LEMMA MoveCount ==
    ASSUME BotInv, CountInv, NEW c \in Cell,
           BeginStep \/ Enqueue \/ ClickMine(c) \/ ClickSafe(c) \/ Cancel \/ Finish
    PROVE  CountInv'
  <1>1. CASE BeginStep
    <2>1. Disjoint' /\ Scalars'
      BY <1>1 DEF CountInv, Disjoint, Scalars, BeginStep, frontierVars
    <2>2. Shown' = Shown /\ phase' # "reveal" /\ sentInitial'
      BY <1>1 DEF BeginStep, Shown, frontierVars
    <2>3. reported' = Cardinality(Shown)
      <3>1. CASE sentInitial
        BY <1>1, <3>1 DEF CountInv, Counted, BeginStep
      <3>2. CASE ~sentInitial
        <4>1. Shown = pending /\ reported = 0
          BY <3>2 DEF CountInv, Counted, Shown
        <4>2. Cardinality(pending) \in Nat
          BY CellsFinite, FS_Subset, FS_CardinalityType DEF BotInv, Belief
        <4>3. QED
          BY <1>1, <3>2, <4>1, <4>2 DEF BeginStep
      <3>3. QED
        BY <3>1, <3>2
    <2>4. QED
      BY <2>1, <2>2, <2>3 DEF CountInv, Counted
  <1>2. CASE Enqueue
    <2>1. queue' \subseteq queue \cup safe
      BY <1>2 DEF Enqueue, Kept
    <2>2. QED
      BY <1>2, <2>1 DEF CountInv, Disjoint, Counted, Scalars, Shown, Enqueue, Solving,
                        frontierVars
  <1>3. CASE ClickMine(c)
    BY <1>3 DEF CountInv, Disjoint, Counted, Scalars, Shown, ClickMine, frontierVars
  <1>4. CASE ClickSafe(c)
    <2>1. c \notin Shown /\ pending = {}
      BY <1>4, MoveIsNew DEF ClickSafe, CountInv, Disjoint
    <2>2. QED
      BY <1>4, <2>1 DEF CountInv, Disjoint, Counted, Scalars, Shown, ClickSafe, frontierVars
  <1>5. CASE Cancel
    BY <1>5 DEF CountInv, Disjoint, Counted, Scalars, Shown, Cancel, frontierVars
  <1>6. CASE Finish
    BY <1>6 DEF CountInv, Disjoint, Counted, Scalars, Shown, Finish, frontierVars
  <1>7. QED
    BY <1>1, <1>2, <1>3, <1>4, <1>5, <1>6

LEMMA RevealCount ==
    ASSUME BotInv, CountInv, Spread \/ EndReveal
    PROVE  CountInv'
  <1>1. CASE Spread
    <2>1. Beside(pending, Cell \ (Shown \cup hit)) \cap revealed = {}
      BY DEF Beside, Shown
    <2>2. QED
      BY <1>1, <2>1 DEF CountInv, Disjoint, Counted, Scalars, Spread, frontierVars
  <1>2. CASE EndReveal
    <2>1. Disjoint'
      BY <1>2 DEF CountInv, Disjoint, EndReveal, frontierVars
    <2>2. Scalars'
      BY <1>2 DEF CountInv, Scalars, EndReveal
    <2>3. Shown' = Shown /\ revealed' = revealed
      BY <1>2 DEF EndReveal, Shown, frontierVars
    <2>4. CASE ~sentInitial
      BY <1>2, <2>1, <2>2, <2>3, <2>4 DEF CountInv, Counted, EndReveal, Sent
    <2>5. CASE sentInitial
      <3>1. IsFiniteSet(revealed) /\ IsFiniteSet(pending)
        <4>1. revealed \subseteq Cell /\ pending \subseteq Cell
          BY DEF BotInv, Belief
        <4>2. QED
          BY <4>1, CellsFinite, FS_Subset
      <3>2. Cardinality(revealed) \in Nat /\ Cardinality(pending) \in Nat
        BY <3>1, FS_CardinalityType
      <3>3. Cardinality(revealed \cap pending) = 0
        <4>1. revealed \cap pending = {}
          BY DEF CountInv, Disjoint
        <4>2. QED
          BY <4>1, FS_EmptySet
      <3>4. Cardinality(Shown)
              = Cardinality(revealed) + Cardinality(pending) - Cardinality(revealed \cap pending)
        BY <3>1, FS_Union DEF Shown
      <3>5. reported' = Cardinality(revealed) + Cardinality(pending)
        BY <1>2, <2>5 DEF CountInv, Counted, EndReveal, Sent
      <3>6. reported' = Cardinality(Shown)
        BY <3>2, <3>3, <3>4, <3>5
      <3>7. QED
        BY <1>2, <2>1, <2>2, <2>3, <2>5, <3>6 DEF CountInv, Counted, EndReveal
    <2>6. QED
      BY <2>4, <2>5
  <1>3. QED
    BY <1>1, <1>2

LEMMA NextCount == BotInv /\ CountInv /\ [Next]_vars => CountInv'
  <1>1. ASSUME BotInv, CountInv, Next
        PROVE  CountInv'
    BY <1>1, SolverCount, MoveCount, RevealCount, GameAssumption DEF Next, Step
  <1>2. ASSUME CountInv, UNCHANGED vars
        PROVE  CountInv'
    BY <1>2 DEF CountInv, Disjoint, Counted, Scalars, Shown, vars, gameVars, frontierVars
  <1>3. QED
    BY <1>1, <1>2

LEMMA CountHolds == Spec => []CountInv
  BY InitCount, NextCount, BotInvHolds, PTL DEF Spec

\* Between two steps the opponent has been sent each uncovered cell once: the
\* starting cascade (runner.py:101), every click's cascade and the winning one.
THEOREM ReportsComplete == Spec => []ReportsMatch
  <1>1. CountInv => ReportsMatch
    BY DEF CountInv, Counted, ReportsMatch
  <1>2. QED
    BY <1>1, CountHolds, PTL

\* Every variable of a game keeps its type; the count of reported cells never
\* passes the size of the board.
THEOREM GameTypeCorrect == Spec => []TypeOK
  <1>1. ASSUME BotInv, CountInv
        PROVE  TypeOK
    <2>1. revealed \subseteq Cell /\ Shown \subseteq Cell
      BY <1>1 DEF BotInv, Belief, Shown
    <2>2. /\ Cardinality(Cell) \in Nat /\ Cardinality(revealed) \in Nat
          /\ Cardinality(Shown) \in Nat
          /\ Cardinality(revealed) <= Cardinality(Cell)
          /\ Cardinality(Shown) <= Cardinality(Cell)
      <3>1. IsFiniteSet(revealed) /\ IsFiniteSet(Shown)
        BY <2>1, CellsFinite, FS_Subset
      <3>2. QED
        BY <2>1, <3>1, CellsFinite, FS_Subset, FS_CardinalityType
    <2>3. reported \in 0..Cardinality(Cell)
      BY <1>1, <2>2 DEF CountInv, Counted, Scalars
    <2>4. hit \subseteq Cell
      BY <1>1 DEF BotInv, Board, Belief
    <2>5. known \cup Unknown \subseteq Cell
      BY <1>1, UnknownDocumented DEF BotInv, Board, Belief, DocumentedUnknown
    <2>6. QED
      BY <1>1, <2>3, <2>4, <2>5 DEF TypeOK, BotInv, Board, Belief, CountInv, Disjoint, Scalars
  <1>2. QED
    BY <1>1, BotInvHolds, CountHolds, PTL
=============================================================================

----------------------------- MODULE Minefield ------------------------------
(***************************************************************************)
(* The true board (board_generator.py), what a click uncovers on it        *)
(* (bots/flood_fill.py), and what BasicSolver deduces from what is         *)
(* uncovered (solver/basic_solver.py).                                     *)
(***************************************************************************)
EXTENDS Board, FiniteSets, FiniteSetsExt

CONSTANTS MineCount, Start

ASSUME GameAssumption == MineCount \in Nat /\ Start \in Cell

VARIABLE mines      \* the mines of the board

-----------------------------------------------------------------------------
(* The board.                                                              *)

\* adjacentMines, which _compute_adjacency leaves at 0 for a mine.
Adjacent(c) == IF c \in mines THEN 0 ELSE Cardinality(Neighbors[c] \cap mines)

RandomBoards == kSubset(MineCount, Cell \ (Neighbors[Start] \cup {Start}))

\* The cells beside the zeros of S.
BesideZeros(S) == UNION {Neighbors[z] : z \in {c \in S : Adjacent(c) = 0}}

\* The unknown cells that the zeros of S uncover.
Beside(S, unknown) == (BesideZeros(S) \cap unknown) \ S

\* flood_fill_reveal as a function: what a click on c uncovers.
Flood(c, unknown) ==
    LET while[S \in SUBSET Cell] ==
            IF Beside(S, unknown) = {} THEN S ELSE while[S \cup Beside(S, unknown)]
    IN while[{c}]

-----------------------------------------------------------------------------
(* BasicSolver: what one look at the revealed cell c concludes, given the  *)
(* revealed cells R, the known mines K and the safe cells S.               *)

Open(c, R, K, S) == Neighbors[c] \ (R \cup K \cup S)

AllMines(c, R, K, S) ==
    Adjacent(c) - Cardinality(Neighbors[c] \cap K) = Cardinality(Open(c, R, K, S))

AllSafe(c, R, K, S) == Adjacent(c) = Cardinality(Neighbors[c] \cap K)

\* One pass over the revealed cells adds these mines and these safe cells.
PassMines(R, K, S) == UNION {Open(c, R, K, S) : c \in {d \in R : AllMines(d, R, K, S)}}
PassSafe(R, K, S) == UNION {Open(c, R, K, S) : c \in {d \in R : AllSafe(d, R, K, S)}}

Knowledge == [mines : SUBSET Cell, safe : SUBSET Cell]

\* find_solved_squares as a function: passes until nothing changes.
Deduced(R, K) ==
    LET while[p \in Knowledge] ==
            LET q == [mines |-> p.mines \cup PassMines(R, p.mines, p.safe),
                      safe  |-> p.safe \cup PassSafe(R, p.mines, p.safe)]
            IN IF q = p THEN p ELSE while[q]
    IN while[[mines |-> K, safe |-> {}]]

\* What revealing the solver's deductions, round after round, uncovers.
Uncovered ==
    LET while[s \in [shown : SUBSET Cell, mines : SUBSET Cell]] ==
            LET d == Deduced(s.shown, s.mines)
                more == s.shown \cup UNION {Flood(c, Cell \ s.shown) : c \in d.safe}
            IN IF more = s.shown THEN more ELSE while[[shown |-> more, mines |-> d.mines]]
    IN while[[shown |-> Flood(Start, Cell), mines |-> {}]]

\* _is_solvable_by: the solver needs no guess.
IsSolvable == Uncovered = Cell \ mines
=============================================================================

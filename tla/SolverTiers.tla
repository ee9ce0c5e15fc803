---------------------------- MODULE SolverTiers -----------------------------
(***************************************************************************)
(* A board and a solver of one of the three upper tiers: first             *)
(* board_generator.py puts the board to the solver, which gets all its     *)
(* deductions uncovered at once (_is_solvable_by); then a fresh solver of  *)
(* the same tier serves a bot without mistakes, which uncovers one cell of *)
(* its queue at a time (bots/brain.py) and guesses when the queue is       *)
(* empty.  The bot's queue is a set here: its order is that of sets.  A    *)
(* guess that hits a mine changes nothing the solver sees, and is left     *)
(* out.                                                                    *)
(***************************************************************************)
EXTENDS SubsetSolver, PerfectSolver, Functions

CONSTANTS Boards,     \* the mine placements considered
          Tiers       \* the tiers considered

ASSUME TiersAssumption ==
    /\ Boards \subseteq RandomBoards
    /\ Tiers \subseteq {"subset", "probabilistic", "perfect"}

VARIABLES driver,     \* who uncovers cells, "generator" or "bot"
          shown,      \* the cells uncovered before the last cascade
          queue,      \* safe_queue
          accepted,   \* the generator accepted the board for this tier
          guessed     \* the bot had to guess

solverVars == <<tier, revealed, known, safe, groups, componentVars>>
driverVars == <<driver, shown, queue, accepted, guessed>>
vars == <<mines, solverVars, pending, phase, driverVars>>

Init ==
    /\ mines \in Boards
    /\ tier \in Tiers
    /\ revealed = {} /\ known = {} /\ safe = {} /\ groups = <<>>
    /\ ComponentsInit
    /\ pending = {Start} /\ shown = {}
    /\ phase = "reveal"
    /\ driver = "generator"
    /\ queue = {} /\ accepted = FALSE /\ guessed = FALSE

AllUncovered == shown = Cell \ mines

\* A plausible mistake: the count of uncovered cells is off by one.
AllButOne == Cardinality(shown) >= Cardinality(Cell) - MineCount - 1

\* What _is_solvable_by returns in the end.
IsSolved == Cardinality(shown) = Cardinality(Cell) - MineCount

\* flood_fill_reveal, ring by ring.
Spread ==
    /\ phase = "reveal"
    /\ Beside(pending, Cell \ shown) # {}
    /\ pending' = pending \cup Beside(pending, Cell \ shown)
    /\ UNCHANGED <<mines, solverVars, phase, driverVars>>

EndReveal ==
    /\ phase = "reveal"
    /\ Beside(pending, Cell \ shown) = {}
    /\ shown' = shown \cup pending
    /\ queue' = queue \ pending
    /\ phase' = "feed"
    /\ UNCHANGED <<mines, solverVars, pending, driver, accepted, guessed>>

\* The round of the generator: everything deduced is uncovered.
UncoverAll ==
    /\ driver = "generator" /\ phase = "decide"
    /\ safe # {}
    /\ pending' = safe
    /\ phase' = "reveal"
    /\ UNCHANGED <<mines, solverVars, driverVars>>

\* Nothing left to uncover: the verdict.  Then a match is played on the board,
\* with a new solver.
Verdict ==
    /\ driver = "generator" /\ phase = "decide"
    /\ safe = {}
    /\ accepted' = IsSolved
    /\ driver' = "bot"
    /\ pending' = {Start} /\ shown' = {}
    /\ phase' = "reveal"
    /\ revealed' = {} /\ known' = {} /\ safe' = {} /\ groups' = <<>>
    /\ comps' = {} /\ blank' = Cell
    /\ UNCHANGED <<mines, tier, todo, fresh, adding, target, queue, guessed>>

Click(c) ==
    /\ pending' = {c}
    /\ queue' = queue \cup safe
    /\ phase' = "reveal"
    /\ UNCHANGED <<mines, solverVars, driver, shown, accepted>>

Deciding == driver = "bot" /\ phase = "decide" /\ ~AllUncovered

ClickQueued ==
    /\ Deciding
    /\ \E c \in queue \cup safe : Click(c)
    /\ UNCHANGED guessed

Guess ==
    /\ Deciding
    /\ queue \cup safe = {}
    /\ \E c \in Cell \ (shown \cup mines) : Click(c)
    /\ guessed' = TRUE

Solving ==
    /\ \/ SubsetNext /\ UNCHANGED componentVars
       \/ ComponentNext
    /\ UNCHANGED <<mines, driverVars>>

Next == Solving \/ Spread \/ EndReveal \/ UncoverAll \/ Verdict \/ ClickQueued \/ Guess

Spec == Init /\ [][Next]_vars

\* The loops of generator, solver and bot go on as long as they can.
FairSpec == Spec /\ WF_vars(Next)

-----------------------------------------------------------------------------
(* What the numbers say, worked out from scratch.                          *)

Fringe == {c \in Cell \ revealed : Neighbors[c] \cap revealed # {}}

\* The ways to place mines beside the revealed cells that agree with them.
Consistent ==
    {M \in SUBSET Fringe : \A c \in revealed : Cardinality(Neighbors[c] \cap M) = Adjacent(c)}

\* Those that leave room for the right number of mines on the whole board.
Feasible ==
    LET others == Cardinality(Cell \ (revealed \cup Fringe)) IN
    {M \in Consistent : Cardinality(M) <= MineCount /\ MineCount - Cardinality(M) <= others}

\* The cells that are mines in all of these placements, or in none.
ForcedMines(S) == Fringe \ UNION {Fringe \ M : M \in S}
ForcedSafe(S) == Fringe \ UNION S

\* Types: groups lie around uncovered cells and hold no more mines than cells.
TypeOK ==
    /\ mines \in Boards /\ tier \in Tiers
    /\ revealed \cup known \cup safe \cup pending \cup shown \cup queue \cup blank \subseteq Cell
    /\ \A o \in DOMAIN groups :
        /\ o \in revealed
        /\ groups[o].cells \in (SUBSET Cell) \ {{}}
        /\ groups[o].mines \in 0..Cardinality(groups[o].cells)
    /\ (UNION comps) \cup target \cup Range(adding) = IF Counting THEN DOMAIN groups ELSE {}
    /\ todo \subseteq comps /\ fresh \subseteq Cell
    /\ phase \in {"reveal", "feed", "split", "groups", "solve", "decide"}
    /\ driver \in {"generator", "bot"} /\ accepted \in BOOLEAN /\ guessed \in BOOLEAN

\* No tier ever calls a mine safe or a safe cell a mine, whatever has been
\* uncovered in which order: groups that are kept from call to call stay true
\* through every split, merge and removal of cells.
DeductionsSound ==
    known \subseteq mines /\ (safe \cup queue \cup shown) \cap mines = {}

AfterCall == phase = "decide"

\* Components are solved one by one (perfect_solver.py:118) and cells outside
\* them get the density of the rest (brain.py:218, brain.py:228): no two share
\* a cell, together they hold every unknown cell beside a revealed one, and
\* tiles_without_information is what is beside none.
ComponentsSeparate ==
    Counting /\ AfterCall =>
        /\ \A C, D \in comps : C # D => CellsOf(C) \cap CellsOf(D) = {}
        /\ UNION {CellsOf(C) : C \in comps} = Fringe \ known
        /\ blank = Cell \ (revealed \cup Fringe \cup known)

\* The groups kept from call to call say what the numbers say, no more and no
\* less: they allow the same placements of mines.
GroupsExact ==
    Counting /\ AfterCall =>
        {M \cup (known \cap Fringe) : M \in Placements(DOMAIN groups)}
            = {M \in Consistent : known \cap Fringe \subseteq M}

\* Each tier is as strong as its docstring says: the subset tier finds what the
\* basic rules find (subset_solver.py:5), the probabilistic tier all that the
\* numbers imply, the perfect tier that and nothing that the number of mines
\* left does not imply as well (perfect_solver.py:12-18); and no tier goes
\* beyond what is implied.
TierStrength ==
    AfterCall =>
        CASE tier = "subset" ->
                LET basic == Deduced(revealed, {}) IN
                /\ basic.mines \subseteq known /\ known \subseteq ForcedMines(Consistent)
                /\ basic.safe \subseteq safe /\ safe \subseteq ForcedSafe(Consistent)
          [] tier = "probabilistic" ->
                known = ForcedMines(Consistent) /\ safe = ForcedSafe(Consistent)
          [] tier = "perfect" ->
                /\ ForcedMines(Consistent) \subseteq known
                /\ known \cap Fringe \subseteq ForcedMines(Feasible)
                /\ ForcedSafe(Consistent) \subseteq safe
                /\ safe \subseteq ForcedSafe(Feasible)

\* The verdict on a board for the probabilistic tier is the bot's fate, although
\* the generator uncovers all deduced cells at once and the bot one at a time, in
\* any order: a bot without mistakes needs no guess on an accepted board, and
\* cannot do without one on a rejected board.
GuessOnlyIfRejected ==
    tier = "probabilistic" /\ driver = "bot" =>
        /\ accepted => ~guessed
        /\ AllUncovered /\ phase = "decide" => accepted \/ guessed

\* The first half for any tier, as _is_solvable_by has it ("without guessing",
\* board_generator.py:62) and test_perfect_bot_solves_expert_board
\* (tests/test_bot_brain.py:39).  It fails for the subset and the perfect tier.
AcceptedNeedsNoGuess == accepted => ~guessed

\* Every board comes to its end: no solver call splits, adds or reassesses
\* groups for ever, and each round of the generator and of the bot brings
\* something new.
BoardEnds == <>(driver = "bot" /\ AllUncovered)
=============================================================================

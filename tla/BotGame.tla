------------------------------ MODULE BotGame -------------------------------
(***************************************************************************)
(* A bot plays one game: BotRunner asks BotBrain for a cell, clicks it on  *)
(* the true board and reports what it uncovered (bots/runner.py,           *)
(* bots/brain.py), with the deductions of BasicSolver                      *)
(* (solver/basic_solver.py) on a board of board_generator.py.              *)
(*                                                                         *)
(* A runner step is phase "idle" to "idle": the solver takes one step for  *)
(* each cell it records and each rule it applies ("solve"), the bot        *)
(* chooses and clicks ("choose"), the cascade spreads ("reveal").  The     *)
(* order of dicts and sets is open.                                        *)
(***************************************************************************)
EXTENDS Frontier, Minefield

VARIABLES solvable,   \* generate_solvable_board accepted it for this solver
          careful,    \* the three mistake probabilities of the bot are 0
          pending,    \* _pending_reveal: uncovered, not yet fed to the solver
          hit,        \* _bot_known_mines: mines the bot clicked
          safe,       \* the safe cells deduced by the running solver call
          queue,      \* safe_queue, without the cells it would skip
          phase, reported, sentInitial, done, complete

gameVars == <<mines, solvable, careful, pending, hit, safe, queue, phase,
              reported, sentInitial, done, complete>>
vars == <<frontierVars, gameVars>>

-----------------------------------------------------------------------------
(* The bot.                                                                *)

\* generate_solvable_board for the basic tier: an accepted board or, as the last
\* resort, any.
Generate == mines \in RandomBoards /\ solvable = IsSolvable

\* The cells whose state is a number.
Shown == revealed \cup pending

Init ==
    /\ PartitionInit
    /\ Generate
    /\ careful \in BOOLEAN
    /\ pending = {Start}
    /\ hit = {} /\ safe = {} /\ queue = {}
    /\ phase = "reveal"
    /\ reported = 0 /\ sentInitial = FALSE
    /\ done = FALSE /\ complete = FALSE

\* step(): the starting cascade is sent first; the solver is called only if
\* there is something to feed it.
BeginStep ==
    /\ phase = "idle" /\ ~done
    /\ phase' = IF pending = {} THEN "choose" ELSE "solve"
    /\ reported' = IF sentInitial THEN reported ELSE reported + Cardinality(pending)
    /\ sentInitial' = TRUE
    /\ safe' = {}
    /\ UNCHANGED <<frontierVars, mines, solvable, careful, pending, hit, queue,
                   done, complete>>

Feed(c) ==
    /\ phase = "solve" /\ c \in pending
    /\ MarkRevealed(c)
    /\ pending' = pending \ {c}
    /\ UNCHANGED <<mines, solvable, careful, hit, safe, queue, phase, reported,
                   sentInitial, done, complete>>

Solving == phase = "solve" /\ pending = {}

Rule1(c) ==
    /\ Solving /\ c \in revealed
    /\ AllMines(c, revealed, known, safe)
    /\ \E m \in Open(c, revealed, known, safe) : MarkMine(m)
    /\ UNCHANGED gameVars

Rule2(c) ==
    /\ Solving /\ c \in revealed
    /\ AllSafe(c, revealed, known, safe)
    /\ Open(c, revealed, known, safe) # {}
    /\ safe' = safe \cup Open(c, revealed, known, safe)
    /\ UNCHANGED <<frontierVars, mines, solvable, careful, pending, hit, queue,
                   phase, reported, sentInitial, done, complete>>

\* A plausible mistake: deductions are dropped whatever the bot's profile.
KeptBySome == SUBSET safe

\* The deductions a bot keeps: a mistake may drop any that is not yet queued.
Kept == IF careful THEN {safe} ELSE SUBSET safe

Enqueue ==
    /\ Solving
    /\ PassMines(revealed, known, safe) \cup PassSafe(revealed, known, safe) = {}
    /\ \E cells \in Kept : queue' = queue \cup cells
    /\ phase' = "choose"
    /\ UNCHANGED <<frontierVars, mines, solvable, careful, pending, hit, safe,
                   reported, sentInitial, done, complete>>

\* A plausible mistake: the bot forgets the mines it clicked.
NotShown == Cell \ Shown

\* _is_pickable: known mines are excluded by the regions only.
Pickable == Cell \ (Shown \cup hit)

\* _choose_guess of the tiers without probabilities: the preferred region, and
\* any unknown cell if that has none left.
Guesses(region) == IF region \cap Pickable # {} THEN region \cap Pickable ELSE Pickable

\* The cells a mistake may pick: p_random_cell and p_wrong_cell reach every one.
Blunders == IF careful THEN {} ELSE Pickable

\* The cells next_move may return: the queue comes first unless the bot errs.
NextMoves ==
    Blunders
        \cup (IF queue # {} THEN queue
              ELSE UNION {Guesses(r) : r \in {frontier, nearFrontier, deep}})

\* A plausible mistake: mines the bot ran into count as revealed.
AllTouched == Cardinality(Shown \cup hit) >= Cardinality(Cell) - MineCount

AllShown == Cardinality(Shown) >= Cardinality(Cell) - MineCount

\* next_move() returned None: taken as a win.
Finish ==
    /\ phase = "choose"
    /\ AllShown \/ NextMoves = {}
    /\ phase' = "idle" /\ done' = TRUE /\ complete' = TRUE
    /\ UNCHANGED <<frontierVars, mines, solvable, careful, pending, hit, safe,
                   queue, reported, sentInitial>>

ClickMine(c) ==
    /\ phase = "choose" /\ ~AllShown
    /\ c \in NextMoves \cap mines
    /\ hit' = hit \cup {c}
    /\ queue' = queue \ {c}
    /\ phase' = "idle"
    /\ UNCHANGED <<frontierVars, mines, solvable, careful, pending, safe,
                   reported, sentInitial, done, complete>>

ClickSafe(c) ==
    /\ phase = "choose" /\ ~AllShown
    /\ c \in NextMoves \ mines
    /\ pending' = {c}
    /\ phase' = "reveal"
    /\ UNCHANGED <<frontierVars, mines, solvable, careful, hit, safe, queue,
                   reported, sentInitial, done, complete>>

Spread ==
    /\ phase = "reveal"
    /\ Beside(pending, Cell \ (Shown \cup hit)) # {}
    /\ pending' = pending \cup Beside(pending, Cell \ (Shown \cup hit))
    /\ UNCHANGED <<frontierVars, mines, solvable, careful, hit, safe, queue,
                   phase, reported, sentInitial, done, complete>>

\* The size of the reveal message of a click; the starting cascade waits.
Sent == IF sentInitial THEN Cardinality(pending) ELSE 0

EndReveal ==
    /\ phase = "reveal"
    /\ Beside(pending, Cell \ (Shown \cup hit)) = {}
    /\ reported' = reported + Sent
    /\ queue' = queue \ pending
    /\ phase' = "idle"
    /\ done' = (sentInitial /\ AllShown) /\ complete' = (sentInitial /\ AllShown)
    /\ UNCHANGED <<frontierVars, mines, solvable, careful, pending, hit, safe, sentInitial>>

\* cancel(): the match ended; the driver's thread calls it between two steps.
Cancel ==
    /\ phase = "idle" /\ ~done
    /\ done' = TRUE
    /\ UNCHANGED <<frontierVars, mines, solvable, careful, pending, hit, safe,
                   queue, phase, reported, sentInitial, complete>>

Step ==
    \/ BeginStep \/ Enqueue \/ Finish \/ Spread \/ EndReveal
    \/ \E c \in Cell : Feed(c) \/ Rule1(c) \/ Rule2(c) \/ ClickMine(c) \/ ClickSafe(c)

Next == Step \/ Cancel

Spec == Init /\ [][Next]_vars

\* The driver's loop steps the bot until it is done.
FairSpec == Spec /\ WF_vars(Step)

-----------------------------------------------------------------------------

TypeOK ==
    /\ mines \subseteq Cell /\ Cardinality(mines) = MineCount
    /\ solvable \in BOOLEAN /\ careful \in BOOLEAN
    /\ revealed \cup pending \cup hit \cup safe \cup queue \subseteq Cell
    /\ known \cup Unknown \subseteq Cell
    /\ pending \cap revealed = {}
    /\ phase \in {"idle", "solve", "choose", "reveal"}
    /\ reported \in 0..Cardinality(Cell)
    /\ sentInitial \in BOOLEAN /\ done \in BOOLEAN /\ complete \in BOOLEAN

\* What a bot deduces is true: every cell of the safe queue is free of mines,
\* every known mine is one, and a cell it uncovered is safe.  The solver never
\* hears of the mines a bot ran into, and draws no false conclusion from it.
DeductionsSound ==
    /\ known \subseteq mines
    /\ (safe \cup queue \cup Shown) \cap mines = {}

\* game_complete is sent only with every safe cell uncovered, also when the bot
\* ends because it has no legal move left (runner.py:108).
WonIsTrue == complete => Shown = Cell \ mines

\* A bot without mistakes runs into no mine on a board that was accepted for
\* its solver, although it clicks one cell at a time and the generator's test
\* (board_generator.py:57) uncovers all deduced cells at once.
NoGuessNeeded == careful /\ solvable => hit = {}

\* The opponent's progress bar: between steps the cells sent are the cells
\* uncovered, each once, the starting cascade and the last reveal included.
ReportsMatch == phase = "idle" /\ sentInitial => reported = Cardinality(Shown)

\* Every game a bot is left to play comes to an end: no move is repeated.
GameEnds == <>done
=============================================================================

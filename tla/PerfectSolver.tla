--------------------------- MODULE PerfectSolver ----------------------------
(***************************************************************************)
(* find_solved_squares of the probabilistic and the perfect tier           *)
(* (solver/perfect_solver.py): mine groups are kept from call to call, in  *)
(* components that share no cell.  A call takes the new cells out of the   *)
(* groups, looks once at each component for groups inside one another,     *)
(* adds the groups of the new numbers, merging components they connect,    *)
(* divides components that fell apart, and tries all placements of each.   *)
(* The order of dicts and sets is left open.                               *)
(***************************************************************************)
EXTENDS MineGroups, Sequences

VARIABLES comps,    \* all_groups: each component the set of its groups
          blank,    \* tiles_without_information
          todo,     \* components that reassess_for_subsets has yet to look at
          fresh,    \* new numbers whose group is not added yet
          adding,   \* the groups that add_group is at work on, innermost first
          target    \* the component they are added to

componentVars == <<comps, blank, todo, fresh, adding, target>>

Counting == tier \in {"probabilistic", "perfect"}

ComponentsInit ==
    /\ comps = {} /\ blank = Cell
    /\ todo = {} /\ fresh = {} /\ adding = <<>> /\ target = {}

\* A plausible mistake: a component that lost a group is forgotten.
SurvivingWhole(S, G) == {C \in S : C \subseteq G}

\* What is left of components when only the groups in G are.
Surviving(S, G) == {C \cap G : C \in S} \ {{}}

HasNested(grp, C) ==
    \E s, t \in C : grp[s].cells # grp[t].cells /\ grp[s].cells \subseteq grp[t].cells

\* Steps 1 and 2: cells leave the groups and the unconstrained cells.
Record ==
    /\ Counting /\ phase = "feed"
    /\ revealed' = revealed \cup pending
    /\ pending' = {}
    /\ blank' = blank \ pending
    /\ groups' = Strip(pending, {})
    /\ comps' = Surviving(comps, DOMAIN groups')
    /\ todo' = {C \in comps' : HasNested(groups', C)}
    /\ fresh' = {c \in pending : Adjacent(c) # 0 /\ Open(c, revealed', known, {}) # {}}
    /\ phase' = "groups"
    /\ UNCHANGED <<tier, known, safe, adding, target>>

\* reassess_for_subsets: one pair of the component is split and added again.
Reassess ==
    /\ phase = "groups" /\ adding = <<>>
    /\ \E C \in todo : \E s, t \in C :
        /\ Nested(s, t)
        /\ groups' = Split(s, t)
        /\ comps' = comps \ {C}
        /\ target' = C \ {s, t}
        /\ adding' = <<s, t>>
        /\ todo' = todo \ {C}
    /\ UNCHANGED <<tier, revealed, known, safe, pending, phase, blank, fresh>>

\* A plausible mistake: of the components that a new number connects, only one
\* takes it.
OneHost(open) ==
    LET all == {C \in comps : CellsOf(C) \cap open # {}}
    IN IF all = {} THEN {} ELSE {CHOOSE C \in all : TRUE}

\* The components that hold a cell of the new group.
Hosts(open) == {C \in comps : CellsOf(C) \cap open # {}}

\* Step 3 for one new number.
AddConstraint ==
    /\ phase = "groups" /\ adding = <<>> /\ todo = {}
    /\ \E c \in fresh :
        LET new == Constraint(c, revealed, known, {}) IN
        /\ blank' = blank \ new.cells
        /\ comps' = comps \ Hosts(new.cells)
        /\ target' = UNION Hosts(new.cells)
        /\ groups' = [o \in DOMAIN groups \cup {c} |-> IF o = c THEN new ELSE groups[o]]
        /\ adding' = <<c>>
        /\ fresh' = fresh \ {c}
    /\ UNCHANGED <<tier, revealed, known, safe, pending, phase, todo>>

\* add_group: a group inside or around a present one is split with it, and both
\* parts are added; any other takes its place.
SplitWith(o, e) ==
    \E s, t \in {o, e} :
        /\ Nested(s, t)
        /\ groups' = Split(s, t)
        /\ target' = target \ {e}
        /\ adding' = <<s, t>> \o Tail(adding)
        /\ UNCHANGED comps

PutInPlace(o) ==
    /\ \A e \in target : ~Nested(o, e) /\ ~Nested(e, o)
    /\ adding' = Tail(adding)
    /\ IF Tail(adding) = <<>>
       THEN comps' = comps \cup {target \cup {o}} /\ target' = {}
       ELSE target' = target \cup {o} /\ UNCHANGED comps
    /\ UNCHANGED groups

AddGroup ==
    /\ adding # <<>>
    /\ \/ \E e \in target : SplitWith(Head(adding), e)
       \/ PutInPlace(Head(adding))
    /\ UNCHANGED <<tier, revealed, known, safe, pending, phase, blank, todo, fresh>>

-----------------------------------------------------------------------------
(* Steps 4 to 7.                                                           *)

\* split_if_disjoint: the groups of C that o is connected to by shared cells,
\* which are those that no set apart from the rest of C leaves out.
Piece(C, o) ==
    {p \in C : \A P \in SUBSET C :
        o \in P /\ CellsOf(P) \cap CellsOf(C \ P) = {} => p \in P}

Divide ==
    /\ phase = "groups" /\ adding = <<>> /\ todo = {} /\ fresh = {}
    /\ comps' = UNION {{Piece(C, o) : o \in C} : C \in comps}
    /\ phase' = "solve"
    /\ UNCHANGED <<tier, revealed, known, safe, groups, pending, blank, todo, fresh,
                   adding, target>>

Remaining == MineCount - Cardinality(known)

\* solve_groups: the placements within the budget.  There always is one, the
\* true one, so that the code's case of contradictory groups never occurs.
Solutions(P) ==
    {M \in Placements(P) : tier = "perfect" => Cardinality(M) <= Remaining}

\* The cells that no placement fills, and those that none leaves empty.
AlwaysSafe(P) == CellsOf(P) \ UNION Solutions(P)
AlwaysMine(P) == CellsOf(P) \ UNION {CellsOf(P) \ M : M \in Solutions(P)}
MostMines(P) == Max({Cardinality(M) : M \in Solutions(P)})

\* The mines that the unconstrained cells hold at least.
LeftAtLeast == Remaining - MapThenSumSet(MostMines, comps)

\* Step 6: the unconstrained cells are all mines.
BlankMines ==
    IF tier = "perfect" /\ LeftAtLeast = Cardinality(blank) THEN blank ELSE {}

\* Step 7: the mines found leave the groups.
Solve ==
    /\ phase = "solve"
    /\ safe' = UNION {AlwaysSafe(P) : P \in comps}
    /\ known' = known \cup (UNION {AlwaysMine(P) : P \in comps}) \cup BlankMines
    /\ blank' = blank \ known'
    /\ groups' = Strip({}, known')
    /\ comps' = Surviving(comps, DOMAIN groups')
    /\ phase' = "decide"
    /\ UNCHANGED <<tier, revealed, pending, todo, fresh, adding, target>>

ComponentNext == Record \/ Reassess \/ AddConstraint \/ AddGroup \/ Divide \/ Solve
=============================================================================

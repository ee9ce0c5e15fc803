---------------------------- MODULE SubsetSolver ----------------------------
(***************************************************************************)
(* find_solved_squares of the subset tier (solver/subset_solver.py): build *)
(* the groups of all revealed numbers, split as long as one lies inside    *)
(* another, conclude, and start again if that brought anything.  Which     *)
(* pair is split next is left open: the code goes by lists and sets.       *)
(***************************************************************************)
EXTENDS MineGroups

\* The groups of all revealed numbers with an open cell.
Rebuilt(R, K, S) ==
    [c \in {d \in R : Open(d, R, K, S) # {}} |-> Constraint(c, R, K, S)]

SubsetRecord ==
    /\ tier = "subset" /\ phase = "feed"
    /\ revealed' = revealed \cup pending
    /\ pending' = {}
    /\ safe' = {}
    /\ groups' = Rebuilt(revealed', known, {})
    /\ phase' = "split"
    /\ UNCHANGED <<tier, known>>

SubsetSplit ==
    /\ phase = "split"
    /\ \E s, t \in DOMAIN groups : Nested(s, t) /\ groups' = Split(s, t)
    /\ UNCHANGED <<tier, revealed, known, safe, pending, phase>>

NothingNested == \A s, t \in DOMAIN groups : ~Nested(s, t)

SubsetConclude ==
    /\ phase = "split" /\ NothingNested
    /\ safe' = safe \cup CellsOf(SafeGroups(DOMAIN groups))
    /\ known' = known \cup CellsOf(MineOnlyGroups(DOMAIN groups))
    /\ IF safe' = safe /\ known' = known
       THEN phase' = "decide" /\ groups' = <<>>
       ELSE phase' = "split" /\ groups' = Rebuilt(revealed, known', safe')
    /\ UNCHANGED <<tier, revealed, pending>>

SubsetNext == SubsetRecord \/ SubsetSplit \/ SubsetConclude
=============================================================================

----------------------------- MODULE MineGroups -----------------------------
(***************************************************************************)
(* Mine groups: sets of unknown cells with the number of mines among them  *)
(* (MineGroup and the splitting of solver/solver_types.py), and what the   *)
(* solvers built on them have in common.  A group is known by the revealed *)
(* cell whose number gave rise to it; a split leaves the smaller group as  *)
(* it is and takes its cells and mines from the larger one.                *)
(*                                                                         *)
(* The regions of unknown cells are left out: Frontier shows that they are *)
(* a function of the revealed cells and the known mines.                   *)
(***************************************************************************)
EXTENDS Minefield

VARIABLES tier,       \* which solver runs
          revealed,   \* revealed_cells
          known,      \* known_mines, mine_cells
          safe,       \* the safe cells of the running or last solver call
          groups,     \* the mine groups, by the cell they come from
          pending,    \* the newly revealed cells of the next solver call
          phase       \* where the solver call stands

\* The group of the number at c, given the revealed cells R, the known mines K
\* and the safe cells S.
Constraint(c, R, K, S) ==
    [cells |-> Open(c, R, K, S), mines |-> Adjacent(c) - Cardinality(Neighbors[c] \cap K)]

\* A plausible mistake: equal groups count as nested.
NestedOrEqual(s, t) == s # t /\ groups[s].cells \subseteq groups[t].cells

\* One group lies strictly inside the other.
Nested(s, t) ==
    groups[s].cells # groups[t].cells /\ groups[s].cells \subseteq groups[t].cells

\* A plausible mistake: the difference keeps all mines of the larger group.
SplitCellsOnly(s, t) ==
    [groups EXCEPT ![t] = [cells |-> groups[t].cells \ groups[s].cells,
                           mines |-> groups[t].mines]]

\* _split_group: the larger group t becomes the difference.
Split(s, t) ==
    [groups EXCEPT ![t] = [cells |-> groups[t].cells \ groups[s].cells,
                           mines |-> groups[t].mines - groups[s].mines]]

\* A plausible mistake: a mine leaves its groups as a safe cell does.
StripUncounted(S, K) ==
    [o \in {p \in DOMAIN groups : ~(groups[p].cells \subseteq S \cup K)} |->
        [cells |-> groups[o].cells \ (S \cup K), mines |-> groups[o].mines]]

\* mark_safe and mark_mine for all cells of S and K: empty groups are deleted.
Strip(S, K) ==
    [o \in {p \in DOMAIN groups : ~(groups[p].cells \subseteq S \cup K)} |->
        [cells |-> groups[o].cells \ (S \cup K),
         mines |-> groups[o].mines - Cardinality(groups[o].cells \cap K)]]

CellsOf(C) == UNION {groups[o].cells : o \in C}

\* The groups of C that are all safe, and those that are all mines.
SafeGroups(C) == {o \in C : groups[o].mines = 0}
MineOnlyGroups(C) == {o \in C : groups[o].mines = Cardinality(groups[o].cells)}

\* The ways to place mines on the cells of C that agree with its groups.
Placements(C) ==
    {M \in SUBSET CellsOf(C) :
        \A o \in C : Cardinality(M \cap groups[o].cells) = groups[o].mines}
=============================================================================

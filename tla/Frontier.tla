------------------------------ MODULE Frontier ------------------------------
(***************************************************************************)
(* The cells a solver knows nothing of, split by their distance from the   *)
(* revealed ones.  Every solver tier inherits this partition, updates it   *)
(* cell by cell as it records reveals and mines, and never recomputes it   *)
(* (solver/solver_types.py).  The bots pick their guesses from it.         *)
(***************************************************************************)
EXTENDS Board

VARIABLES revealed,       \* the cells _mark_revealed was called for
          known,          \* the known mines: _mark_mine was called for them
          frontier,       \* _frontier
          nearFrontier,   \* _near_frontier
          deep            \* _deep

frontierVars == <<revealed, known, frontier, nearFrontier, deep>>

\* _unknown, the union of the three sets.
Unknown == frontier \cup nearFrontier \cup deep

PartitionInit ==
    /\ revealed = {} /\ known = {}
    /\ frontier = {} /\ nearFrontier = {}
    /\ deep = Cell

-----------------------------------------------------------------------------

\* The unknown neighbors that become adjacent to a revealed cell.
Promoted(c) == {d \in Neighbors[c] : d \in Unknown \ frontier}

\* The deep cells beside the promoted ones.
Approached(c) == {k \in deep : \E d \in Promoted(c) : k \in Neighbors[d]}

MarkRevealed(c) ==
    /\ c \in Unknown
    /\ revealed' = revealed \cup {c}
    /\ frontier' = (frontier \ {c}) \cup Promoted(c)
    /\ nearFrontier' = (nearFrontier \cup Approached(c)) \ (Promoted(c) \cup {c})
    /\ deep' = deep \ (Approached(c) \cup Promoted(c) \cup {c})
    /\ UNCHANGED known

\* A plausible mistake: flagging a mine is taken to leave the regions alone.
NoneDemoted(c) == {}

\* The near-frontier neighbors whose only frontier neighbor was the new mine.
Demoted(c) ==
    {d \in Neighbors[c] \cap nearFrontier :
        c \in frontier /\ Neighbors[d] \cap frontier \subseteq {c}}

MarkMine(c) ==
    /\ c \in Unknown
    /\ known' = known \cup {c}
    /\ frontier' = frontier \ {c}
    /\ nearFrontier' = nearFrontier \ (Demoted(c) \cup {c})
    /\ deep' = (deep \ {c}) \cup Demoted(c)
    /\ UNCHANGED revealed

PartitionNext == \E c \in Cell : MarkRevealed(c) \/ MarkMine(c)

\* What any solver does to the partition: it marks cells one at a time.
PartitionSpec == PartitionInit /\ [][PartitionNext]_frontierVars

-----------------------------------------------------------------------------

\* The partition as FrontierSets documents it: unknown cells beside a revealed
\* one, unknown cells beside those, and the rest.
DocumentedUnknown == Cell \ (revealed \cup known)
DocumentedFrontier ==
    {c \in DocumentedUnknown : Neighbors[c] \cap revealed # {}}
DocumentedNear ==
    {c \in DocumentedUnknown \ DocumentedFrontier :
        Neighbors[c] \cap DocumentedFrontier # {}}

\* The incrementally kept sets are the documented ones at every moment: what
\* _mark_revealed and _mark_mine leave out (a demotion on a reveal, a
\* promotion on a mine) is never needed, in whatever order cells are marked.
PartitionAgrees ==
    /\ frontier = DocumentedFrontier
    /\ nearFrontier = DocumentedNear
    /\ deep = DocumentedUnknown \ (DocumentedFrontier \cup DocumentedNear)
=============================================================================

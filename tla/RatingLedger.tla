----------------------------- MODULE RatingLedger -----------------------------
(***************************************************************************)
(* What the ratings promise: they are as if the rated games had been       *)
(* entered one after another, each at most once and each from the ratings  *)
(* the earlier ones left.  A seeding adds rows and touches none; only a    *)
(* recalibration or the loss of the database changes a row otherwise.      *)
(***************************************************************************)
EXTENDS Elo

CONSTANTS
    Ids,            \* account ids
    Games,          \* the games that may be rated
    None            \* no row, not rated

VARIABLES
    elo,            \* the committed row of each account
    applied,        \* the change each rated game made
    epoch           \* how often the rows were overwritten or lost

vars == <<elo, applied, epoch>>

RowOf(id) == IF elo[id] = None THEN NewRow ELSE elo[id]

Init ==
    /\ elo \in [Ids -> Rows \cup {None}]
    /\ applied = [g \in Games |-> None]
    /\ epoch = 0

\* The rows after `winner` beat `loser`.
Entered(winner, loser) ==
    LET w == RowOf(winner).rating
        l == RowOf(loser).rating
        won == [elo EXCEPT ![winner] = [RowOf(winner) EXCEPT !.rating = Raised(w, l),
                                                            !.wins = @ + 1]]
        losing == IF winner = loser THEN won[loser] ELSE RowOf(loser)
    IN  [won EXCEPT ![loser] = [losing EXCEPT !.rating = Lowered(w, l),
                                              !.losses = @ + 1]]

\* What the players of a game are told of it.
Change(winner, loser) ==
    LET w == RowOf(winner).rating
        l == RowOf(loser).rating
    IN  [winner |-> [old |-> w, new |-> Raised(w, l)],
         loser |-> [old |-> l, new |-> Lowered(w, l)]]

Play(g) ==
    /\ applied[g] = None
    /\ \E winner, loser \in Ids :
        /\ elo' = Entered(winner, loser)
        /\ applied' = [applied EXCEPT ![g] = Change(winner, loser)]
    /\ UNCHANGED epoch

Seed ==
    /\ UNCHANGED <<applied, epoch>>
    /\ \A id \in Ids : elo[id] # None => elo'[id] = elo[id]

Overwrite ==
    /\ epoch' = epoch + 1
    /\ UNCHANGED applied

Next == Seed \/ Overwrite \/ \E g \in Games : Play(g)

Spec == Init /\ [][Next]_vars
================================================================================

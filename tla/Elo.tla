---------------------------------- MODULE Elo ----------------------------------
(***************************************************************************)
(* elo.py: the ratings after a game, over the integers.                    *)
(*                                                                         *)
(* The float 32 * (1 - E) that a winner gains, with                        *)
(* 1 - E = 1 / (1 + 10 ^ (lead / 400)), is only used rounded.  It rounds   *)
(* to k or more exactly if lead <= 400 * log10(32 / (k - 1/2) - 1), so the *)
(* greatest such lead for each k says all there is to say of it.           *)
(***************************************************************************)
EXTENDS Integers, FiniteSets

DEFAULT_RATING == 1200
K_FACTOR == 32

\* Margins[k]: the greatest lead with which a winner still gains k points.
Margins == << 719,  523,  428,  364,  314,  273,  237,  205,
              176,  149,  124,  100,   77,   54,   32,   10,
              -11,  -33,  -55,  -78, -101, -125, -150, -177,
             -206, -238, -274, -315, -365, -429, -524, -720>>

\* What a winner whose rating is `lead` above the loser's gains.
Gain(lead) == Cardinality({k \in 1..K_FACTOR : lead <= Margins[k]})

\* compute_rating_changes rounds winner_rating + gain and loser_rating - gain one by
\* one.  No gain is a half (10 ^ (lead / 400) is rational only for multiples of 400),
\* so each rounds to the rating plus or minus the rounded gain.
Raised(winner, loser) == winner + Gain(winner - loser)
Lowered(winner, loser) == loser - Gain(winner - loser)

\* A row of elo_ratings, and the one an insert with defaults makes.
Rows == [rating : Int, wins : Nat, losses : Nat]
NewRow == [rating |-> DEFAULT_RATING, wins |-> 0, losses |-> 0]
================================================================================

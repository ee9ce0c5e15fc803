---------------------------- MODULE MCMatchmaking ----------------------------
(* Matchmaking among a few users whose ratings tell near from far.            *)
EXTENDS Matchmaking

CONSTANTS a, b, c, d

\* a and b are close; c, and farther away d, need a wider range.
MCRating ==
    [u \in User |-> CASE u = a -> 3 [] u = b -> 4 [] u = c -> 6 [] OTHER -> 7]
==============================================================================

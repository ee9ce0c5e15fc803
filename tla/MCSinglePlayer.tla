--------------------------- MODULE MCSinglePlayer ---------------------------
(* A user u with a win and a loss in a window of one game, and a user v with *)
(* a faster win and a retry of it, on a leaderboard that is full.            *)
EXTENDS SinglePlayer

CONSTANTS u1, u2, v1, v2, u, v, g1, g2, h

MCUserOf == [t \in Request |-> IF t \in {v1, v2} THEN v ELSE u]

MCGameOf == [t \in Request |-> CASE t = u1 -> g1 [] t = u2 -> g2 [] OTHER -> h]

MCWinTime == [t \in Request |-> CASE t = u1 -> 3 [] t = u2 -> 0 [] OTHER -> 1]
=============================================================================

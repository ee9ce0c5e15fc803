--------------------------- MODULE MCSolverTiers ----------------------------
(* SolverTiers on every board of 3 x 4 cells with three mines and the start in *)
(* a corner, and on one board of 4 x 5 cells.                                  *)
EXTENDS SolverTiers

MCStart == <<1, 1>>
MCBoards == RandomBoards

MCLowerStart == <<4, 3>>
MCOneBoard == {{<<1, 2>>, <<1, 4>>, <<2, 4>>, <<3, 1>>, <<3, 5>>}}
=============================================================================

------------------------------- MODULE MCMatch -------------------------------
(* Match on small instances: one connection for each player, or two.          *)
EXTENDS Match, TLC

CONSTANTS s1, s2, s3

MCOwner == [s \in Socket |-> IF s = s2 THEN Player2 ELSE Player1]

\* The two connections of Player1 are interchangeable: safety properties only.
MCSymmetry == Permutations({s1, s3})
==============================================================================

----------------------------- MODULE MCBotGame ------------------------------
(* A small board with the start in a corner, so that the safe zone leaves      *)
(* eight cells for the mines: bots must guess on some boards and not on       *)
(* others, and each region occurs.                                            *)
EXTENDS BotGame

MCStart == <<1, 1>>
=============================================================================

---------------------------- MODULE MCBotMatching ----------------------------
(* Matchmaking of two humans with one or two bots of the same rating.         *)
EXTENDS BotMatching

CONSTANTS a, b, x, y

MCRating == [u \in User |-> 3]
==============================================================================

----------------------------- MODULE GameResults -----------------------------
(***************************************************************************)
(* What a match promises about its games, without sockets or threads: the  *)
(* games are played one after the other; each is begun and then won by one *)
(* player, or abandoned before it began; only a game that was won can be   *)
(* followed by a rematch, and it is counted at most once in each of the    *)
(* two result tables, for the player who won it.                           *)
(***************************************************************************)
EXTENDS Naturals

CONSTANTS Player, MaxGames

VARIABLES
    current,    \* the number of the game being played
    verdict,    \* what became of each game
    elo, h2h    \* the wins counted for each game and player in each table

vars == <<current, verdict, elo, h2h>>

Game == 1..MaxGames
Waiting == "waiting"
Underway == "running"
Abandoned == "void"

Init ==
    /\ current = 1
    /\ verdict = [g \in Game |-> Waiting]
    /\ elo = [g \in Game |-> [p \in Player |-> 0]]
    /\ h2h = [g \in Game |-> [p \in Player |-> 0]]

Begin ==
    /\ verdict[current] = Waiting
    /\ verdict' = [verdict EXCEPT ![current] = Underway]
    /\ UNCHANGED <<current, elo, h2h>>

Abandon ==
    /\ verdict[current] = Waiting
    /\ verdict' = [verdict EXCEPT ![current] = Abandoned]
    /\ UNCHANGED <<current, elo, h2h>>

Win(p) ==
    /\ verdict[current] = Underway
    /\ verdict' = [verdict EXCEPT ![current] = p]
    /\ UNCHANGED <<current, elo, h2h>>

Rematch ==
    /\ verdict[current] \in Player
    /\ current < MaxGames
    /\ current' = current + 1
    /\ UNCHANGED <<verdict, elo, h2h>>

CountElo(g, p) ==
    /\ verdict[g] = p /\ elo[g][p] = 0
    /\ elo' = [elo EXCEPT ![g][p] = 1]
    /\ UNCHANGED <<current, verdict, h2h>>

CountHeadToHead(g, p) ==
    /\ verdict[g] = p /\ h2h[g][p] = 0
    /\ h2h' = [h2h EXCEPT ![g][p] = 1]
    /\ UNCHANGED <<current, verdict, elo>>

Next ==
    \/ Begin \/ Abandon \/ Rematch
    \/ \E p \in Player :
          \/ Win(p)
          \/ \E g \in Game : CountElo(g, p) \/ CountHeadToHead(g, p)

Spec == Init /\ [][Next]_vars
==============================================================================

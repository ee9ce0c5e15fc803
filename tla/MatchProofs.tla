----------------------------- MODULE MatchProofs -----------------------------
(***************************************************************************)
(* Match, proved for every bound and every discipline of the clients that  *)
(* Match allows.  For any set of connections: the type invariant, and that *)
(* a result is recorded at most once in each table and for the player who  *)
(* won it; in a match of one game, that whoever is told a winner is told   *)
(* the one that was decided.  When each player has one connection: that    *)
(* both play the same board, that counts and verdicts are of the current   *)
(* game, that a rematch takes both players, and that Match implements      *)
(* GameResults.                                                            *)
(***************************************************************************)
EXTENDS Match, FiniteSetTheorems, TLAPS

USE DEF Message, Handling, Running, Phase

\* What a client hears is a client state again.
LEMMA HearType ==
    ASSUME NEW c \in Client, NEW b \in Run \cup {None}, NEW w \in Player
    PROVE  /\ HearStart(c, b) \in Client
           /\ HearOver(c, w) \in Client
           /\ HearAccepted(c) \in Client
           /\ HearOff(c) \in Client
           /\ HearLeft(c) \in Client
  <1>1. HearStart(c, b) \in Client
    BY DEF Client, HearStart
  <1>2. HearOver(c, w) \in Client
    BY DEF Client, HearOver
  <1>3. HearAccepted(c) \in Client
    BY DEF Client, HearAccepted
  <1>4. HearOff(c) \in Client
    BY DEF Client, HearOff
  <1>5. HearLeft(c) \in Client
    BY DEF Client, HearLeft
  <1>6. QED
    BY <1>1, <1>2, <1>3, <1>4, <1>5

LEMMA NewClientType == NewClient \in Client
  BY BoundAssumption DEF Client, NewClient

\* Sending a well-typed view leaves the clients well typed.
LEMMA SendType ==
    ASSUME client \in [Socket -> Client], NEW s \in Socket \cup {None},
           NEW view \in Client, Send(s, view)
    PROVE  client' \in [Socket -> Client]
  BY SocketAssumption DEF Send

LEMMA AtType ==
    ASSUME client \in [Socket -> Client], NEW s \in Socket \cup {None}
    PROVE  At(s) \in Client
  BY NewClientType DEF At

LEMMA StartRunType ==
    ASSUME rpc \in [Run -> Running], StartRun
    PROVE  rpc' \in [Run -> Running]
  BY DEF StartRun

LEMMA OpponentType ==
    ASSUME NEW p \in Player
    PROVE  Opponent(p) \in Player /\ Opponent(p) # p
  BY PlayerAssumption DEF Opponent, Player

LEMMA RecordType ==
    ASSUME NEW s \in Socket, NEW table \in [Game -> [Player -> Nat]],
           verdictOf[s] \in Game, NEW new \in Record(s, table)
    PROVE  new \in [Game -> [Player -> Nat]]
  <1>1. Winner(s) \in Player
    BY SocketAssumption, OpponentType DEF Winner
  <1>2. [table EXCEPT ![verdictOf[s]][Winner(s)] = @ + 1] \in [Game -> [Player -> Nat]]
    BY <1>1
  <1>3. QED
    BY <1>2 DEF Record

\* A client that speaks keeps the channels and the clients well typed.
LEMMA SayType ==
    ASSUME TypeOK, NEW s \in Socket, NEW m \in Message, NEW c \in Client, Say(s, m, c)
    PROVE  TypeOK'
  <1>1. client' \in [Socket -> Client]
    BY DEF Say, TypeOK
  <1>2. inbox' \in [Socket -> Seq(Message)]
    BY DEF Say, TypeOK
  <1>3. QED
    BY <1>1, <1>2 DEF Say, TypeOK, fields, outside, handlers, runs, history

LEMMA ReceiveType ==
    ASSUME TypeOK, NEW s \in Socket, NEW m, Receive(s, m)
    PROVE  inbox' \in [Socket -> Seq(Message)]
  BY DEF Receive, TypeOK

\* The steps of a client.
LEMMA ClientStepType ==
    ASSUME TypeOK, NEW s \in Socket, ClientStep(s)
    PROVE  TypeOK'
  <1>1. client[s] \in Client
    BY DEF TypeOK
  <1>2. CASE Reveal(s)
    <2>1. [client[s] EXCEPT !.made = @ + 1] \in Client
      BY <1>1, <1>2, BoundAssumption DEF Reveal, Client
    <2>2. QED
      BY <1>2, <2>1, SayType DEF Reveal
  <1>3. CASE Solve(s)
    <2>1. [client[s] EXCEPT !.phase = "solved"] \in Client
      BY <1>1 DEF Client
    <2>2. QED
      BY <1>3, <2>1, SayType DEF Solve
  <1>4. CASE AskRematch(s)
    <2>1. [client[s] EXCEPT !.asked = TRUE] \in Client
      BY <1>1 DEF Client
    <2>2. QED
      BY <1>4, <2>1, SayType DEF AskRematch
  <1>5. CASE RefuseRematch(s)
    <2>1. [client[s] EXCEPT !.refused = TRUE] \in Client
      BY <1>1 DEF Client
    <2>2. QED
      BY <1>5, <2>1, SayType DEF RefuseRematch
  <1>6. CASE Leave(s)
    <2>1. [NewClient EXCEPT !.phase = "closed", !.asked = client[s].asked] \in Client
      BY <1>1, NewClientType DEF Client
    <2>2. client' \in [Socket -> Client]
      BY <1>6, <2>1 DEF Leave, TypeOK
    <2>3. QED
      BY <1>6, <2>2 DEF Leave, TypeOK, fields, outside, handlers, runs, history
  <1>7. QED
    BY <1>2, <1>3, <1>4, <1>5, <1>6 DEF ClientStep

LEMMA AddConnectionType ==
    ASSUME TypeOK, NEW s \in Socket, AddConnection(s)
    PROVE  TypeOK'
  <1>1. client' \in [Socket -> Client]
    <2>1. [client[s] EXCEPT !.phase = "lobby"] \in Client
      <3>1. client[s] \in Client
        BY DEF TypeOK
      <3>2. QED
        BY <3>1 DEF Client
    <2>2. QED
      BY <2>1 DEF AddConnection, TypeOK
  <1>2. connections' \in [Player -> Socket \cup {None}]
    BY SocketAssumption DEF AddConnection, TypeOK
  <1>3. pc' \in [Socket -> Handling]
    BY DEF AddConnection, TypeOK
  <1>4. rpc' \in [Run -> Running]
    BY StartRunType DEF AddConnection, TypeOK
  <1>5. QED
    BY <1>1, <1>2, <1>3, <1>4 DEF AddConnection, TypeOK, outside, history

\* The steps of a handler that send a message.
LEMMA HandlerSendType ==
    ASSUME TypeOK, NEW s \in Socket,
           \/ SendGameOver(s) \/ SendRematchAccepted(s) \/ SendRematchDeclined(s)
           \/ SendOff(s) \/ SendOpponentDisconnected(s)
    PROVE  TypeOK'
  <1> USE DEF TypeOK, fields, outside, runs, history
  <1>1. CASE SendGameOver(s)
    <2>1. PICK p \in todo[s] :
              /\ Send(connections[p], HearOver(At(connections[p]), Owner[s]))
              /\ todo' = [todo EXCEPT ![s] = @ \ {p}]
              /\ pc' = IF todo[s] = {p} THEN [pc EXCEPT ![s] = "score"] ELSE pc
      BY <1>1 DEF SendGameOver
    <2>2. connections[p] \in Socket \cup {None} /\ Owner[s] \in Player
      BY SocketAssumption
    <2>3. client' \in [Socket -> Client]
      BY <2>1, <2>2, SendType, AtType, HearType
    <2>4. QED
      BY <1>1, <2>1, <2>3 DEF SendGameOver
  <1>2. CASE SendRematchAccepted(s)
    <2>1. PICK p \in todo[s] :
              /\ Send(connections[p], HearAccepted(At(connections[p])))
              /\ todo' = [todo EXCEPT ![s] = @ \ {p}]
              /\ pc' = IF todo[s] = {p} THEN [pc EXCEPT ![s] = "reset"] ELSE pc
      BY <1>2 DEF SendRematchAccepted
    <2>2. connections[p] \in Socket \cup {None} /\ Owner[s] \in Player
      BY SocketAssumption
    <2>3. client' \in [Socket -> Client]
      BY <2>1, <2>2, SendType, AtType, HearType
    <2>4. QED
      BY <1>2, <2>1, <2>3 DEF SendRematchAccepted
  <1>3. CASE SendRematchDeclined(s)
    <2>1. connections[Opponent(Owner[s])] \in Socket \cup {None} /\ Owner[s] \in Player
      BY SocketAssumption, OpponentType
    <2>2. client' \in [Socket -> Client]
      BY <1>3, <2>1, SendType, AtType, HearType DEF SendRematchDeclined
    <2>3. QED
      BY <1>3, <2>2 DEF SendRematchDeclined
  <1>4. CASE SendOff(s)
    <2>1. peer[s] \in Socket \cup {None} /\ Owner[s] \in Player
      BY SocketAssumption
    <2>2. client' \in [Socket -> Client]
      BY <1>4, <2>1, SendType, AtType, HearType DEF SendOff
    <2>3. QED
      BY <1>4, <2>2 DEF SendOff
  <1>5. CASE SendOpponentDisconnected(s)
    <2>1. peer[s] \in Socket \cup {None} /\ Owner[s] \in Player
      BY SocketAssumption
    <2>2. client' \in [Socket -> Client]
      BY <1>5, <2>1, SendType, AtType, HearType DEF SendOpponentDisconnected
    <2>3. QED
      BY <1>5, <2>2 DEF SendOpponentDisconnected
  <1>6. QED
    BY <1>1, <1>2, <1>3, <1>4, <1>5

\* The steps of a handler that write to the match or to the database.
LEMMA HandlerWriteType ==
    ASSUME TypeOK, NEW s \in Socket,
           \/ HandleReveal(s) \/ IgnoreCompletion(s) \/ HandleCompletion(s)
           \/ UpdateElo(s) \/ RecordHeadToHead(s) \/ HandleRematchRequest(s)
           \/ ResetForRematch(s) \/ HandleRematchDecline(s)
           \/ HandleDisconnect(s) \/ SetOnline(s)
    PROVE  TypeOK'
  <1> USE DEF TypeOK, fields, outside, handlers, runs, clients, history
  <1>0. /\ Owner[s] \in Player
        /\ Opponent(Owner[s]) \in Player
    BY SocketAssumption, OpponentType
  <1>1. CASE HandleReveal(s)
    <2>1. counts' \in [Player -> Nat]
      <3>1. [counts EXCEPT ![Owner[s]] = @ + 1] \in [Player -> Nat]
        BY <1>0
      <3>2. QED
        BY <1>1, <3>1 DEF HandleReveal
    <2>2. QED
      BY <1>1, <2>1, ReceiveType DEF HandleReveal
  <1>2. CASE IgnoreCompletion(s)
    BY <1>2, ReceiveType DEF IgnoreCompletion
  <1>3. CASE HandleCompletion(s)
    <2>1. decided' \in [Game -> Player \cup {Undecided, Void}]
      BY <1>0, <1>3 DEF HandleCompletion
    <2>2. QED
      BY <1>3, <2>1, ReceiveType DEF HandleCompletion
  <1>4. CASE UpdateElo(s)
    <2>1. elo' \in [Game -> [Player -> Nat]]
      BY <1>4, RecordType DEF UpdateElo
    <2>2. todo' \in [Socket -> SUBSET Player]
      <3>1. [todo EXCEPT ![s] = Recipients(s)] \in [Socket -> SUBSET Player]
        BY DEF Recipients, Connected
      <3>2. QED
        BY <1>4, <3>1 DEF UpdateElo
    <2>3. pc' \in [Socket -> Handling]
      BY <1>4 DEF UpdateElo
    <2>4. QED
      BY <1>4, <2>1, <2>2, <2>3 DEF UpdateElo
  <1>5. CASE RecordHeadToHead(s)
    <2>1. h2h' \in [Game -> [Player -> Nat]]
      BY <1>5, RecordType DEF RecordHeadToHead
    <2>2. QED
      BY <1>5, <2>1 DEF RecordHeadToHead
  <1>6. CASE HandleRematchRequest(s)
    <2>1. requests' \subseteq Player
      BY <1>0, <1>6 DEF HandleRematchRequest
    <2>2. todo' \in [Socket -> SUBSET Player]
      BY <1>6 DEF HandleRematchRequest, Connected
    <2>3. pc' \in [Socket -> Handling]
      BY <1>6 DEF HandleRematchRequest
    <2>4. QED
      BY <1>6, <2>1, <2>2, <2>3, ReceiveType DEF HandleRematchRequest
  <1>7. CASE ResetForRematch(s)
    <2>1. rpc' \in [Run -> Running]
      BY <1>7, StartRunType DEF ResetForRematch
    <2>2. game' \in Game
      BY <1>7, BoundAssumption DEF ResetForRematch, Game
    <2>3. QED
      BY <1>7, <2>1, <2>2 DEF ResetForRematch, FreshCounts, NoRequests
  <1>8. CASE HandleRematchDecline(s)
    <2>1. declined' \in BOOLEAN
      BY <1>8 DEF HandleRematchDecline
    <2>2. pc' \in [Socket -> Handling]
      BY <1>8 DEF HandleRematchDecline
    <2>3. QED
      BY <1>8, <2>1, <2>2, ReceiveType DEF HandleRematchDecline
  <1>9. CASE HandleDisconnect(s)
    <2>1. inbox' \in [Socket -> Seq(Message)]
      BY <1>9 DEF HandleDisconnect
    <2>2. peer' \in [Socket -> Socket \cup {None}]
      BY <1>0, <1>9 DEF HandleDisconnect
    <2>3. pc' \in [Socket -> Handling]
      <3>1. PICK x \in Handling : pc' = [pc EXCEPT ![s] = x]
        BY <1>9 DEF HandleDisconnect, AfterDisconnect
      <3>2. QED
        BY <3>1
    <2>4. /\ decided' \in [Game -> Player \cup {Undecided, Void}]
          /\ verdictOf' \in [Socket -> Game]
      BY <1>0, <1>9 DEF HandleDisconnect, DisconnectVerdict
    <2>5. QED
      BY <1>9, <2>1, <2>2, <2>3, <2>4 DEF HandleDisconnect
  <1>10. CASE SetOnline(s)
    BY <1>10 DEF SetOnline
  <1>11. QED
    BY <1>1, <1>2, <1>3, <1>4, <1>5, <1>6, <1>7, <1>8, <1>9, <1>10

\* The steps of a _run_match thread.
LEMMA RunMatchType ==
    ASSUME TypeOK, NEW r \in Run, RunMatch(r)
    PROVE  TypeOK'
  <1> USE DEF TypeOK, fields, outside, handlers, clients, history
  <1>1. CASE FetchBoard(r)
    BY <1>1 DEF FetchBoard, Connected
  <1>2. CASE FetchFails(r)
    BY <1>2 DEF FetchFails
  <1>3. CASE SendMatchFound(r)
    <2>1. PICK p \in rtodo[r] :
              /\ Send(connections[p], HearFound(At(connections[p])))
              /\ rtodo' = [rtodo EXCEPT ![r] = @ \ {p}]
              /\ rpc' = IF rtodo[r] = {p} THEN [rpc EXCEPT ![r] = "mark"] ELSE rpc
      BY <1>3 DEF SendMatchFound
    <2>2. connections[p] \in Socket \cup {None}
      OBVIOUS
    <2>3. HearFound(At(connections[p])) \in Client
      BY NewClientType DEF HearFound, Client
    <2>4. client' \in [Socket -> Client]
      BY <2>1, <2>2, <2>3, SendType
    <2>5. QED
      BY <1>3, <2>1, <2>4 DEF SendMatchFound
  <1>4. CASE MarkInGame(r)
    BY <1>4 DEF MarkInGame
  <1>5. CASE StartGame(r)
    BY <1>5 DEF StartGame, Connected
  <1>6. CASE SendGameStart(r)
    <2>1. PICK p \in rtodo[r] :
              /\ Send(connections[p], HearStart(At(connections[p]), r))
              /\ rtodo' = [rtodo EXCEPT ![r] = @ \ {p}]
              /\ rpc' = IF rtodo[r] = {p} THEN [rpc EXCEPT ![r] = "ended"] ELSE rpc
      BY <1>6 DEF SendGameStart
    <2>2. connections[p] \in Socket \cup {None}
      OBVIOUS
    <2>3. client' \in [Socket -> Client]
      BY <2>1, <2>2, SendType, AtType, HearType, PlayerAssumption DEF Player
    <2>4. QED
      BY <1>6, <2>1, <2>3 DEF SendGameStart
  <1>7. QED
    BY <1>1, <1>2, <1>3, <1>4, <1>5, <1>6 DEF RunMatch

LEMMA InitType == Init => TypeOK
  <1> SUFFICES ASSUME Init PROVE TypeOK
    OBVIOUS
  <1> USE DEF Init
  <1>1. 1 \in Game
    BY BoundAssumption DEF Game
  <1>2. /\ elo \in [Game -> [Player -> Nat]] /\ h2h \in [Game -> [Player -> Nat]]
        /\ counts \in [Player -> Nat]
    OBVIOUS
  <1>3. /\ inbox \in [Socket -> Seq(Message)]
        /\ client \in [Socket -> Client]
    BY NewClientType
  <1>4. /\ connections \in [Player -> Socket \cup {None}]
        /\ status \in [Player -> {"online", "in_game"}]
        /\ pc \in [Socket -> Handling] /\ rpc \in [Run -> Running]
        /\ todo \in [Socket -> SUBSET Player]
        /\ peer \in [Socket -> Socket \cup {None}]
        /\ rtodo \in [Run -> SUBSET Player]
    OBVIOUS
  <1>5. /\ decided \in [Game -> Player \cup {Undecided, Void}]
        /\ verdictOf \in [Socket -> Game]
    BY <1>1
  <1>6. QED
    BY <1>1, <1>2, <1>3, <1>4, <1>5 DEF TypeOK

LEMMA TypeStep == TypeOK /\ [Next]_vars => TypeOK'
  <1> SUFFICES ASSUME TypeOK, [Next]_vars PROVE TypeOK'
    OBVIOUS
  <1>1. CASE Next
    BY <1>1, ClientStepType, AddConnectionType, HandlerSendType, HandlerWriteType,
       RunMatchType DEF Next, Handle
  <1>2. CASE UNCHANGED vars
    BY <1>2 DEF vars, fields, outside, handlers, runs, clients, history, TypeOK
  <1>3. QED
    BY <1>1, <1>2

\* TypeOK: every variable of the match keeps its type, for every number of
\* connections, games and threads.
THEOREM TypeCorrect == Spec => []TypeOK
  BY InitType, TypeStep, PTL DEF Spec

------------------------------------------------------------------------------
(* A result is recorded once.                                                *)

\* Steps that decide nothing, record nothing and end no game keep ResultInv: a
\* handler may only leave the recording part, or go on from game_over to the
\* head-to-head table.
LEMMA ResultFrame ==
    ASSUME ResultInv, UNCHANGED <<game, decided, finished, elo, h2h, verdictOf>>,
           \A s \in Socket : \/ pc'[s] = pc[s]
                             \/ pc'[s] \notin Recording
                             \/ pc[s] = "tell" /\ pc'[s] = "score"
    PROVE  ResultInv'
  <1> USE DEF ResultInv, Recording, Unrated, Unscored
  <1>1. ResultOnce'
    BY DEF ResultOnce
  <1>2. \A s \in Socket : pc'[s] \in Recording => pc[s] \in Recording /\ Winner(s)' = Winner(s)
    BY DEF Winner
  <1>3. \A s \in Socket, p \in Player :
          /\ pc'[s] \in Unrated => elo[verdictOf[s]][p] = 0
          /\ pc'[s] \in Unscored => h2h[verdictOf[s]][p] = 0
    OBVIOUS
  <1>4. QED
    BY <1>1, <1>2, <1>3

\* A handler that decides the current game, which was undecided, for its winner w.
LEMMA ResultDecide ==
    ASSUME TypeOK, ResultInv, NEW s \in Socket, NEW w \in Player \cup {Void},
           ~finished, finished',
           pc[s] = "recv",
           \/ pc' = [pc EXCEPT ![s] = "rate"] /\ w = Owner[s]
           \/ pc' = [pc EXCEPT ![s] = "dscore"] /\ w = Opponent(Owner[s])
           \/ pc' = [pc EXCEPT ![s] = "left"],
           decided' = [decided EXCEPT ![game] = w],
           verdictOf' = [verdictOf EXCEPT ![s] = game],
           UNCHANGED <<game, elo, h2h>>
    PROVE  ResultInv'
  <1> DEFINE DecidedElsewhere(t) == t # s /\ pc[t] \in Recording
  <1>1. decided[game] = Undecided /\ game \in Game
    BY DEF ResultInv, TypeOK
  <1>2. \A p \in Player : elo[game][p] = 0 /\ h2h[game][p] = 0
    <2> SUFFICES ASSUME NEW p \in Player PROVE elo[game][p] = 0 /\ h2h[game][p] = 0
      OBVIOUS
    <2>1. elo[game][p] \in Nat /\ h2h[game][p] \in Nat
      BY <1>1 DEF TypeOK
    <2>2. elo[game][p] + h2h[game][p] > 0 => decided[game] = p
      BY <1>1 DEF ResultInv, ResultOnce
    <2>3. p # Undecided
      BY PlayerAssumption
    <2>4. QED
      BY <1>1, <2>1, <2>2, <2>3
  <1>3. \A g \in Game : g # game => decided'[g] = decided[g]
    BY DEF TypeOK
  <1>4. /\ verdictOf'[s] = game /\ decided'[game] = w
        /\ \A t \in Socket \ {s} : verdictOf'[t] = verdictOf[t] /\ pc'[t] = pc[t]
    BY <1>1 DEF TypeOK
  <1>5. \A t \in Socket : DecidedElsewhere(t) => verdictOf[t] # game
    <2> SUFFICES ASSUME NEW t \in Socket, pc[t] \in Recording, verdictOf[t] = game
                 PROVE  FALSE
      OBVIOUS
    <2>1. decided[game] = Winner(t)
      BY DEF ResultInv
    <2>2. Winner(t) \in Player
      BY SocketAssumption, OpponentType DEF Winner
    <2>3. QED
      BY <1>1, <2>1, <2>2, PlayerAssumption
  <1>6. pc'[s] \in Recording => Winner(s)' = w
    BY DEF TypeOK, Recording, Winner
  <1>7. \A t \in Socket \ {s} : Winner(t)' = Winner(t)
    BY <1>4 DEF Winner
  <1>8. \A g \in Game : g > game => decided'[g] = Undecided
    BY <1>1, <1>3 DEF ResultInv, Game
  <1>9. \A t \in Socket : pc'[t] \in Recording => decided'[verdictOf'[t]] = Winner(t)'
    <2> SUFFICES ASSUME NEW t \in Socket, pc'[t] \in Recording
                 PROVE  decided'[verdictOf'[t]] = Winner(t)'
      OBVIOUS
    <2>1. CASE t = s
      BY <2>1, <1>4, <1>6
    <2>2. CASE t # s
      <3>1. verdictOf[t] # game /\ verdictOf[t] \in Game
        BY <2>2, <1>4, <1>5 DEF TypeOK
      <3>2. decided[verdictOf[t]] = Winner(t)
        BY <2>2, <1>4 DEF ResultInv
      <3>3. QED
        BY <2>2, <3>1, <3>2, <1>3, <1>4, <1>7
    <2>3. QED
      BY <2>1, <2>2
  <1>10. \A t \in Socket, p \in Player :
            /\ pc'[t] \in Unrated => elo'[verdictOf'[t]][p] = 0
            /\ pc'[t] \in Unscored => h2h'[verdictOf'[t]][p] = 0
    <2> SUFFICES ASSUME NEW t \in Socket, NEW p \in Player
                 PROVE  /\ pc'[t] \in Unrated => elo[verdictOf'[t]][p] = 0
                        /\ pc'[t] \in Unscored => h2h[verdictOf'[t]][p] = 0
      OBVIOUS
    <2>1. CASE t = s
      BY <2>1, <1>2, <1>4
    <2>2. CASE t # s
      BY <2>2, <1>4 DEF ResultInv
    <2>3. QED
      BY <2>1, <2>2
  <1>11. \A t, u \in Socket :
            t # u /\ {pc'[t], pc'[u]} \subseteq Recording => verdictOf'[t] # verdictOf'[u]
    BY <1>4, <1>5 DEF ResultInv
  <1>12. ResultOnce'
    <2> SUFFICES ASSUME NEW g \in Game, NEW p \in Player
                 PROVE  /\ elo[g][p] <= 1 /\ h2h[g][p] <= 1
                        /\ elo[g][p] + h2h[g][p] > 0 => decided'[g] = p
      BY DEF ResultOnce
    <2>1. CASE g = game
      BY <2>1, <1>2
    <2>2. CASE g # game
      BY <2>2, <1>3 DEF ResultInv, ResultOnce
    <2>3. QED
      BY <2>1, <2>2
  <1>13. QED
    BY <1>8, <1>9, <1>10, <1>11, <1>12 DEF ResultInv

\* Counting the first win of a game changes one entry of the table, to 1.
LEMMA FirstWin ==
    ASSUME NEW table \in [Game -> [Player -> Nat]], NEW v \in Game, NEW w \in Player,
           table[v][w] = 0,
           NEW new \in {table, [table EXCEPT ![v][w] = @ + 1]}
    PROVE  \A g \in Game, p \in Player :
              new[g][p] = table[g][p] \/ (g = v /\ p = w /\ new[g][p] = 1)
  <1>1. CASE new = table
    BY <1>1
  <1>2. CASE new = [table EXCEPT ![v][w] = @ + 1]
    <2>1. \A g \in Game \ {v} : new[g] = table[g]
      BY <1>2
    <2>2. new[v] = [table[v] EXCEPT ![w] = 1]
      BY <1>2
    <2>3. \A g \in Game : table[g] \in [Player -> Nat]
      OBVIOUS
    <2>4. QED
      BY <2>1, <2>2, <2>3
  <1>3. QED
    BY <1>1, <1>2

\* A handler that has not yet written to a table writes to it at most once.
LEMMA ResultRecord ==
    ASSUME TypeOK, ResultInv, NEW s \in Socket, UpdateElo(s) \/ RecordHeadToHead(s)
    PROVE  ResultInv'
  <1> DEFINE v == verdictOf[s]
             w == Winner(s)
  <1> USE DEF Unrated, Unscored, Recording
  <1>1. /\ v \in Game /\ w \in Player
        /\ decided[v] = w
        /\ UNCHANGED <<game, decided, finished, verdictOf>>
    BY SocketAssumption, OpponentType
       DEF ResultInv, TypeOK, Winner, UpdateElo, RecordHeadToHead, fields, history
  <1>2. \A t \in Socket \ {s} :
           /\ pc'[t] = pc[t] /\ Winner(t)' = Winner(t)
           /\ pc[t] \in Recording => verdictOf[t] # v
    BY DEF UpdateElo, RecordHeadToHead, TypeOK, ResultInv, Winner
  <1>3. pc'[s] \in Recording => Winner(s)' = w
    BY DEF UpdateElo, RecordHeadToHead, TypeOK, Winner
  <1>4. CASE UpdateElo(s)
    <2>1. elo[v][w] = 0 /\ h2h' = h2h
      BY <1>4, <1>1 DEF UpdateElo, ResultInv
    <2>2. pc'[s] \notin Unrated /\ (pc'[s] \in Unscored => pc[s] \in Unscored)
      BY <1>4 DEF UpdateElo, TypeOK
    <2>3. elo' \in {elo, [elo EXCEPT ![v][w] = @ + 1]}
      BY <1>4 DEF UpdateElo, Record
    <2>4. \A g \in Game, p \in Player :
             elo'[g][p] = elo[g][p] \/ (g = v /\ p = w /\ elo'[g][p] = 1)
      <3>1. elo \in [Game -> [Player -> Nat]]
        BY DEF TypeOK
      <3> HIDE DEF v, w
      <3>2. QED
        BY <3>1, <1>1, <2>1, <2>3, FirstWin
    <2>5. ResultOnce'
      <3> SUFFICES ASSUME NEW g \in Game, NEW p \in Player
                   PROVE  /\ elo'[g][p] <= 1 /\ h2h'[g][p] <= 1
                          /\ elo'[g][p] + h2h'[g][p] > 0 => decided'[g] = p
        BY DEF ResultOnce
      <3>1. /\ elo[g][p] <= 1 /\ h2h[g][p] <= 1
            /\ elo[g][p] + h2h[g][p] > 0 => decided[g] = p
        BY DEF ResultInv, ResultOnce
      <3>2. QED
        BY <3>1, <1>1, <2>1, <2>4
    <2>6. \A t \in Socket, p \in Player :
             /\ pc'[t] \in Unrated => elo'[verdictOf[t]][p] = 0
             /\ pc'[t] \in Unscored => h2h'[verdictOf[t]][p] = 0
      <3> SUFFICES ASSUME NEW t \in Socket, NEW p \in Player
                   PROVE  /\ pc'[t] \in Unrated => elo'[verdictOf[t]][p] = 0
                          /\ pc'[t] \in Unscored => h2h'[verdictOf[t]][p] = 0
        OBVIOUS
      <3>1. verdictOf[t] \in Game
        BY DEF TypeOK
      <3>2. CASE t = s
        BY <3>2, <2>1, <2>2 DEF ResultInv
      <3>3. CASE t # s
        <4>1. pc'[t] \in Unrated => elo[verdictOf[t]][p] = 0
          BY <3>3, <1>2 DEF ResultInv
        <4>2. pc'[t] \in Unscored => h2h[verdictOf[t]][p] = 0
          BY <3>3, <1>2 DEF ResultInv
        <4>3. pc'[t] \in Recording => verdictOf[t] # v
          BY <3>3, <1>2
        <4>4. QED
          BY <4>1, <4>2, <4>3, <3>1, <2>1, <2>4
      <3>4. QED
        BY <3>2, <3>3
    <2>7. pc[s] \in Recording
      BY <1>4 DEF UpdateElo
    <2>8. QED
      BY <1>1, <1>2, <1>3, <2>5, <2>6, <2>7 DEF ResultInv
  <1>5. CASE RecordHeadToHead(s)
    <2>1. h2h[v][w] = 0 /\ elo' = elo
      BY <1>5, <1>1 DEF RecordHeadToHead, ResultInv
    <2>2. pc'[s] \notin Unscored /\ (pc'[s] \in Unrated => pc[s] \in Unrated)
      BY <1>5 DEF RecordHeadToHead, TypeOK
    <2>3. h2h' \in {h2h, [h2h EXCEPT ![v][w] = @ + 1]}
      BY <1>5 DEF RecordHeadToHead, Record
    <2>4. \A g \in Game, p \in Player :
             h2h'[g][p] = h2h[g][p] \/ (g = v /\ p = w /\ h2h'[g][p] = 1)
      <3>1. h2h \in [Game -> [Player -> Nat]]
        BY DEF TypeOK
      <3> HIDE DEF v, w
      <3>2. QED
        BY <3>1, <1>1, <2>1, <2>3, FirstWin
    <2>5. ResultOnce'
      <3> SUFFICES ASSUME NEW g \in Game, NEW p \in Player
                   PROVE  /\ elo'[g][p] <= 1 /\ h2h'[g][p] <= 1
                          /\ elo'[g][p] + h2h'[g][p] > 0 => decided'[g] = p
        BY DEF ResultOnce
      <3>1. /\ elo[g][p] <= 1 /\ h2h[g][p] <= 1
            /\ elo[g][p] + h2h[g][p] > 0 => decided[g] = p
        BY DEF ResultInv, ResultOnce
      <3>2. QED
        BY <3>1, <1>1, <2>1, <2>4
    <2>6. \A t \in Socket, p \in Player :
             /\ pc'[t] \in Unrated => elo'[verdictOf[t]][p] = 0
             /\ pc'[t] \in Unscored => h2h'[verdictOf[t]][p] = 0
      <3> SUFFICES ASSUME NEW t \in Socket, NEW p \in Player
                   PROVE  /\ pc'[t] \in Unrated => elo'[verdictOf[t]][p] = 0
                          /\ pc'[t] \in Unscored => h2h'[verdictOf[t]][p] = 0
        OBVIOUS
      <3>1. verdictOf[t] \in Game
        BY DEF TypeOK
      <3>2. CASE t = s
        BY <3>2, <2>1, <2>2 DEF ResultInv
      <3>3. CASE t # s
        <4>1. pc'[t] \in Unrated => elo[verdictOf[t]][p] = 0
          BY <3>3, <1>2 DEF ResultInv
        <4>2. pc'[t] \in Unscored => h2h[verdictOf[t]][p] = 0
          BY <3>3, <1>2 DEF ResultInv
        <4>3. pc'[t] \in Recording => verdictOf[t] # v
          BY <3>3, <1>2
        <4>4. QED
          BY <4>1, <4>2, <4>3, <3>1, <2>1, <2>4
      <3>4. QED
        BY <3>2, <3>3
    <2>7. pc[s] \in Recording
      BY <1>5 DEF RecordHeadToHead
    <2>8. QED
      BY <1>1, <1>2, <1>3, <2>5, <2>6, <2>7 DEF ResultInv
  <1>6. QED
    BY <1>4, <1>5

\* The next game is undecided, so ending the current one changes no verdict.
LEMMA ResultReset ==
    ASSUME TypeOK, ResultInv, NEW s \in Socket, ResetForRematch(s)
    PROVE  ResultInv'
  <1>1. /\ game' = game + 1 /\ game' \in Game /\ game \in Game
        /\ UNCHANGED <<decided, elo, h2h, verdictOf>>
    BY BoundAssumption DEF ResetForRematch, outside, TypeOK, Game
  <1>2. decided'[game'] = Undecided
    BY <1>1 DEF ResultInv, Game
  <1>3. \A g \in Game : g > game' => decided'[g] = Undecided
    BY <1>1 DEF ResultInv, Game
  <1>4. \A t \in Socket : pc'[t] = pc[t] \/ pc'[t] \notin Recording
    BY DEF ResetForRematch, TypeOK, Recording
  <1>5. \A t \in Socket : pc'[t] \in Recording => Winner(t)' = Winner(t)
    BY <1>4 DEF Winner
  <1>6. ResultOnce'
    BY <1>1 DEF ResultInv, ResultOnce
  <1>7. /\ \A t \in Socket : pc'[t] \in Unrated => pc[t] \in Unrated
        /\ \A t \in Socket : pc'[t] \in Unscored => pc[t] \in Unscored
    BY <1>4 DEF Recording, Unrated, Unscored
  <1>8. QED
    BY <1>1, <1>2, <1>3, <1>4, <1>5, <1>6, <1>7 DEF ResultInv

\* One step for each kind of action.
LEMMA ResultStep ==
    TypeOK /\ ResultInv /\ [Next]_vars => ResultInv'
  <1> SUFFICES ASSUME TypeOK, ResultInv, [Next]_vars PROVE ResultInv'
    OBVIOUS
  <1> USE DEF fields, outside, handlers, runs, clients, history
  <1>1. ASSUME NEW s \in Socket, ClientStep(s) PROVE ResultInv'
    BY <1>1, ResultFrame DEF ClientStep, Reveal, Solve, AskRematch, RefuseRematch,
                             Leave, Say
  <1>2. ASSUME NEW s \in Socket, AddConnection(s) PROVE ResultInv'
    BY <1>2, ResultFrame DEF AddConnection, TypeOK, Recording
  <1>3. ASSUME NEW s \in Socket, HandleReveal(s) \/ IgnoreCompletion(s) PROVE ResultInv'
    BY <1>3, ResultFrame DEF HandleReveal, IgnoreCompletion
  <1>4. ASSUME NEW s \in Socket, HandleCompletion(s) PROVE ResultInv'
    <2>1. Owner[s] \in Player
      BY SocketAssumption
    <2>2. QED
      BY <1>4, <2>1, ResultDecide DEF HandleCompletion, CompletionCounts, Receive
  <1>5. ASSUME NEW s \in Socket, UpdateElo(s) \/ RecordHeadToHead(s) PROVE ResultInv'
    BY <1>5, ResultRecord
  <1>6. ASSUME NEW s \in Socket, SendGameOver(s) PROVE ResultInv'
    <2>1. UNCHANGED <<game, decided, finished, elo, h2h, verdictOf>>
      BY <1>6 DEF SendGameOver
    <2>2. pc' = pc \/ pc' = [pc EXCEPT ![s] = "score"]
      BY <1>6 DEF SendGameOver
    <2>3. pc[s] = "tell"
      BY <1>6 DEF SendGameOver
    <2>4. QED
      BY <2>1, <2>2, <2>3, ResultFrame DEF TypeOK
  <1>7. ASSUME NEW s \in Socket,
               HandleRematchRequest(s) \/ HandleRematchDecline(s)
        PROVE  ResultInv'
    <2>1. UNCHANGED <<game, decided, finished, elo, h2h, verdictOf>>
      BY <1>7 DEF HandleRematchRequest, HandleRematchDecline
    <2>2. \/ pc' = pc
          \/ pc' = [pc EXCEPT ![s] = "accept"]
          \/ pc' = [pc EXCEPT ![s] = "deny"]
      BY <1>7 DEF HandleRematchRequest, HandleRematchDecline
    <2>3. QED
      BY <2>1, <2>2, ResultFrame DEF TypeOK, Recording
  <1>8. ASSUME NEW s \in Socket,
               \/ SendRematchAccepted(s) \/ SendRematchDeclined(s)
               \/ SendOff(s) \/ SendOpponentDisconnected(s) \/ SetOnline(s)
        PROVE  ResultInv'
    <2>1. UNCHANGED <<game, decided, finished, elo, h2h, verdictOf>>
      BY <1>8 DEF SendRematchAccepted, SendRematchDeclined, SendOff,
                  SendOpponentDisconnected, SetOnline
    <2>2. pc' = pc \/ \E x \in {"reset", "recv", "left", "free", "done"} :
                         pc' = [pc EXCEPT ![s] = x]
      BY <1>8 DEF SendRematchAccepted, SendRematchDeclined, SendOff,
                  SendOpponentDisconnected, SetOnline
    <2>3. QED
      BY <2>1, <2>2, ResultFrame DEF TypeOK, Recording
  <1>9. ASSUME NEW s \in Socket, ResetForRematch(s) PROVE ResultInv'
    BY <1>9, ResultReset
  <1>10. ASSUME NEW s \in Socket, HandleDisconnect(s) PROVE ResultInv'
    <2>1. CASE finished
      <3>1. UNCHANGED <<game, decided, finished, elo, h2h, verdictOf>>
        BY <1>10, <2>1 DEF HandleDisconnect, TypeOK
      <3>2. pc' = [pc EXCEPT ![s] = "off"]
        BY <1>10, <2>1 DEF HandleDisconnect
      <3>3. QED
        BY <3>1, <3>2, ResultFrame DEF TypeOK, Recording
    <2>2. CASE ~finished
      <3>1. Opponent(Owner[s]) \in Player
        BY SocketAssumption, OpponentType
      <3>2. \/ started /\ pc' = [pc EXCEPT ![s] = "dscore"]
               /\ decided' = [decided EXCEPT ![game] = Opponent(Owner[s])]
            \/ ~started /\ pc' = [pc EXCEPT ![s] = "left"]
               /\ decided' = [decided EXCEPT ![game] = Void]
        BY <1>10, <2>2 DEF HandleDisconnect, AfterDisconnect, DisconnectVerdict
      <3>3. /\ pc[s] = "recv" /\ finished'
            /\ verdictOf' = [verdictOf EXCEPT ![s] = game]
            /\ UNCHANGED <<game, elo, h2h>>
        BY <1>10, <2>2 DEF HandleDisconnect
      <3>4. QED
        BY <2>2, <3>1, <3>2, <3>3, ResultDecide
    <2>3. QED
      BY <2>1, <2>2
  <1>11. ASSUME NEW r \in Run, RunMatch(r) PROVE ResultInv'
    <2>1. UNCHANGED <<game, decided, finished, elo, h2h, verdictOf, pc>>
      BY <1>11 DEF RunMatch, FetchBoard, FetchFails, SendMatchFound, MarkInGame,
                   StartGame, SendGameStart
    <2>2. QED
      BY <2>1, ResultFrame
  <1>12. CASE UNCHANGED vars
    <2>1. UNCHANGED <<game, decided, finished, elo, h2h, verdictOf, pc>>
      BY <1>12 DEF vars
    <2>2. QED
      BY <2>1, ResultFrame
  <1>13. QED
    BY <1>1, <1>2, <1>3, <1>4, <1>5, <1>6, <1>7, <1>8, <1>9, <1>10, <1>11, <1>12
       DEF Next, Handle

LEMMA InitResult == Init => ResultInv
  <1> SUFFICES ASSUME Init PROVE ResultInv
    OBVIOUS
  <1>1. /\ \A g \in Game : decided[g] = Undecided
        /\ \A g \in Game, p \in Player : elo[g][p] = 0 /\ h2h[g][p] = 0
        /\ \A s \in Socket : pc[s] = "none"
        /\ game \in Game
    BY BoundAssumption DEF Init, Game
  <1>2. QED
    BY <1>1 DEF ResultInv, ResultOnce, Recording, Unrated, Unscored

\* ResultOnce: the result of each game of the match (Match._handle_completion and
\* Match.handle_disconnect) is recorded at most once in elo_ratings and once in
\* head_to_head_records, and for the player who won it.
THEOREM ResultRecordedOnce == Spec => []ResultOnce
  <1>1. ResultInv => ResultOnce
    BY DEF ResultInv
  <1>2. QED
    BY <1>1, InitResult, ResultStep, TypeCorrect, PTL DEF Spec

------------------------------------------------------------------------------
(* One connection for each player.  No second connection of a player, so no  *)
(* second _run_match thread for a game: thread r deals game r.               *)

OneSocket == \A s, t \in Socket : Owner[s] = Owner[t] => s = t

\* The messages that wait, and how many of them are reveals.
Has(s, m) == \E i \in 1..Len(inbox[s]) : inbox[s][i] = m
OnlyDeclines(s) == \A i \in 1..Len(inbox[s]) : inbox[s][i] = "rematch_decline"
RevealsIn(q) == {i \in 1..Len(q) : q[i] = "reveal"}
Reveals(s) == Cardinality(RevealsIn(inbox[s]))

\* game_start is out for the current game; the current game is won and dealt.
Dealt == started /\ rpc[game] \in {"deal", "ended"}
Won == rpc[game] = "ended" /\ decided[game] \in Player

\* A registered connection is its owner's, and a client that never connected has
\* done nothing.
ConnectionsSound ==
    /\ \A p \in Player : connections[p] # None => Owner[connections[p]] = p
    /\ \A s \in Socket :
          /\ client[s].phase = "off" <=> connections[Owner[s]] = None
          /\ client[s].phase = "off" => pc[s] = "none" /\ inbox[s] = <<>>
          /\ peer[s] # None => client[peer[s]].phase # "off"

\* The games before the current one are won and their threads are done; the
\* threads of games to come are not born.
RunsSound ==
    /\ game \in Run
    /\ \A r \in Run : rpc[r] = "unborn" <=> r > game \/ ~BothConnected(connections)
    /\ \A r \in Run : r < game => rpc[r] = "ended"
    /\ ~BothConnected(connections) => game = 1
    /\ rpc[game] = "found" => board = game
    /\ rpc[game] = "deal" => started
    /\ \A g \in Game : g < game => decided[g] \in Player

\* A client that is still there has heard match_found for the current game.
Found(s) == client[s].phase # "closed" => client[s].square = game /\ ~client[s].asked

ClientSound(s) ==
    /\ client[s].phase = "off" => client[s].told = None /\ ~client[s].asked
    /\ client[s].phase \in {"playing", "solved"} =>
          client[s].board = game /\ client[s].square = game /\ Dealt
    /\ client[s].told # None =>
          client[s].phase = "over" /\ client[s].told = decided[game] /\ rpc[game] = "ended"
    /\ client[s].phase = "over" /\ ~client[s].left => client[s].told # None
    /\ client[s].asked => client[s].phase \in {"over", "lobby", "closed"}
    /\ rpc[game] \in {"mark", "count", "deal"} => Found(s)
    /\ rpc[game] = "found" /\ Owner[s] \notin rtodo[game] => Found(s)

\* What may wait in a channel: nothing of an earlier game but a decline.
MessageSound(s) ==
    /\ Has(s, "reveal") => Dealt
    /\ Has(s, "game_complete") => Dealt /\ rpc[game] = "ended"
    /\ Has(s, "rematch_request") => client[s].asked /\ Owner[s] \notin requests /\ Won
    /\ Owner[s] \in requests => client[s].asked /\ Won /\ OnlyDeclines(s)
    /\ \A i, j \in 1..Len(inbox[s]) :
          i < j /\ inbox[s][i] = "rematch_request" => inbox[s][j] = "rematch_decline"

\* A client that waits for a game it has heard nothing of.
Quiet(s) == client[s].told = None /\ client[s].phase \in {"lobby", "over", "closed"}

\* One handler at a time restarts the match, and only when both players asked.
Restarting == {"accept", "reset"}

HandlerSound(s) ==
    /\ pc[s] \in {"rate", "tell", "score"} =>
          Owner[s] \notin requests /\ verdictOf[s] = game /\ rpc[game] = "ended"
    /\ pc[s] \in Restarting => requests = Player
    /\ pc[s] = "accept" => \A t \in Socket : Owner[t] \notin todo[s] => Quiet(t)
    /\ pc[s] = "reset" => \A t \in Socket : Quiet(t)
    /\ \A t \in Socket : {pc[s], pc[t]} \subseteq Restarting => s = t

\* A reveal is counted or waits to be, and was made in the current game.
CountSound(s) ==
    client[s].phase # "closed" => counts[Owner[s]] + Reveals(s) <= client[s].made

CountsReset ==
    rpc[game] \in {"unborn", "fetch", "found"} => \A p \in Player : counts[p] = 0

OneInv ==
    /\ ConnectionsSound
    /\ RunsSound
    /\ \A s \in Socket : ClientSound(s)
    /\ \A s \in Socket : MessageSound(s)
    /\ \A s \in Socket : HandlerSound(s)
    /\ \A s \in Socket : CountSound(s)
    /\ CountsReset

MatchInv == TypeOK /\ ResultInv /\ OneInv

\* The fields of what a client has heard.
LEMMA HearFacts ==
    ASSUME NEW c \in Client, NEW b \in Run \cup {None}, NEW w \in Player
    PROVE  /\ LET d == HearStart(c, b)
              IN  d.phase = "playing" /\ d.board = b /\ d.square = c.square /\ d.made = c.made
                  /\ d.asked = c.asked /\ d.told = c.told /\ d.left = c.left
           /\ LET d == HearOver(c, w)
              IN  d.phase = "over" /\ d.board = c.board /\ d.square = c.square /\ d.made = c.made
                  /\ d.asked = c.asked /\ d.told = w /\ d.left = c.left
           /\ LET d == HearAccepted(c)
              IN  d.phase = "lobby" /\ d.board = c.board /\ d.square = c.square /\ d.made = c.made
                  /\ d.asked = c.asked /\ d.told = None /\ d.left = c.left
           /\ LET d == HearOff(c)
              IN  d.phase = c.phase /\ d.board = c.board /\ d.square = c.square /\ d.made = c.made
                  /\ d.asked = c.asked /\ d.told = c.told /\ d.left = c.left
           /\ LET d == HearLeft(c)
              IN  d.phase = "over" /\ d.board = c.board /\ d.square = c.square /\ d.made = c.made
                  /\ d.asked = c.asked /\ d.told = c.told /\ d.left = TRUE
           /\ LET d == HearFound(c)
              IN  d.phase = "found" /\ d.square = board /\ d.made = 0
                  /\ d.asked = FALSE /\ d.told = None /\ d.left = FALSE
  BY DEF Client, HearStart, HearOver, HearAccepted, HearOff, HearLeft, HearFound, NewClient

\* Who hears what is sent to x.
LEMMA SendFacts ==
    ASSUME client \in [Socket -> Client], NEW x \in Socket \cup {None}, NEW view,
           Send(x, view)
    PROVE  \A t \in Socket : client'[t] = IF t = x /\ client[t].phase # "closed"
                                          THEN view ELSE client[t]
  BY SocketAssumption DEF Send

\* A finite number of reveals waits; receiving one of them leaves one less.
LEMMA RevealsFinite ==
    ASSUME NEW q \in Seq(Message)
    PROVE  IsFiniteSet(RevealsIn(q)) /\ Cardinality(RevealsIn(q)) \in Nat
  <1>1. Len(q) \in Nat
    OBVIOUS
  <1>2. IsFiniteSet(1..Len(q))
    BY <1>1, FS_Interval
  <1>3. RevealsIn(q) \in SUBSET (1..Len(q))
    BY DEF RevealsIn
  <1>4. IsFiniteSet(RevealsIn(q))
    BY <1>2, <1>3, FS_Subset
  <1>5. QED
    BY <1>4, FS_CardinalityType

LEMMA RevealsTail ==
    ASSUME NEW q \in Seq(Message), q # <<>>
    PROVE  /\ Cardinality(RevealsIn(Tail(q))) <= Cardinality(RevealsIn(q))
           /\ Head(q) = "reveal" =>
                Cardinality(RevealsIn(Tail(q))) + 1 <= Cardinality(RevealsIn(q))
  <1> DEFINE S == RevealsIn(q) \ {1}
             f == [i \in RevealsIn(Tail(q)) |-> i + 1]
  <1>1. /\ Len(q) \in Nat /\ Len(Tail(q)) = Len(q) - 1 /\ Tail(q) \in Seq(Message)
        /\ \A i \in 1..Len(Tail(q)) : Tail(q)[i] = q[i + 1]
        /\ Head(q) = q[1] /\ Len(q) >= 1
    OBVIOUS
  <1>2. /\ IsFiniteSet(RevealsIn(q)) /\ Cardinality(RevealsIn(q)) \in Nat
        /\ Cardinality(RevealsIn(Tail(q))) \in Nat
    BY <1>1, RevealsFinite
  <1>3. /\ IsFiniteSet(S)
        /\ Cardinality(S) = IF 1 \in RevealsIn(q) THEN Cardinality(RevealsIn(q)) - 1
                            ELSE Cardinality(RevealsIn(q))
    BY <1>2, FS_RemoveElement
  <1>4. f \in Injection(RevealsIn(Tail(q)), S)
    <2>1. \A i \in RevealsIn(Tail(q)) : i \in Nat /\ i + 1 \in S
      BY <1>1 DEF RevealsIn
    <2>2. f \in [RevealsIn(Tail(q)) -> S]
      BY <2>1
    <2>3. \A i, j \in RevealsIn(Tail(q)) : f[i] = f[j] => i = j
      BY <2>1
    <2>4. QED
      BY <2>2, <2>3 DEF Injection, IsInjective
  <1>5. Cardinality(RevealsIn(Tail(q))) <= Cardinality(S)
    BY <1>3, <1>4, FS_Injection
  <1>6. Head(q) = "reveal" => 1 \in RevealsIn(q)
    BY <1>1 DEF RevealsIn
  <1> HIDE DEF S
  <1>7. QED
    BY <1>2, <1>3, <1>5, <1>6

LEMMA RevealsAppend ==
    ASSUME NEW q \in Seq(Message), NEW m \in Message
    PROVE  Cardinality(RevealsIn(Append(q, m))) =
              IF m = "reveal" THEN Cardinality(RevealsIn(q)) + 1 ELSE Cardinality(RevealsIn(q))
  <1>1. /\ Len(q) \in Nat /\ Len(Append(q, m)) = Len(q) + 1
        /\ \A i \in 1..Len(q) : Append(q, m)[i] = q[i]
        /\ Append(q, m)[Len(q) + 1] = m
    OBVIOUS
  <1>2. IsFiniteSet(RevealsIn(q)) /\ Len(q) + 1 \notin RevealsIn(q)
    BY <1>1, RevealsFinite DEF RevealsIn
  <1>3. CASE m = "reveal"
    <2>1. RevealsIn(Append(q, m)) = RevealsIn(q) \cup {Len(q) + 1}
      BY <1>1, <1>3 DEF RevealsIn
    <2>2. QED
      BY <1>2, <1>3, <2>1, FS_AddElement
  <1>4. CASE m # "reveal"
    <2>1. RevealsIn(Append(q, m)) = RevealsIn(q)
      BY <1>1, <1>4 DEF RevealsIn
    <2>2. QED
      BY <1>4, <2>1
  <1>5. QED
    BY <1>3, <1>4

\* What a handler that receives m takes from its channel.
LEMMA PopFacts ==
    ASSUME TypeOK, NEW s \in Socket, NEW m, Receive(s, m)
    PROVE  /\ pc[s] = "recv" /\ Has(s, m)
           /\ inbox[s] \in Seq(Message) /\ inbox[s] # <<>>
           /\ Len(inbox[s]) \in Nat /\ Len(inbox'[s]) = Len(inbox[s]) - 1
           /\ inbox[s][1] = m /\ 1 \in 1..Len(inbox[s])
           /\ \A i \in 1..Len(inbox'[s]) :
                 i \in Nat /\ i + 1 \in 1..Len(inbox[s]) /\ inbox'[s][i] = inbox[s][i + 1]
           /\ \A t \in Socket : t # s => inbox'[t] = inbox[t]
           /\ Reveals(s) \in Nat /\ Cardinality(RevealsIn(inbox'[s])) \in Nat
           /\ Cardinality(RevealsIn(inbox'[s])) <= Reveals(s)
           /\ m = "reveal" => Cardinality(RevealsIn(inbox'[s])) + 1 <= Reveals(s)
  <1>1. inbox \in [Socket -> Seq(Message)] /\ pc[s] = "recv"
    BY DEF TypeOK, Receive
  <1>2. inbox[s] # <<>> /\ Head(inbox[s]) = m /\ inbox' = [inbox EXCEPT ![s] = Tail(@)]
    BY DEF Receive
  <1>3. inbox'[s] = Tail(inbox[s]) /\ \A t \in Socket : t # s => inbox'[t] = inbox[t]
    BY <1>1, <1>2
  <1>4. inbox[s] \in Seq(Message) /\ Tail(inbox[s]) \in Seq(Message)
    BY <1>1, <1>2
  <1>5. /\ Len(inbox[s]) \in Nat /\ Len(Tail(inbox[s])) = Len(inbox[s]) - 1
        /\ inbox[s][1] = m /\ 1 \in 1..Len(inbox[s])
        /\ \A i \in 1..Len(Tail(inbox[s])) :
              i \in Nat /\ i + 1 \in 1..Len(inbox[s]) /\ Tail(inbox[s])[i] = inbox[s][i + 1]
    BY <1>2, <1>4
  <1>6. /\ Reveals(s) \in Nat /\ Cardinality(RevealsIn(Tail(inbox[s]))) \in Nat
        /\ Cardinality(RevealsIn(Tail(inbox[s]))) <= Reveals(s)
        /\ m = "reveal" => Cardinality(RevealsIn(Tail(inbox[s]))) + 1 <= Reveals(s)
    BY <1>2, <1>4, RevealsFinite, RevealsTail DEF Reveals
  <1>7. QED
    BY <1>1, <1>2, <1>3, <1>4, <1>5, <1>6 DEF Has

\* What a client that says m adds to its channel.
LEMMA PushFacts ==
    ASSUME TypeOK, NEW s \in Socket, NEW m \in Message, NEW c, Say(s, m, c)
    PROVE  /\ inbox[s] \in Seq(Message)
           /\ Len(inbox[s]) \in Nat /\ Len(inbox'[s]) = Len(inbox[s]) + 1
           /\ \A i \in 1..Len(inbox[s]) : i \in Nat /\ inbox'[s][i] = inbox[s][i]
           /\ inbox'[s][Len(inbox[s]) + 1] = m
           /\ \A t \in Socket : t # s => inbox'[t] = inbox[t] /\ client'[t] = client[t]
           /\ client'[s] = c
           /\ Reveals(s) \in Nat
           /\ Reveals(s)' = IF m = "reveal" THEN Reveals(s) + 1 ELSE Reveals(s)
  <1>1. inbox \in [Socket -> Seq(Message)] /\ client \in [Socket -> Client]
    BY DEF TypeOK
  <1>2. /\ inbox' = [inbox EXCEPT ![s] = Append(@, m)]
        /\ client' = [client EXCEPT ![s] = c]
    BY DEF Say
  <1>3. inbox'[s] = Append(inbox[s], m) /\ inbox[s] \in Seq(Message)
    BY <1>1, <1>2
  <1>4. /\ Len(inbox[s]) \in Nat /\ Len(Append(inbox[s], m)) = Len(inbox[s]) + 1
        /\ \A i \in 1..Len(inbox[s]) : i \in Nat /\ Append(inbox[s], m)[i] = inbox[s][i]
        /\ Append(inbox[s], m)[Len(inbox[s]) + 1] = m
    BY <1>3
  <1>5. /\ Reveals(s) \in Nat
        /\ Reveals(s)' = IF m = "reveal" THEN Reveals(s) + 1 ELSE Reveals(s)
    BY <1>3, RevealsFinite, RevealsAppend DEF Reveals
  <1>6. QED
    BY <1>1, <1>2, <1>3, <1>4, <1>5

\* The registered connections, and each socket's own.
LEMMA ConnectionFacts ==
    ASSUME OneSocket, TypeOK, ConnectionsSound
    PROVE  /\ \A p \in Player : connections[p] # None =>
                 /\ connections[p] \in Socket /\ Owner[connections[p]] = p
                 /\ client[connections[p]].phase # "off"
           /\ \A t \in Socket : /\ Owner[t] \in Player /\ Opponent(Owner[t]) \in Player
                                /\ connections[Owner[t]] # None => connections[Owner[t]] = t
           /\ BothConnected(connections) => Connected = Player
  <1>1. \A t \in Socket : Owner[t] \in Player /\ Opponent(Owner[t]) \in Player
    BY SocketAssumption, OpponentType
  <1>2. \A p \in Player : connections[p] # None =>
           connections[p] \in Socket /\ Owner[connections[p]] = p
    BY DEF TypeOK, ConnectionsSound
  <1>3. \A p \in Player : connections[p] # None => client[connections[p]].phase # "off"
    BY <1>2 DEF ConnectionsSound
  <1>4. \A t \in Socket : connections[Owner[t]] # None => connections[Owner[t]] = t
    BY <1>1, <1>2 DEF OneSocket
  <1>5. BothConnected(connections) => Connected = Player
    BY DEF BothConnected, Connected
  <1>6. QED
    BY <1>1, <1>2, <1>3, <1>4, <1>5

\* A thread at work is that of the current game.
LEMMA RunFacts ==
    ASSUME TypeOK, RunsSound, NEW r \in Run, rpc[r] \notin {"unborn", "ended"}
    PROVE  r = game /\ BothConnected(connections)
  <1>1. r \in Nat /\ game \in Nat
    BY DEF Run, Game, TypeOK
  <1>2. ~(r > game) /\ BothConnected(connections) /\ ~(r < game)
    BY DEF RunsSound
  <1>3. QED
    BY <1>1, <1>2

LEMMA ConnectionsFrame ==
    ASSUME OneSocket, TypeOK, ConnectionsSound, UNCHANGED connections,
           \A t \in Socket : client'[t].phase = "off" <=> client[t].phase = "off",
           \A t \in Socket : client[t].phase = "off" => pc'[t] = pc[t] /\ inbox'[t] = inbox[t],
           \A t \in Socket : \/ peer'[t] = peer[t]
                             \/ peer'[t] = connections[Opponent(Owner[t])]
    PROVE  ConnectionsSound'
  <1>1. \A p \in Player : connections'[p] # None => Owner[connections'[p]] = p
    BY DEF ConnectionsSound
  <1>2. \A t \in Socket : /\ client'[t].phase = "off" <=> connections'[Owner[t]] = None
                          /\ client'[t].phase = "off" => pc'[t] = "none" /\ inbox'[t] = <<>>
    BY DEF ConnectionsSound
  <1>3. \A t \in Socket : peer'[t] # None => client'[peer'[t]].phase # "off"
    <2> SUFFICES ASSUME NEW t \in Socket, peer'[t] # None
                 PROVE  client'[peer'[t]].phase # "off"
      OBVIOUS
    <2>1. peer'[t] \in Socket /\ client[peer'[t]].phase # "off"
      <3>1. CASE peer'[t] = peer[t]
        BY <3>1 DEF ConnectionsSound, TypeOK
      <3>2. CASE peer'[t] = connections[Opponent(Owner[t])]
        BY <3>2, ConnectionFacts
      <3>3. QED
        BY <3>1, <3>2
    <2>2. QED
      BY <2>1
  <1>4. QED
    BY <1>1, <1>2, <1>3 DEF ConnectionsSound

LEMMA RunsFrame ==
    ASSUME RunsSound, UNCHANGED <<connections, game, rpc, board>>, started => started',
           \A g \in Game : g < game => decided'[g] = decided[g]
    PROVE  RunsSound'
  BY DEF RunsSound

LEMMA ClientFrame ==
    ASSUME NEW s \in Socket, ClientSound(s), UNCHANGED <<game, started, rpc, rtodo>>,
           client'[s] = client[s],
           decided'[game] = decided[game] \/ client[s].told = None
    PROVE  ClientSound(s)'
  BY DEF ClientSound, Found, Dealt

LEMMA MessageFrame ==
    ASSUME NEW s \in Socket, MessageSound(s), UNCHANGED <<game, started, rpc, requests>>,
           inbox'[s] = inbox[s], client'[s].asked = client[s].asked,
           decided[game] \in Player => decided'[game] \in Player
    PROVE  MessageSound(s)'
  BY DEF MessageSound, Has, OnlyDeclines, Dealt, Won

LEMMA MessagePop ==
    ASSUME TypeOK, NEW s \in Socket, NEW m, Receive(s, m), MessageSound(s),
           UNCHANGED <<game, started, rpc, requests, client>>,
           decided[game] \in Player => decided'[game] \in Player
    PROVE  MessageSound(s)'
  <1>1. \A i \in 1..Len(inbox'[s]) :
           i \in Nat /\ i + 1 \in 1..Len(inbox[s]) /\ inbox'[s][i] = inbox[s][i + 1]
    BY PopFacts
  <1>2. \A x \in Message : Has(s, x)' => Has(s, x)
    BY <1>1 DEF Has
  <1>3. OnlyDeclines(s) => OnlyDeclines(s)'
    BY <1>1 DEF OnlyDeclines
  <1>4. \A i, j \in 1..Len(inbox'[s]) :
           i < j /\ inbox'[s][i] = "rematch_request" => inbox'[s][j] = "rematch_decline"
    <2> SUFFICES ASSUME NEW i \in 1..Len(inbox'[s]), NEW j \in 1..Len(inbox'[s]),
                        i < j, inbox'[s][i] = "rematch_request"
                 PROVE  inbox'[s][j] = "rematch_decline"
      OBVIOUS
    <2>1. i + 1 < j + 1
      BY <1>1
    <2>2. QED
      BY <1>1, <2>1 DEF MessageSound
  <1>5. QED
    BY <1>2, <1>3, <1>4 DEF MessageSound, Dealt, Won

\* Handlers that go on, when nobody makes a quiet client loud.
Result == {"rate", "tell", "score"}

LEMMA HandlersFrame ==
    ASSUME \A s \in Socket : HandlerSound(s),
           UNCHANGED <<requests, game>>,
           rpc[game] = "ended" => rpc'[game] = "ended",
           \/ \A t \in Socket : Quiet(t) => Quiet(t)'
           \/ \A t \in Socket : pc[t] \notin Restarting,
           \A t \in Socket : \/ pc'[t] = pc[t] /\ todo'[t] = todo[t] /\ verdictOf'[t] = verdictOf[t]
                             \/ pc'[t] \notin Result \cup Restarting
                             \/ {pc[t], pc'[t]} \subseteq Result /\ verdictOf'[t] = verdictOf[t]
    PROVE  \A s \in Socket : HandlerSound(s)'
  <1>1. \A t \in Socket : pc'[t] \in Restarting => pc'[t] = pc[t] /\ todo'[t] = todo[t]
    BY DEF Result, Restarting
  <1> SUFFICES ASSUME NEW s \in Socket PROVE HandlerSound(s)'
    OBVIOUS
  <1>2. pc'[s] \in Result => Owner[s] \notin requests' /\ verdictOf'[s] = game' /\ rpc'[game'] = "ended"
    BY DEF HandlerSound, Result, Restarting
  <1>3. pc'[s] \in Restarting => requests' = Player
    BY <1>1 DEF HandlerSound
  <1>4. pc'[s] = "accept" => \A t \in Socket : Owner[t] \notin todo'[s] => Quiet(t)'
    BY <1>1 DEF HandlerSound, Restarting
  <1>5. pc'[s] = "reset" => \A t \in Socket : Quiet(t)'
    BY <1>1 DEF HandlerSound, Restarting
  <1>6. \A t \in Socket : {pc'[s], pc'[t]} \subseteq Restarting => s = t
    BY <1>1 DEF HandlerSound
  <1>7. QED
    BY <1>2, <1>3, <1>4, <1>5, <1>6 DEF HandlerSound, Result

LEMMA CountFrame ==
    ASSUME NEW s \in Socket, CountSound(s), UNCHANGED counts,
           inbox'[s] = inbox[s], client'[s].made = client[s].made,
           client[s].phase = "closed" => client'[s].phase = "closed"
    PROVE  CountSound(s)'
  BY DEF CountSound, Reveals

\* A step of a handler that takes no message, sends none and is not at rest.
LEMMA QuietHandlerStep ==
    ASSUME OneSocket, MatchInv, NEW s \in Socket,
           \/ UpdateElo(s) \/ RecordHeadToHead(s) \/ SetOnline(s)
    PROVE  OneInv'
  <1> USE DEF fields, handlers, runs, clients, history
  <1>1. UNCHANGED <<connections, board, started, finished, counts, requests, peer, rpc,
                    rtodo, client, inbox, game, decided, verdictOf>>
    BY DEF UpdateElo, RecordHeadToHead, SetOnline
  <1>2. \A t \in Socket : \/ pc'[t] = pc[t] /\ todo'[t] = todo[t]
                          \/ pc'[t] \notin Result \cup Restarting
                          \/ {pc[t], pc'[t]} \subseteq Result
    BY DEF UpdateElo, RecordHeadToHead, SetOnline, MatchInv, TypeOK, Result, Restarting
  <1>3. pc[s] # "none" /\ \A t \in Socket : pc'[t] = pc[t] \/ t = s
    BY DEF UpdateElo, RecordHeadToHead, SetOnline, MatchInv, TypeOK
  <1>4. client[s].phase # "off"
    BY <1>3 DEF MatchInv, OneInv, ConnectionsSound
  <1>5. ConnectionsSound'
    BY <1>1, <1>3, <1>4, ConnectionsFrame DEF MatchInv, OneInv
  <1>6. RunsSound'
    BY <1>1, RunsFrame DEF MatchInv, OneInv
  <1>7. \A t \in Socket : ClientSound(t)' /\ MessageSound(t)' /\ CountSound(t)'
    BY <1>1, ClientFrame, MessageFrame, CountFrame DEF MatchInv, OneInv
  <1>8. \A t \in Socket : Quiet(t) => Quiet(t)'
    BY <1>1 DEF Quiet
  <1>9. \A t \in Socket : HandlerSound(t)'
    BY <1>1, <1>2, <1>8, HandlersFrame DEF MatchInv, OneInv
  <1>10. CountsReset'
    BY <1>1 DEF MatchInv, OneInv, CountsReset
  <1>11. QED
    BY <1>5, <1>6, <1>7, <1>9, <1>10 DEF OneInv

\* The channel of a client that speaks.
LEMMA PushMessage ==
    ASSUME TypeOK, NEW s \in Socket, NEW m \in Message, NEW c, Say(s, m, c)
    PROVE  /\ \A x : Has(s, x)' <=> Has(s, x) \/ x = m
           /\ OnlyDeclines(s)' <=> OnlyDeclines(s) /\ m = "rematch_decline"
           /\ MessageSound(s) /\ (Has(s, "rematch_request") => m = "rematch_decline") =>
                \A i, j \in 1..Len(inbox'[s]) :
                   i < j /\ inbox'[s][i] = "rematch_request" => inbox'[s][j] = "rematch_decline"
  <1> DEFINE n == Len(inbox[s])
             q == inbox[s]
             z == inbox'[s]
  <1>1. n \in Nat /\ Len(z) = n + 1
    BY PushFacts
  <1>2. z[n + 1] = m /\ \A i \in 1..n : z[i] = q[i]
    BY PushFacts
  <1>3. \A i \in 1..(n + 1) : i \in 1..n \/ i = n + 1
    BY <1>1
  <1>4. 1..n \subseteq 1..(n + 1) /\ n + 1 \in 1..(n + 1)
    BY <1>1
  <1>5. \A x : Has(s, x)' <=> Has(s, x) \/ x = m
    BY <1>1, <1>2, <1>3, <1>4 DEF Has
  <1>6. OnlyDeclines(s)' <=> OnlyDeclines(s) /\ m = "rematch_decline"
    BY <1>1, <1>2, <1>3, <1>4 DEF OnlyDeclines
  <1>7. ASSUME MessageSound(s), Has(s, "rematch_request") => m = "rematch_decline",
               NEW i \in 1..(n + 1), NEW j \in 1..(n + 1), i < j, z[i] = "rematch_request"
        PROVE  z[j] = "rematch_decline"
    <2>1. i \in 1..n
      BY <1>1, <1>7
    <2>2. q[i] = "rematch_request" /\ Has(s, "rematch_request")
      BY <1>2, <1>7, <2>1 DEF Has
    <2>3. CASE j = n + 1
      BY <1>2, <1>7, <2>2, <2>3
    <2>4. CASE j \in 1..n
      BY <1>2, <1>7, <2>1, <2>2, <2>4 DEF MessageSound
    <2>5. QED
      BY <1>3, <2>3, <2>4
  <1>8. QED
    BY <1>1, <1>5, <1>6, <1>7

\* A client that speaks disturbs only what is said of its own view and channel.
LEMMA SayFrame ==
    ASSUME OneSocket, MatchInv, NEW s \in Socket, NEW m \in Message, NEW c \in Client,
           Say(s, m, c), {client[s].phase, c.phase} \cap {"off", "closed"} = {},
           ClientSound(s)', MessageSound(s)', Quiet(s) => c.told = None /\ c.phase = client[s].phase,
           counts[Owner[s]] + Reveals(s)' <= c.made
    PROVE  OneInv'
  <1> USE DEF fields, outside, handlers, runs, history
  <1>1. UNCHANGED <<connections, board, started, finished, counts, requests, peer, pc, todo,
                    rpc, rtodo, game, decided, verdictOf>>
    BY DEF Say
  <1>2. /\ client'[s] = c
        /\ \A t \in Socket : t # s => inbox'[t] = inbox[t] /\ client'[t] = client[t]
    BY PushFacts DEF MatchInv
  <1>3. ConnectionsSound'
    <2>1. \A t \in Socket : client'[t].phase = "off" <=> client[t].phase = "off"
      BY <1>2
    <2>2. \A t \in Socket : client[t].phase = "off" => inbox'[t] = inbox[t]
      BY <1>2
    <2>3. QED
      BY <1>1, <2>1, <2>2, ConnectionsFrame DEF MatchInv, OneInv
  <1>4. RunsSound'
    BY <1>1, RunsFrame DEF MatchInv, OneInv
  <1>5. \A t \in Socket : ClientSound(t)' /\ MessageSound(t)'
    BY <1>1, <1>2, ClientFrame, MessageFrame DEF MatchInv, OneInv
  <1>6. \A t \in Socket : CountSound(t)'
    <2>1. CountSound(s)'
      BY <1>1, <1>2 DEF CountSound
    <2>2. QED
      BY <1>1, <1>2, <2>1, CountFrame DEF MatchInv, OneInv
  <1>7. \A t \in Socket : Quiet(t) => Quiet(t)'
    BY <1>2 DEF Quiet
  <1>8. \A t \in Socket : HandlerSound(t)'
    BY <1>1, <1>7, HandlersFrame DEF MatchInv, OneInv
  <1>9. CountsReset'
    BY <1>1 DEF MatchInv, OneInv, CountsReset
  <1>10. QED
    BY <1>3, <1>4, <1>5, <1>6, <1>8, <1>9 DEF OneInv

\* The clients speak.
LEMMA SayStep ==
    ASSUME OneSocket, MatchInv, NEW s \in Socket,
           Reveal(s) \/ Solve(s) \/ AskRematch(s) \/ RefuseRematch(s)
    PROVE  OneInv'
  <1>1. client[s] \in Client /\ TypeOK
    BY DEF MatchInv, TypeOK
  <1>2. ClientSound(s) /\ MessageSound(s) /\ CountSound(s)
    BY DEF MatchInv, OneInv
  <1>3. counts[Owner[s]] \in Nat /\ client[s].made \in Nat /\ client[s].told \in Player \cup {None}
    BY <1>1, SocketAssumption, BoundAssumption DEF TypeOK, Client
  <1>4. CASE Reveal(s)
    <2> DEFINE c == [client[s] EXCEPT !.made = @ + 1]
    <2>1. c \in Client /\ Say(s, "reveal", c) /\ client[s].phase = "playing"
      BY <1>1, <1>4, BoundAssumption DEF Reveal, Client
    <2>2. /\ c.phase = "playing" /\ c.made = client[s].made + 1 /\ c.told = client[s].told
          /\ c.asked = client[s].asked /\ c.board = client[s].board
          /\ c.square = client[s].square /\ c.left = client[s].left
      BY <1>1, <2>1 DEF Client
    <2> HIDE DEF c
    <2>3. client'[s] = c /\ UNCHANGED <<requests, game, started, rpc, rtodo, decided>>
      BY <1>1, <2>1, PushFacts DEF Say, fields, runs, history
    <2>4. ClientSound(s)'
      BY <1>2, <2>1, <2>2, <2>3 DEF ClientSound, Found, Dealt
    <2>5. Dealt /\ ~client[s].asked
      BY <1>2, <2>1 DEF ClientSound
    <2>6. ~Has(s, "rematch_request") /\ Owner[s] \notin requests
      BY <1>2, <2>5 DEF MessageSound
    <2>7. MessageSound(s)'
      BY <1>1, <1>2, <2>1, <2>2, <2>3, <2>5, <2>6, PushMessage DEF MessageSound, Dealt, Won
    <2>8. counts[Owner[s]] + Reveals(s)' <= c.made
      <3>1. Reveals(s) \in Nat /\ Reveals(s)' = Reveals(s) + 1
        BY <1>1, <2>1, PushFacts
      <3>2. counts[Owner[s]] + Reveals(s) <= client[s].made
        BY <1>2, <2>1 DEF CountSound
      <3>3. QED
        BY <1>3, <2>2, <3>1, <3>2
    <2>9. QED
      BY <2>1, <2>2, <2>4, <2>7, <2>8, SayFrame DEF Quiet
  <1>5. CASE Solve(s)
    <2> DEFINE c == [client[s] EXCEPT !.phase = "solved"]
    <2>1. /\ c \in Client /\ Say(s, "game_complete", c) /\ client[s].phase = "playing"
          /\ rpc[client[s].board] = "ended"
      BY <1>1, <1>5 DEF Solve, Client
    <2>2. /\ c.phase = "solved" /\ c.made = client[s].made /\ c.told = client[s].told
          /\ c.asked = client[s].asked /\ c.board = client[s].board
          /\ c.square = client[s].square /\ c.left = client[s].left
      BY <1>1, <2>1 DEF Client
    <2> HIDE DEF c
    <2>3. client'[s] = c /\ UNCHANGED <<requests, game, started, rpc, rtodo, decided>>
      BY <1>1, <2>1, PushFacts DEF Say, fields, runs, history
    <2>4. ClientSound(s)'
      BY <1>2, <2>1, <2>2, <2>3 DEF ClientSound, Found, Dealt
    <2>5. Dealt /\ ~client[s].asked /\ rpc[game] = "ended"
      BY <1>2, <2>1 DEF ClientSound
    <2>6. ~Has(s, "rematch_request") /\ Owner[s] \notin requests
      BY <1>2, <2>5 DEF MessageSound
    <2>7. MessageSound(s)'
      BY <1>1, <1>2, <2>1, <2>2, <2>3, <2>5, <2>6, PushMessage DEF MessageSound, Dealt, Won
    <2>8. counts[Owner[s]] + Reveals(s)' <= c.made
      <3>1. Reveals(s) \in Nat /\ Reveals(s)' = Reveals(s)
        BY <1>1, <2>1, PushFacts
      <3>2. counts[Owner[s]] + Reveals(s) <= client[s].made
        BY <1>2, <2>1 DEF CountSound
      <3>3. QED
        BY <1>3, <2>2, <3>1, <3>2
    <2>9. QED
      BY <2>1, <2>2, <2>4, <2>7, <2>8, SayFrame DEF Quiet
  <1>6. CASE AskRematch(s)
    <2> DEFINE c == [client[s] EXCEPT !.asked = TRUE]
    <2>1. /\ c \in Client /\ Say(s, "rematch_request", c) /\ client[s].phase = "over"
          /\ ~client[s].asked /\ ~client[s].left
      BY <1>1, <1>6 DEF AskRematch, Client
    <2>2. /\ c.phase = "over" /\ c.made = client[s].made /\ c.told = client[s].told
          /\ c.asked /\ c.board = client[s].board
          /\ c.square = client[s].square /\ c.left = client[s].left
      BY <1>1, <2>1 DEF Client
    <2> HIDE DEF c
    <2>3. client'[s] = c /\ UNCHANGED <<requests, game, started, rpc, rtodo, decided>>
      BY <1>1, <2>1, PushFacts DEF Say, fields, runs, history
    <2>4. /\ client[s].told # None /\ client[s].told = decided[game] /\ rpc[game] = "ended"
          /\ Won
      BY <1>2, <1>3, <2>1 DEF ClientSound, Won
    <2>5. ClientSound(s)'
      BY <1>2, <2>1, <2>2, <2>3, <2>4 DEF ClientSound, Found, Dealt
    <2>6. ~Has(s, "rematch_request") /\ Owner[s] \notin requests
      BY <1>2, <2>1 DEF MessageSound
    <2>7. MessageSound(s)'
      BY <1>1, <1>2, <2>1, <2>2, <2>3, <2>4, <2>6, PushMessage DEF MessageSound, Dealt, Won
    <2>8. counts[Owner[s]] + Reveals(s)' <= c.made
      <3>1. Reveals(s) \in Nat /\ Reveals(s)' = Reveals(s)
        BY <1>1, <2>1, PushFacts
      <3>2. counts[Owner[s]] + Reveals(s) <= client[s].made
        BY <1>2, <2>1 DEF CountSound
      <3>3. QED
        BY <1>3, <2>2, <3>1, <3>2
    <2>9. QED
      BY <2>1, <2>2, <2>5, <2>7, <2>8, SayFrame DEF Quiet
  <1>7. CASE RefuseRematch(s)
    <2> DEFINE c == [client[s] EXCEPT !.refused = TRUE]
    <2>1. c \in Client /\ Say(s, "rematch_decline", c) /\ client[s].phase = "over"
      BY <1>1, <1>7 DEF RefuseRematch, Client
    <2>2. /\ c.phase = "over" /\ c.made = client[s].made /\ c.told = client[s].told
          /\ c.asked = client[s].asked /\ c.board = client[s].board
          /\ c.square = client[s].square /\ c.left = client[s].left
      BY <1>1, <2>1 DEF Client
    <2> HIDE DEF c
    <2>3. client'[s] = c /\ UNCHANGED <<requests, game, started, rpc, rtodo, decided>>
      BY <1>1, <2>1, PushFacts DEF Say, fields, runs, history
    <2>4. ClientSound(s)'
      BY <1>2, <2>1, <2>2, <2>3 DEF ClientSound, Found, Dealt
    <2>5. MessageSound(s)'
      BY <1>1, <1>2, <2>1, <2>2, <2>3, PushMessage DEF MessageSound, Dealt, Won
    <2>6. counts[Owner[s]] + Reveals(s)' <= c.made
      <3>1. Reveals(s) \in Nat /\ Reveals(s)' = Reveals(s)
        BY <1>1, <2>1, PushFacts
      <3>2. counts[Owner[s]] + Reveals(s) <= client[s].made
        BY <1>2, <2>1 DEF CountSound
      <3>3. QED
        BY <1>3, <2>2, <3>1, <3>2
    <2>7. QED
      BY <2>1, <2>2, <2>4, <2>5, <2>6, SayFrame DEF Quiet
  <1>8. QED
    BY <1>4, <1>5, <1>6, <1>7

\* A client leaves; what it asked for stays on record.
LEMMA LeaveStep ==
    ASSUME OneSocket, MatchInv, NEW s \in Socket, Leave(s)
    PROVE  OneInv'
  <1> USE DEF fields, outside, handlers, runs, history
  <1> DEFINE c == [NewClient EXCEPT !.phase = "closed", !.asked = client[s].asked]
  <1>1. UNCHANGED <<connections, board, started, finished, counts, requests, peer, pc, todo,
                    rpc, rtodo, game, decided, verdictOf, inbox>>
    BY DEF Leave
  <1>2. /\ client[s].phase \notin {"off", "closed"} /\ client'[s] = c
        /\ \A t \in Socket : t # s => client'[t] = client[t]
    BY DEF Leave, MatchInv, TypeOK
  <1>3. c.phase = "closed" /\ c.asked = client[s].asked /\ c.told = None
    BY DEF NewClient
  <1> HIDE DEF c
  <1>4. ConnectionsSound'
    <2>1. \A t \in Socket : client'[t].phase = "off" <=> client[t].phase = "off"
      BY <1>2, <1>3
    <2>2. QED
      BY <1>1, <2>1, ConnectionsFrame DEF MatchInv, OneInv
  <1>5. RunsSound'
    BY <1>1, RunsFrame DEF MatchInv, OneInv
  <1>6. \A t \in Socket : ClientSound(t)'
    <2>1. ClientSound(s)'
      BY <1>2, <1>3 DEF ClientSound, Found
    <2>2. QED
      BY <1>1, <1>2, <2>1, ClientFrame DEF MatchInv, OneInv
  <1>7. \A t \in Socket : MessageSound(t)'
    <2>1. \A t \in Socket : client'[t].asked = client[t].asked
      BY <1>2, <1>3
    <2>2. QED
      BY <1>1, <2>1, MessageFrame DEF MatchInv, OneInv
  <1>8. \A t \in Socket : CountSound(t)'
    <2>1. CountSound(s)'
      BY <1>2, <1>3 DEF CountSound
    <2>2. QED
      BY <1>1, <1>2, <2>1, CountFrame DEF MatchInv, OneInv
  <1>9. \A t \in Socket : Quiet(t) => Quiet(t)'
    BY <1>2, <1>3 DEF Quiet
  <1>10. \A t \in Socket : HandlerSound(t)'
    BY <1>1, <1>9, HandlersFrame DEF MatchInv, OneInv
  <1>11. CountsReset'
    BY <1>1 DEF MatchInv, OneInv, CountsReset
  <1>12. QED
    BY <1>4, <1>5, <1>6, <1>7, <1>8, <1>10, <1>11 DEF OneInv

\* A handler that takes a message and changes neither threads nor clients keeps
\* what is said of connections, threads, clients and channels.
LEMMA ReceiveFrame ==
    ASSUME OneSocket, MatchInv, NEW s \in Socket, NEW m, Receive(s, m),
           UNCHANGED <<connections, board, started, rpc, rtodo, client, game, peer>>,
           \A t \in Socket : t # s => pc'[t] = pc[t],
           decided' = decided \/ (decided[game] = Undecided
                                  /\ \E x \in Player : decided' = [decided EXCEPT ![game] = x])
    PROVE  /\ ConnectionsSound' /\ RunsSound'
           /\ \A t \in Socket : ClientSound(t)'
           /\ \A t \in Socket : t # s /\ requests' = requests => MessageSound(t)'
           /\ requests' = requests => MessageSound(s)'
  <1>1. pc[s] = "recv" /\ \A t \in Socket : t # s => inbox'[t] = inbox[t]
    BY PopFacts DEF MatchInv
  <1>2. client[s].phase # "off"
    BY <1>1 DEF MatchInv, OneInv, ConnectionsSound
  <1>3. ConnectionsSound'
    BY <1>1, <1>2, ConnectionsFrame DEF MatchInv, OneInv
  <1>4. /\ \A g \in Game : g < game => decided'[g] = decided[g]
        /\ decided[game] \in Player => decided'[game] \in Player
        /\ decided'[game] = decided[game] \/ \A t \in Socket : client[t].told = None
    <2>1. CASE decided' = decided
      BY <2>1
    <2>2. CASE /\ decided[game] = Undecided
               /\ \E x \in Player : decided' = [decided EXCEPT ![game] = x]
      <3>1. game \in Game /\ Undecided \notin Player
        BY PlayerAssumption DEF MatchInv, TypeOK
      <3>2. \A g \in Game : g < game => decided'[g] = decided[g]
        BY <2>2, <3>1 DEF MatchInv, TypeOK, Game
      <3>3. ASSUME NEW t \in Socket PROVE client[t].told = None
        <4>1. client[t].told \in Player \cup {None}
          BY DEF MatchInv, TypeOK, Client
        <4>2. ClientSound(t)
          BY DEF MatchInv, OneInv
        <4>3. QED
          BY <2>2, <3>1, <4>1, <4>2 DEF ClientSound
      <3>4. QED
        BY <2>2, <3>1, <3>2, <3>3
    <2>3. QED
      BY <2>1, <2>2
  <1>5. RunsSound'
    BY <1>4, RunsFrame DEF MatchInv, OneInv
  <1>6. \A t \in Socket : ClientSound(t)'
    BY <1>4, ClientFrame DEF MatchInv, OneInv
  <1>7. requests' = requests => \A t \in Socket : t # s => MessageSound(t)'
    BY <1>1, <1>4, MessageFrame DEF MatchInv, OneInv
  <1>8. requests' = requests => MessageSound(s)'
    BY <1>4, MessagePop DEF MatchInv, OneInv
  <1>9. QED
    BY <1>3, <1>5, <1>6, <1>7, <1>8

LEMMA CountReceive ==
    ASSUME MatchInv, NEW s \in Socket, NEW m, Receive(s, m), UNCHANGED <<counts, client>>
    PROVE  \A t \in Socket : CountSound(t)'
  <1> SUFFICES ASSUME NEW t \in Socket PROVE CountSound(t)'
    OBVIOUS
  <1>1. CASE t = s
    <2>1. /\ Cardinality(RevealsIn(inbox'[s])) \in Nat /\ Reveals(s) \in Nat
          /\ Cardinality(RevealsIn(inbox'[s])) <= Reveals(s)
      BY PopFacts DEF MatchInv
    <2>2. counts[Owner[s]] \in Nat /\ client[s].made \in Nat
      BY SocketAssumption, BoundAssumption DEF MatchInv, TypeOK, Client
    <2>3. CountSound(s)
      BY DEF MatchInv, OneInv
    <2>4. QED
      BY <1>1, <2>1, <2>2, <2>3 DEF CountSound, Reveals
  <1>2. CASE t # s
    <2>1. inbox'[t] = inbox[t]
      BY <1>2, PopFacts DEF MatchInv
    <2>2. QED
      BY <2>1, CountFrame DEF MatchInv, OneInv
  <1>3. QED
    BY <1>1, <1>2

\* A reveal is of the current game, so the count it raises has begun anew.
LEMMA RevealStep ==
    ASSUME OneSocket, MatchInv, NEW s \in Socket, HandleReveal(s)
    PROVE  OneInv'
  <1> USE DEF fields, outside, handlers, runs, history
  <1>1. /\ Receive(s, "reveal")
        /\ UNCHANGED <<connections, board, started, finished, requests, peer, pc, todo,
                       rpc, rtodo, client, game, decided, verdictOf>>
    BY DEF HandleReveal
  <1>2. /\ ConnectionsSound' /\ RunsSound'
        /\ \A t \in Socket : ClientSound(t)' /\ MessageSound(t)'
    BY <1>1, ReceiveFrame
  <1>3. \A t \in Socket : HandlerSound(t)'
    <2>1. \A t \in Socket : Quiet(t) => Quiet(t)'
      BY <1>1 DEF Quiet
    <2>2. QED
      BY <1>1, <2>1, HandlersFrame DEF MatchInv, OneInv
  <1>4. /\ Cardinality(RevealsIn(inbox'[s])) \in Nat /\ Reveals(s) \in Nat
        /\ Cardinality(RevealsIn(inbox'[s])) + 1 <= Reveals(s)
        /\ \A t \in Socket : t # s => inbox'[t] = inbox[t]
        /\ Has(s, "reveal")
    BY <1>1, PopFacts DEF MatchInv
  <1>5. /\ counts \in [Player -> Nat] /\ client[s].made \in Nat
        /\ counts' = counts \/ counts' = [counts EXCEPT ![Owner[s]] = @ + 1]
    BY BoundAssumption DEF HandleReveal, MatchInv, TypeOK, Client
  <1>6. \A t \in Socket : CountSound(t)'
    <2>1. CountSound(s)'
      <3>1. counts'[Owner[s]] \in Nat /\ counts'[Owner[s]] <= counts[Owner[s]] + 1
            /\ counts[Owner[s]] \in Nat
        BY <1>5, SocketAssumption
      <3>2. CountSound(s)
        BY DEF MatchInv, OneInv
      <3>3. QED
        BY <1>1, <1>4, <1>5, <3>1, <3>2 DEF CountSound, Reveals
    <2>2. ASSUME NEW t \in Socket, t # s PROVE CountSound(t)'
      <3>1. Owner[t] # Owner[s]
        BY <2>2 DEF OneSocket
      <3>2. counts'[Owner[t]] = counts[Owner[t]]
        BY <1>5, <3>1, SocketAssumption
      <3>3. CountSound(t)
        BY DEF MatchInv, OneInv
      <3>4. QED
        BY <1>1, <1>4, <2>2, <3>2, <3>3 DEF CountSound, Reveals
    <2>3. QED
      BY <2>1, <2>2
  <1>7. CountsReset'
    <2>1. Dealt
      BY <1>4 DEF MatchInv, OneInv, MessageSound
    <2>2. QED
      BY <1>1, <2>1 DEF CountsReset, Dealt
  <1>8. QED
    BY <1>2, <1>3, <1>6, <1>7 DEF OneInv

\* A completion that comes too late, a refusal, and one that ends the game.
LEMMA CompletionStep ==
    ASSUME OneSocket, MatchInv, NEW s \in Socket,
           IgnoreCompletion(s) \/ HandleCompletion(s) \/ HandleRematchDecline(s)
    PROVE  OneInv'
  <1> USE DEF fields, outside, handlers, runs, history
  <1>1. PICK m \in {"game_complete", "rematch_decline"} : Receive(s, m)
    BY DEF IgnoreCompletion, HandleCompletion, HandleRematchDecline
  <1>2. UNCHANGED <<connections, board, started, counts, requests, peer, todo,
                    rpc, rtodo, client, game>>
    BY DEF IgnoreCompletion, HandleCompletion, HandleRematchDecline
  <1>3. Has(s, m) /\ pc[s] = "recv"
    BY <1>1, PopFacts DEF MatchInv
  <1>4. \/ pc' = pc /\ decided' = decided /\ verdictOf' = verdictOf
        \/ pc' = [pc EXCEPT ![s] = "deny"] /\ decided' = decided /\ verdictOf' = verdictOf
        \/ /\ HandleCompletion(s) /\ ~finished
           /\ pc' = [pc EXCEPT ![s] = "rate"]
           /\ decided' = [decided EXCEPT ![game] = Owner[s]]
           /\ verdictOf' = [verdictOf EXCEPT ![s] = game]
    BY DEF IgnoreCompletion, HandleCompletion, HandleRematchDecline, CompletionCounts
  <1>5. \A t \in Socket : t # s => pc'[t] = pc[t] /\ verdictOf'[t] = verdictOf[t]
    BY <1>4 DEF MatchInv, TypeOK
  <1>6. decided' = decided \/ (decided[game] = Undecided
                               /\ \E x \in Player : decided' = [decided EXCEPT ![game] = x])
    <2>1. ~finished => decided[game] = Undecided
      BY DEF MatchInv, ResultInv
    <2>2. Owner[s] \in Player
      BY SocketAssumption
    <2>3. QED
      BY <1>4, <2>1, <2>2
  <1>7. /\ ConnectionsSound' /\ RunsSound'
        /\ \A t \in Socket : ClientSound(t)' /\ MessageSound(t)'
    BY <1>1, <1>2, <1>5, <1>6, ReceiveFrame
  <1>8. \A t \in Socket : CountSound(t)'
    BY <1>1, <1>2, CountReceive
  <1>9. CountsReset'
    BY <1>2 DEF MatchInv, OneInv, CountsReset
  <1>10. \A t \in Socket : Quiet(t) => Quiet(t)'
    BY <1>2 DEF Quiet
  <1>11. \A t \in Socket : HandlerSound(t)'
    <2>1. CASE pc'[s] # "rate"
      <3>1. pc'[s] = pc[s] \/ pc'[s] = "deny"
        BY <1>4, <2>1 DEF MatchInv, TypeOK
      <3>2. verdictOf'[s] = verdictOf[s]
        BY <1>4, <2>1 DEF MatchInv, TypeOK
      <3>3. \A t \in Socket : \/ pc'[t] = pc[t] /\ todo'[t] = todo[t] /\ verdictOf'[t] = verdictOf[t]
                              \/ pc'[t] \notin Result \cup Restarting
        BY <1>2, <1>5, <3>1, <3>2 DEF Result, Restarting
      <3>4. QED
        BY <1>2, <1>10, <3>3, HandlersFrame DEF MatchInv, OneInv
    <2>2. CASE pc'[s] = "rate"
      <3>1. HandleCompletion(s) /\ ~finished /\ verdictOf'[s] = game
        BY <1>3, <1>4, <2>2 DEF MatchInv, TypeOK
      <3>2. Receive(s, "game_complete")
        BY <3>1 DEF HandleCompletion
      <3>3. Has(s, "game_complete")
        BY <3>2, PopFacts DEF MatchInv
      <3>4. rpc[game] = "ended"
        BY <3>3 DEF MatchInv, OneInv, MessageSound
      <3>5. Owner[s] \notin requests
        <4>1. decided[game] = Undecided /\ Undecided \notin Player
          BY <3>1, PlayerAssumption DEF MatchInv, ResultInv
        <4>2. QED
          BY <4>1 DEF MatchInv, OneInv, MessageSound, Won
      <3>6. HandlerSound(s)'
        BY <1>2, <2>2, <3>1, <3>4, <3>5 DEF HandlerSound, Restarting
      <3>7. ASSUME NEW t \in Socket, t # s PROVE HandlerSound(t)'
        <4>1. HandlerSound(t)
          BY DEF MatchInv, OneInv
        <4>2. \A u \in Socket : {pc'[t], pc'[u]} \subseteq Restarting => t = u
          <5>1. pc'[s] \notin Restarting
            BY <2>2 DEF Restarting
          <5>2. \A u \in Socket : u # s => pc'[u] = pc[u]
            BY <1>5
          <5>3. QED
            BY <3>7, <4>1, <5>1, <5>2 DEF HandlerSound
        <4>3. pc'[t] = pc[t] /\ verdictOf'[t] = verdictOf[t]
          BY <1>5, <3>7
        <4>4. QED
          BY <1>2, <1>10, <4>1, <4>2, <4>3 DEF HandlerSound, Restarting
      <3>8. QED
        BY <3>6, <3>7
    <2>3. QED
      BY <2>1, <2>2
  <1>12. QED
    BY <1>7, <1>8, <1>9, <1>11 DEF OneInv

\* A request is of the current game, and the second one finds nobody restarting.
LEMMA RequestStep ==
    ASSUME OneSocket, MatchInv, NEW s \in Socket, HandleRematchRequest(s)
    PROVE  OneInv'
  <1> USE DEF fields, outside, handlers, runs, history
  <1>1. /\ Receive(s, "rematch_request")
        /\ UNCHANGED <<connections, board, started, finished, counts, peer, rpc, rtodo,
                       client, game, decided, verdictOf>>
    BY DEF HandleRematchRequest
  <1>2. /\ pc[s] = "recv" /\ Has(s, "rematch_request")
        /\ \A t \in Socket : t # s => inbox'[t] = inbox[t]
    BY <1>1, PopFacts DEF MatchInv
  <1>3. /\ client[s].asked /\ Owner[s] \notin requests /\ Won
        /\ Owner[s] \in Player
    BY <1>2, SocketAssumption DEF MatchInv, OneInv, MessageSound
  <1>4. \A t \in Socket : t # s => pc'[t] = pc[t] /\ todo'[t] = todo[t]
    BY DEF HandleRematchRequest, MatchInv, TypeOK
  <1>5. /\ ConnectionsSound' /\ RunsSound'
        /\ \A t \in Socket : ClientSound(t)'
        /\ \A t \in Socket : t # s /\ requests' = requests => MessageSound(t)'
        /\ requests' = requests => MessageSound(s)'
    BY <1>1, <1>4, ReceiveFrame
  <1>6. \A t \in Socket : CountSound(t)'
    BY <1>1, CountReceive
  <1>7. CountsReset'
    BY <1>1 DEF MatchInv, OneInv, CountsReset
  <1>8. \A t \in Socket : Quiet(t) => Quiet(t)'
    BY <1>1 DEF Quiet
  <1>9. CASE ~(finished /\ ~declined)
    <2>1. requests' = requests /\ pc' = pc /\ todo' = todo
      BY <1>9 DEF HandleRematchRequest
    <2>2. \A t \in Socket : HandlerSound(t)'
      BY <1>1, <1>8, <2>1, HandlersFrame DEF MatchInv, OneInv
    <2>3. QED
      BY <1>5, <1>6, <1>7, <2>1, <2>2 DEF OneInv
  <1>10. CASE finished /\ ~declined
    <2>1. requests' = requests \cup {Owner[s]}
      BY <1>10 DEF HandleRematchRequest
    <2>2. \/ pc' = pc /\ todo' = todo
          \/ /\ pc' = [pc EXCEPT ![s] = "accept"] /\ todo' = [todo EXCEPT ![s] = Connected]
             /\ requests' = Player
      BY <1>10, <2>1 DEF HandleRematchRequest, BothRequested
    <2>3. \A t \in Socket : t # s => (Owner[t] \in requests' <=> Owner[t] \in requests)
      BY <2>1 DEF OneSocket
    <2>4. \A t \in Socket : MessageSound(t)'
      <3>1. MessageSound(s)'
        <4>1. /\ inbox[s][1] = "rematch_request" /\ 1 \in 1..Len(inbox[s])
              /\ \A i \in 1..Len(inbox'[s]) :
                    i \in Nat /\ i + 1 \in 1..Len(inbox[s]) /\ inbox'[s][i] = inbox[s][i + 1]
          BY <1>1, PopFacts DEF MatchInv
        <4>2. \A i \in 1..Len(inbox'[s]) : 1 < i + 1
          OBVIOUS
        <4>3. MessageSound(s)
          BY DEF MatchInv, OneInv
        <4>4. OnlyDeclines(s)'
          BY <4>1, <4>2, <4>3 DEF MessageSound, OnlyDeclines
        <4>5. \A x \in Message : Has(s, x)' => x = "rematch_decline"
          BY <4>4 DEF Has, OnlyDeclines
        <4>6. Won'
          BY <1>1, <1>3 DEF Won
        <4>7. \A i, j \in 1..Len(inbox'[s]) :
                 i < j /\ inbox'[s][i] = "rematch_request" => inbox'[s][j] = "rematch_decline"
          BY <4>4 DEF OnlyDeclines
        <4>8. QED
          BY <1>1, <1>3, <4>4, <4>5, <4>6, <4>7 DEF MessageSound
      <3>2. ASSUME NEW t \in Socket, t # s PROVE MessageSound(t)'
        <4>1. MessageSound(t)
          BY DEF MatchInv, OneInv
        <4>2. inbox'[t] = inbox[t] /\ (Owner[t] \in requests' <=> Owner[t] \in requests)
          BY <1>2, <2>3, <3>2
        <4>3. QED
          BY <1>1, <4>1, <4>2 DEF MessageSound, Has, OnlyDeclines, Dealt, Won
      <3>3. QED
        BY <3>1, <3>2
    <2>5. \A t \in Socket : HandlerSound(t)'
      <3>1. \A t \in Socket : pc[t] \notin Restarting
        BY <1>3 DEF MatchInv, OneInv, HandlerSound
      <3>2. \A t \in Socket : t # s => pc'[t] \notin Restarting
        BY <1>4, <3>1
      <3>3. HandlerSound(s)'
        <4>1. pc'[s] = "recv" \/ (pc'[s] = "accept" /\ todo'[s] = Connected /\ requests' = Player)
          BY <1>2, <2>2 DEF MatchInv, TypeOK
        <4>2. pc'[s] = "accept" => Connected = Player
          <5>1. BothConnected(connections)
            <6>1. rpc[game] = "ended" /\ game \in Run
              BY <1>3 DEF Won, MatchInv, OneInv, RunsSound
            <6>2. QED
              BY <6>1 DEF MatchInv, OneInv, RunsSound
          <5>2. QED
            BY <5>1 DEF BothConnected, Connected
        <4>3. \A t \in Socket : Owner[t] \in Player
          BY SocketAssumption
        <4>4. QED
          BY <3>2, <4>1, <4>2, <4>3 DEF HandlerSound, Restarting
      <3>4. ASSUME NEW t \in Socket, t # s PROVE HandlerSound(t)'
        <4>1. HandlerSound(t) /\ pc'[t] = pc[t] /\ pc'[t] \notin Restarting
          BY <1>4, <3>2, <3>4 DEF MatchInv, OneInv
        <4>2. QED
          BY <1>1, <2>3, <3>4, <4>1 DEF HandlerSound, Restarting
      <3>5. QED
        BY <3>3, <3>4
    <2>6. QED
      BY <1>5, <1>6, <1>7, <2>4, <2>5 DEF OneInv
  <1>11. QED
    BY <1>9, <1>10

\* A closed socket: its channel is emptied, and a game that is not over is decided.
LEMMA DisconnectStep ==
    ASSUME OneSocket, MatchInv, NEW s \in Socket, HandleDisconnect(s)
    PROVE  OneInv'
  <1> USE DEF fields, outside, handlers, runs, history
  <1>1. /\ pc[s] = "recv" /\ client[s].phase = "closed"
        /\ UNCHANGED <<connections, board, started, counts, requests, todo, rpc, rtodo,
                       client, game>>
    BY DEF HandleDisconnect
  <1>2. /\ inbox'[s] = <<>> /\ peer'[s] = connections[Opponent(Owner[s])]
        /\ \A t \in Socket : t # s => inbox'[t] = inbox[t] /\ peer'[t] = peer[t]
    BY DEF HandleDisconnect, MatchInv, TypeOK
  <1>3. /\ pc'[s] \in {"off", "left", "dscore"}
        /\ \A t \in Socket : t # s => pc'[t] = pc[t] /\ verdictOf'[t] = verdictOf[t]
    BY DEF HandleDisconnect, MatchInv, TypeOK, AfterDisconnect
  <1>4. \/ decided' = decided
        \/ /\ decided[game] = Undecided
           /\ \E x \in Player \cup {Void} : decided' = [decided EXCEPT ![game] = x]
    <2>1. DisconnectVerdict(s) \in Player \cup {Void}
      BY SocketAssumption, OpponentType DEF DisconnectVerdict
    <2>2. QED
      BY <2>1 DEF HandleDisconnect, MatchInv, ResultInv
  <1>5. /\ \A g \in Game : g < game => decided'[g] = decided[g]
        /\ decided[game] \in Player => decided'[game] \in Player
        /\ decided'[game] = decided[game] \/ \A t \in Socket : client[t].told = None
    <2>1. game \in Game /\ Undecided \notin Player
      BY PlayerAssumption DEF MatchInv, TypeOK
    <2>2. \A g \in Game : g < game => decided'[g] = decided[g]
      <3>1. CASE decided' = decided
        BY <3>1
      <3>2. CASE \E x \in Player \cup {Void} : decided' = [decided EXCEPT ![game] = x]
        BY <2>1, <3>2 DEF MatchInv, TypeOK, Game
      <3>3. QED
        BY <1>4, <3>1, <3>2
    <2>3. decided[game] = Undecided => \A t \in Socket : client[t].told = None
      <3> SUFFICES ASSUME decided[game] = Undecided, NEW t \in Socket
                   PROVE  client[t].told = None
        OBVIOUS
      <3>1. client[t].told \in Player \cup {None} /\ ClientSound(t)
        BY DEF MatchInv, OneInv, TypeOK, Client
      <3>2. QED
        BY <2>1, <3>1 DEF ClientSound
    <2>4. QED
      BY <1>4, <2>1, <2>2, <2>3
  <1>6. ConnectionsSound'
    <2>1. client[s].phase # "off"
      BY <1>1
    <2>2. QED
      BY <1>1, <1>2, <1>3, <2>1, ConnectionsFrame DEF MatchInv, OneInv
  <1>7. RunsSound'
    BY <1>1, <1>5, RunsFrame DEF MatchInv, OneInv
  <1>8. \A t \in Socket : ClientSound(t)'
    BY <1>1, <1>5, ClientFrame DEF MatchInv, OneInv
  <1>9. \A t \in Socket : MessageSound(t)'
    <2>1. MessageSound(s)'
      <3>1. Len(inbox'[s]) = 0 /\ 1..0 = {}
        BY <1>2
      <3>2. \A x : ~Has(s, x)'
        BY <3>1 DEF Has
      <3>3. OnlyDeclines(s)'
        BY <3>1 DEF OnlyDeclines
      <3>4. MessageSound(s)
        BY DEF MatchInv, OneInv
      <3>5. QED
        BY <1>1, <1>5, <3>1, <3>2, <3>3, <3>4 DEF MessageSound, Won
    <2>2. \A t \in Socket : t # s => MessageSound(t)'
      BY <1>1, <1>2, <1>5, MessageFrame DEF MatchInv, OneInv
    <2>3. QED
      BY <2>1, <2>2
  <1>10. \A t \in Socket : CountSound(t)'
    <2>1. CountSound(s)'
      BY <1>1 DEF CountSound
    <2>2. QED
      BY <1>1, <1>2, <2>1, CountFrame DEF MatchInv, OneInv
  <1>11. \A t \in Socket : Quiet(t) => Quiet(t)'
    BY <1>1 DEF Quiet
  <1>12. \A t \in Socket : HandlerSound(t)'
    <2>1. pc'[s] \notin Result \cup Restarting
      BY <1>3 DEF Result, Restarting
    <2>2. QED
      BY <1>1, <1>3, <1>11, <2>1, HandlersFrame DEF MatchInv, OneInv
  <1>13. CountsReset'
    BY <1>1 DEF MatchInv, OneInv, CountsReset
  <1>14. QED
    BY <1>6, <1>7, <1>8, <1>9, <1>10, <1>12, <1>13 DEF OneInv

\* A message of a handler disturbs only what is said of the view of its recipient.
LEMMA SendFrame ==
    ASSUME OneSocket, MatchInv, NEW x \in Socket \cup {None}, NEW view,
           Send(x, view),
           x # None => /\ client[x].phase # "off" /\ view.phase \notin {"off", "closed"}
                       /\ view.asked = client[x].asked /\ view.made = client[x].made,
           NEW s \in Socket, pc[s] # "none", \A t \in Socket : t # s => pc'[t] = pc[t],
           UNCHANGED <<connections, board, started, counts, requests, rpc, rtodo, game,
                       decided, verdictOf, inbox, peer>>
    PROVE  /\ ConnectionsSound' /\ RunsSound' /\ CountsReset'
           /\ \A t \in Socket : MessageSound(t)' /\ CountSound(t)'
           /\ \A t \in Socket : t # x => ClientSound(t)'
           /\ \A t \in Socket : client'[t] = IF t = x /\ client[t].phase # "closed"
                                             THEN view ELSE client[t]
  <1>1. \A t \in Socket : client'[t] = IF t = x /\ client[t].phase # "closed"
                                       THEN view ELSE client[t]
    BY SendFacts DEF MatchInv, TypeOK
  <1>2. \A t \in Socket : /\ client'[t].phase = "off" <=> client[t].phase = "off"
                          /\ client[t].phase = "closed" => client'[t].phase = "closed"
                          /\ client'[t].asked = client[t].asked
                          /\ client'[t].made = client[t].made
    BY <1>1, SocketAssumption
  <1>3. ConnectionsSound'
    <2>1. client[s].phase # "off"
      BY DEF MatchInv, OneInv, ConnectionsSound
    <2>2. QED
      BY <1>2, <2>1, ConnectionsFrame DEF MatchInv, OneInv
  <1>4. RunsSound'
    BY RunsFrame DEF MatchInv, OneInv
  <1>5. \A t \in Socket : MessageSound(t)' /\ CountSound(t)'
    BY <1>2, MessageFrame, CountFrame DEF MatchInv, OneInv
  <1>6. \A t \in Socket : t # x => ClientSound(t)'
    BY <1>1, ClientFrame DEF MatchInv, OneInv
  <1>7. CountsReset'
    BY DEF MatchInv, OneInv, CountsReset
  <1>8. QED
    BY <1>1, <1>3, <1>4, <1>5, <1>6, <1>7

\* rematch_declined and opponent_disconnected, to whoever is on the other side.
LEMMA RefusalStep ==
    ASSUME OneSocket, MatchInv, NEW s \in Socket,
           SendRematchDeclined(s) \/ SendOff(s) \/ SendOpponentDisconnected(s)
    PROVE  OneInv'
  <1> USE DEF fields, outside, handlers, runs, history
  <1>1. /\ UNCHANGED <<connections, board, started, counts, requests, rpc, rtodo, game,
                       decided, verdictOf, inbox, peer, todo>>
        /\ pc[s] \in {"deny", "off", "left"}
    BY DEF SendRematchDeclined, SendOff, SendOpponentDisconnected
  <1>2. /\ pc'[s] \in {"recv", "left", "free"}
        /\ \A t \in Socket : t # s => pc'[t] = pc[t]
    BY DEF SendRematchDeclined, SendOff, SendOpponentDisconnected, MatchInv, TypeOK
  <1>3. PICK x \in Socket \cup {None} :
           /\ x # None => client[x].phase # "off"
           /\ Send(x, HearOff(At(x))) \/ Send(x, HearLeft(At(x)))
    <2>1. /\ peer[s] \in Socket \cup {None}
          /\ peer[s] # None => client[peer[s]].phase # "off"
      BY DEF MatchInv, OneInv, TypeOK, ConnectionsSound
    <2>2. LET o == connections[Opponent(Owner[s])]
          IN  o \in Socket \cup {None} /\ (o # None => client[o].phase # "off")
      BY ConnectionFacts DEF MatchInv, OneInv
    <2>3. CASE SendRematchDeclined(s)
      BY <2>2, <2>3 DEF SendRematchDeclined
    <2>4. CASE SendOff(s)
      BY <2>1, <2>4 DEF SendOff
    <2>5. CASE SendOpponentDisconnected(s)
      BY <2>1, <2>5 DEF SendOpponentDisconnected
    <2>6. QED
      BY <2>3, <2>4, <2>5
  <1>4. /\ client \in [Socket -> Client] /\ At(x) \in Client
        /\ x # None => At(x) = client[x] /\ x \in Socket
    BY AtType DEF MatchInv, TypeOK, At
  <1>5. PICK view : /\ Send(x, view) /\ view \in {HearOff(At(x)), HearLeft(At(x))}
    BY <1>3
  <1>6. /\ view.phase = At(x).phase \/ (view.phase = "over" /\ view.left)
        /\ view.left = At(x).left \/ view.left
        /\ view.board = At(x).board /\ view.square = At(x).square
        /\ view.made = At(x).made /\ view.asked = At(x).asked /\ view.told = At(x).told
    <2>1. CASE view = HearOff(At(x))
      <3>1. None \in Run \cup {None} /\ Player1 \in Player
        BY DEF Player
      <3>2. QED
        BY <1>4, <2>1, <3>1, HearFacts
    <2>2. CASE view = HearLeft(At(x))
      <3>1. None \in Run \cup {None} /\ Player1 \in Player
        BY DEF Player
      <3>2. QED
        BY <1>4, <2>2, <3>1, HearFacts
    <2>3. QED
      BY <1>5, <2>1, <2>2
  <1>7. CASE x # None /\ client[x].phase # "closed"
    <2>1. /\ ConnectionsSound' /\ RunsSound' /\ CountsReset'
          /\ \A t \in Socket : MessageSound(t)' /\ CountSound(t)'
          /\ \A t \in Socket : t # x => ClientSound(t)'
          /\ \A t \in Socket : client'[t] = IF t = x /\ client[t].phase # "closed"
                                            THEN view ELSE client[t]
      <3>1. /\ client[x].phase # "off" /\ view.phase \notin {"off", "closed"}
            /\ view.asked = client[x].asked /\ view.made = client[x].made
        BY <1>3, <1>4, <1>6, <1>7
      <3>2. pc[s] # "none"
        BY <1>1
      <3>3. QED
        BY <1>1, <1>2, <1>5, <3>1, <3>2, SendFrame
    <2>2. client'[x] = view
      BY <1>4, <1>7, <2>1
    <2>3. ClientSound(x)'
      <3>1. ClientSound(x) /\ x \in Socket
        BY <1>4, <1>7 DEF MatchInv, OneInv
      <3>2. QED
        BY <1>1, <1>4, <1>6, <1>7, <2>2, <3>1 DEF ClientSound, Found, Dealt
    <2>4. \A t \in Socket : Quiet(t) => Quiet(t)'
      BY <1>4, <1>6, <1>7, <2>1 DEF Quiet
    <2>5. \A t \in Socket : HandlerSound(t)'
      <3>1. pc'[s] \notin Result \cup Restarting
        BY <1>2 DEF Result, Restarting
      <3>2. QED
        BY <1>1, <1>2, <2>4, <3>1, HandlersFrame DEF MatchInv, OneInv
    <2>6. QED
      BY <2>1, <2>3, <2>5 DEF OneInv
  <1>8. CASE x = None \/ client[x].phase = "closed"
    <2>1. client' = client
      BY <1>5, <1>8 DEF Send
    <2>2. Send(None, view) /\ None \in Socket \cup {None} /\ pc[s] # "none"
      BY <1>1, <2>1 DEF Send
    <2>3. /\ ConnectionsSound' /\ RunsSound' /\ CountsReset'
          /\ \A t \in Socket : MessageSound(t)' /\ CountSound(t)'
          /\ \A t \in Socket : t # None => ClientSound(t)'
      BY <1>1, <1>2, <2>2, SendFrame
    <2>4. \A t \in Socket : HandlerSound(t)'
      <3>1. pc'[s] \notin Result \cup Restarting
        BY <1>2 DEF Result, Restarting
      <3>2. \A t \in Socket : Quiet(t) => Quiet(t)'
        BY <2>1 DEF Quiet
      <3>3. QED
        BY <1>1, <1>2, <3>1, <3>2, HandlersFrame DEF MatchInv, OneInv
    <2>5. QED
      BY <2>3, <2>4, SocketAssumption DEF OneInv
  <1>9. QED
    BY <1>7, <1>8

\* game_over: the winner it names decided the current game, and nobody restarts.
LEMMA GameOverStep ==
    ASSUME OneSocket, MatchInv, NEW s \in Socket, SendGameOver(s)
    PROVE  OneInv'
  <1> USE DEF fields, outside, handlers, runs, history
  <1>1. PICK p \in todo[s] :
           /\ Send(connections[p], HearOver(At(connections[p]), Owner[s]))
           /\ pc' = IF todo[s] = {p} THEN [pc EXCEPT ![s] = "score"] ELSE pc
    BY DEF SendGameOver
  <1>2. /\ UNCHANGED <<connections, board, started, counts, requests, rpc, rtodo, game,
                       decided, verdictOf, inbox, peer>>
        /\ pc[s] = "tell" /\ \A t \in Socket : t # s => todo'[t] = todo[t]
    BY DEF SendGameOver, MatchInv, TypeOK
  <1>3. pc'[s] \in {"tell", "score"} /\ \A t \in Socket : t # s => pc'[t] = pc[t]
    BY <1>1, <1>2 DEF MatchInv, TypeOK
  <1> DEFINE x == connections[p]
             view == HearOver(At(x), Owner[s])
  <1>4. /\ p \in Player /\ x \in Socket \cup {None} /\ Owner[s] \in Player
        /\ client \in [Socket -> Client] /\ At(x) \in Client
        /\ x # None => At(x) = client[x] /\ x \in Socket
    BY AtType, SocketAssumption DEF MatchInv, TypeOK, At
  <1>5. x # None => client[x].phase # "off"
    BY <1>4, ConnectionFacts DEF MatchInv, OneInv
  <1>6. /\ view.phase = "over" /\ view.told = Owner[s]
        /\ view.made = At(x).made /\ view.asked = At(x).asked /\ view.square = At(x).square
    <2>1. None \in Run \cup {None} /\ At(x) \in Client /\ Owner[s] \in Player
      BY <1>4
    <2> HIDE DEF x
    <2>2. QED
      BY <2>1 DEF Client, HearOver
  <1>7. Send(x, view)
    BY <1>1
  <1> HIDE DEF x, view
  <1>8. /\ ConnectionsSound' /\ RunsSound' /\ CountsReset'
        /\ \A t \in Socket : MessageSound(t)' /\ CountSound(t)'
        /\ \A t \in Socket : t # x => ClientSound(t)'
        /\ \A t \in Socket : client'[t] = IF t = x /\ client[t].phase # "closed"
                                          THEN view ELSE client[t]
    BY <1>2, <1>3, <1>4, <1>5, <1>6, <1>7, SendFrame
  <1>9. /\ Owner[s] = decided[game] /\ rpc[game] = "ended" /\ Owner[s] \notin requests
    <2>1. HandlerSound(s)
      BY DEF MatchInv, OneInv
    <2>2. decided[verdictOf[s]] = Owner[s]
      BY <1>2 DEF MatchInv, ResultInv, Recording, Winner
    <2>3. QED
      BY <1>2, <2>1, <2>2 DEF HandlerSound
  <1>10. \A t \in Socket : ClientSound(t)'
    <2>1. ASSUME NEW t \in Socket, t = x PROVE ClientSound(t)'
      <3>1. ClientSound(t) /\ At(x) = client[t]
        BY <1>4, <2>1, SocketAssumption DEF MatchInv, OneInv
      <3>2. CASE client[t].phase = "closed"
        <4>1. client'[t] = client[t]
          BY <1>8, <3>2
        <4>2. QED
          BY <1>2, <3>1, <4>1, ClientFrame
      <3>3. CASE client[t].phase # "closed"
        <4>1. client'[t] = view
          BY <1>8, <2>1, <3>3
        <4>2. QED
          BY <1>2, <1>4, <1>6, <1>9, <3>1, <3>3, <4>1, PlayerAssumption DEF ClientSound, Found
      <3>4. QED
        BY <3>2, <3>3
    <2>2. QED
      BY <1>8, <2>1
  <1>11. \A t \in Socket : HandlerSound(t)'
    <2>1. \A t \in Socket : pc[t] \notin Restarting
      BY <1>4, <1>9 DEF MatchInv, OneInv, HandlerSound
    <2>2. \A t \in Socket : \/ pc'[t] = pc[t] /\ todo'[t] = todo[t] /\ verdictOf'[t] = verdictOf[t]
                            \/ {pc[t], pc'[t]} \subseteq Result /\ verdictOf'[t] = verdictOf[t]
      BY <1>2, <1>3 DEF Result
    <2>3. QED
      BY <1>2, <2>1, <2>2, HandlersFrame DEF MatchInv, OneInv
  <1>12. QED
    BY <1>8, <1>10, <1>11 DEF OneInv

\* rematch_accepted: who has heard it waits, and when all have, all wait.
LEMMA AcceptedStep ==
    ASSUME OneSocket, MatchInv, NEW s \in Socket, SendRematchAccepted(s)
    PROVE  OneInv'
  <1> USE DEF fields, outside, handlers, runs, history
  <1>1. PICK p \in todo[s] :
           /\ Send(connections[p], HearAccepted(At(connections[p])))
           /\ todo' = [todo EXCEPT ![s] = @ \ {p}]
           /\ pc' = IF todo[s] = {p} THEN [pc EXCEPT ![s] = "reset"] ELSE pc
    BY DEF SendRematchAccepted
  <1>2. /\ UNCHANGED <<connections, board, started, counts, requests, rpc, rtodo, game,
                       decided, verdictOf, inbox, peer>>
        /\ pc[s] = "accept"
    BY DEF SendRematchAccepted
  <1>3. /\ todo'[s] = todo[s] \ {p}
        /\ pc'[s] = IF todo[s] = {p} THEN "reset" ELSE "accept"
        /\ \A t \in Socket : t # s => pc'[t] = pc[t]
    BY <1>1, <1>2 DEF MatchInv, TypeOK
  <1> DEFINE x == connections[p]
             view == HearAccepted(At(x))
  <1>4. /\ p \in Player /\ x \in Socket \cup {None}
        /\ client \in [Socket -> Client] /\ At(x) \in Client
        /\ x # None => At(x) = client[x] /\ x \in Socket
    BY AtType, SocketAssumption DEF MatchInv, TypeOK, At
  <1>5. x # None => client[x].phase # "off"
    BY <1>4, ConnectionFacts DEF MatchInv, OneInv
  <1>6. /\ view.phase = "lobby" /\ view.told = None
        /\ view.made = At(x).made /\ view.asked = At(x).asked /\ view.square = At(x).square
    <2>1. None \in Run \cup {None} /\ Player1 \in Player
      BY DEF Player
    <2>2. QED
      BY <1>4, <2>1, HearFacts
  <1>7. Send(x, view)
    BY <1>1
  <1>8. requests = Player /\ HandlerSound(s)
    BY <1>2 DEF MatchInv, OneInv, HandlerSound, Restarting
  <1>9. Won /\ game \in Run
    <2>1. Owner[s] \in requests /\ MessageSound(s)
      BY <1>8, SocketAssumption DEF MatchInv, OneInv
    <2>2. QED
      BY <2>1 DEF MessageSound, MatchInv, OneInv, RunsSound
  <1>10. BothConnected(connections)
    BY <1>9 DEF MatchInv, OneInv, RunsSound, Won
  <1>11. \A t \in Socket : Owner[t] = p => t = x
    BY <1>4, <1>10, ConnectionFacts DEF BothConnected, MatchInv, OneInv
  <1> HIDE DEF x, view
  <1>12. /\ ConnectionsSound' /\ RunsSound' /\ CountsReset'
         /\ \A t \in Socket : MessageSound(t)' /\ CountSound(t)'
         /\ \A t \in Socket : t # x => ClientSound(t)'
         /\ \A t \in Socket : client'[t] = IF t = x /\ client[t].phase # "closed"
                                           THEN view ELSE client[t]
    BY <1>2, <1>3, <1>4, <1>5, <1>6, <1>7, SendFrame
  <1>13. \A t \in Socket : ClientSound(t)'
    <2>1. ASSUME NEW t \in Socket, t = x PROVE ClientSound(t)'
      <3>1. ClientSound(t) /\ At(x) = client[t]
        BY <1>4, <2>1, SocketAssumption DEF MatchInv, OneInv
      <3>2. CASE client[t].phase = "closed"
        <4>1. client'[t] = client[t]
          BY <1>12, <3>2
        <4>2. QED
          BY <1>2, <3>1, <4>1, ClientFrame
      <3>3. CASE client[t].phase # "closed"
        <4>1. client'[t] = view
          BY <1>12, <2>1, <3>3
        <4>2. QED
          BY <1>2, <1>6, <1>9, <3>1, <3>3, <4>1 DEF ClientSound, Found, Won
      <3>4. QED
        BY <3>2, <3>3
    <2>2. QED
      BY <1>12, <2>1
  <1>14. \A t \in Socket : Quiet(t) => Quiet(t)'
    BY <1>6, <1>12 DEF Quiet
  <1>15. \A t \in Socket : t = x => Quiet(t)'
    <2> SUFFICES ASSUME NEW t \in Socket, t = x PROVE Quiet(t)'
      OBVIOUS
    <2>1. CASE client[t].phase = "closed"
      <3>1. ClientSound(t)
        BY DEF MatchInv, OneInv
      <3>2. QED
        BY <1>12, <2>1, <3>1 DEF Quiet, ClientSound
    <2>2. CASE client[t].phase # "closed"
      BY <1>6, <1>12, <2>2 DEF Quiet
    <2>3. QED
      BY <2>1, <2>2
  <1>16. \A t \in Socket : Owner[t] \notin todo'[s] => Quiet(t)'
    BY <1>2, <1>3, <1>8, <1>11, <1>14, <1>15 DEF HandlerSound
  <1>17. \A t \in Socket : t # s => pc'[t] \notin Restarting
    BY <1>2, <1>3, <1>8 DEF HandlerSound, Restarting
  <1>18. HandlerSound(s)'
    BY <1>2, <1>3, <1>8, <1>16, <1>17 DEF HandlerSound, Restarting
  <1>19. ASSUME NEW t \in Socket, t # s PROVE HandlerSound(t)'
    <2>1. HandlerSound(t) /\ pc'[t] = pc[t] /\ pc'[t] \notin Restarting
      BY <1>3, <1>17, <1>19 DEF MatchInv, OneInv
    <2>2. QED
      BY <1>2, <2>1 DEF HandlerSound, Restarting
  <1>20. QED
    BY <1>12, <1>13, <1>18, <1>19 DEF OneInv

\* The least thread that is not born, when those up to n are the ones that are.
LEMMA NextRun ==
    ASSUME TypeOK, StartRun, NEW n \in Nat, \A r \in Run : rpc[r] = "unborn" <=> r > n
    PROVE  n + 1 \in Run /\ rpc' = [rpc EXCEPT ![n + 1] = "fetch"]
  <1>1. PICK r \in Run : /\ rpc[r] = "unborn"
                         /\ \A q \in Run : rpc[q] = "unborn" => r <= q
                         /\ rpc' = [rpc EXCEPT ![r] = "fetch"]
    BY DEF StartRun
  <1>2. r \in Nat /\ r > n /\ MaxRuns \in Nat /\ r <= MaxRuns
    BY <1>1, BoundAssumption DEF Run
  <1>3. n + 1 \in Run
    BY <1>2 DEF Run
  <1>4. rpc[n + 1] = "unborn"
    BY <1>3
  <1>5. r = n + 1
    BY <1>1, <1>2, <1>3, <1>4
  <1>6. QED
    BY <1>1, <1>3, <1>5

\* Both players asked and wait, and the thread that deals the next game is the
\* one of its number.
LEMMA ResetStep ==
    ASSUME OneSocket, MatchInv, NEW s \in Socket, ResetForRematch(s)
    PROVE  OneInv'
  <1> USE DEF fields, outside, handlers, runs, clients, history
  <1>1. /\ UNCHANGED <<connections, todo, peer, rtodo, client, inbox, decided, verdictOf>>
        /\ pc[s] = "reset" /\ game' = game + 1 /\ StartRun /\ requests' = {}
        /\ counts' = [p \in Player |-> 0] /\ ~started' /\ game < MaxGames
    BY DEF ResetForRematch, NoRequests, FreshCounts
  <1>2. pc'[s] = "recv" /\ \A t \in Socket : t # s => pc'[t] = pc[t]
    BY DEF ResetForRematch, MatchInv, TypeOK
  <1>3. requests = Player /\ HandlerSound(s) /\ \A t \in Socket : Quiet(t)
    BY <1>1 DEF MatchInv, OneInv, HandlerSound, Restarting
  <1>4. /\ \A t \in Socket : client[t].asked /\ OnlyDeclines(t)
        /\ Won /\ game \in Run /\ game \in Nat
    <2>1. \A t \in Socket : Owner[t] \in requests /\ MessageSound(t)
      BY <1>3, SocketAssumption DEF MatchInv, OneInv
    <2>2. game \in Nat /\ game \in Run
      BY DEF MatchInv, OneInv, RunsSound, TypeOK, Game
    <2>3. QED
      BY <2>1, <2>2 DEF MessageSound
  <1>5. BothConnected(connections)
    BY <1>4 DEF MatchInv, OneInv, RunsSound, Won
  <1>6. game' \in Run /\ rpc' = [rpc EXCEPT ![game'] = "fetch"]
    <2>1. \A r \in Run : rpc[r] = "unborn" <=> r > game
      BY <1>5 DEF MatchInv, OneInv, RunsSound
    <2>2. QED
      BY <1>1, <1>4, <2>1, NextRun DEF MatchInv
  <1>7. rpc'[game'] = "fetch" /\ \A r \in Run : r # game' => rpc'[r] = rpc[r]
    BY <1>6 DEF MatchInv, TypeOK
  <1>8. ConnectionsSound'
    <2>1. client[s].phase # "off"
      BY <1>1 DEF MatchInv, OneInv, ConnectionsSound
    <2>2. QED
      BY <1>1, <1>2, <2>1, ConnectionsFrame DEF MatchInv, OneInv
  <1>9. RunsSound'
    <2>1. \A r \in Run : r \in Nat
      BY DEF Run
    <2>2. \A r \in Run : rpc'[r] = "unborn" <=> r > game' \/ ~BothConnected(connections')
      BY <1>1, <1>4, <1>5, <1>6, <1>7, <2>1 DEF MatchInv, OneInv, RunsSound
    <2>3. \A r \in Run : r < game' => rpc'[r] = "ended"
      BY <1>1, <1>4, <1>7, <2>1 DEF MatchInv, OneInv, RunsSound, Won
    <2>4. \A g \in Game : g < game' => decided'[g] \in Player
      <3>1. \A g \in Game : g \in Nat
        BY DEF Game
      <3>2. QED
        BY <1>1, <1>4, <3>1 DEF MatchInv, OneInv, RunsSound, Won
    <2>5. BothConnected(connections')
      BY <1>1, <1>5
    <2>6. QED
      BY <1>6, <1>7, <2>2, <2>3, <2>4, <2>5 DEF RunsSound
  <1>10. \A t \in Socket : ClientSound(t)'
    <2> SUFFICES ASSUME NEW t \in Socket PROVE ClientSound(t)'
      OBVIOUS
    <2>1. ClientSound(t) /\ Quiet(t) /\ client'[t] = client[t]
      BY <1>1, <1>3 DEF MatchInv, OneInv
    <2>2. QED
      BY <1>7, <2>1 DEF ClientSound, Quiet
  <1>11. \A t \in Socket : MessageSound(t)'
    <2> SUFFICES ASSUME NEW t \in Socket PROVE MessageSound(t)'
      OBVIOUS
    <2>1. OnlyDeclines(t) /\ inbox'[t] = inbox[t]
      BY <1>1, <1>4
    <2>2. \A x : Has(t, x)' => x = "rematch_decline"
      BY <2>1 DEF OnlyDeclines, Has
    <2>3. \A i, j \in 1..Len(inbox'[t]) :
             i < j /\ inbox'[t][i] = "rematch_request" => inbox'[t][j] = "rematch_decline"
      BY <2>1 DEF OnlyDeclines
    <2>4. QED
      BY <1>1, <2>2, <2>3 DEF MessageSound
  <1>12. \A t \in Socket : HandlerSound(t)'
    <2> SUFFICES ASSUME NEW t \in Socket PROVE HandlerSound(t)'
      OBVIOUS
    <2>1. \A u \in Socket : pc'[u] \notin Restarting
      BY <1>1, <1>2, <1>3 DEF HandlerSound, Restarting
    <2>2. pc'[t] \notin Result
      <3>1. Owner[t] \in requests /\ HandlerSound(t)
        BY <1>3, SocketAssumption DEF MatchInv, OneInv
      <3>2. QED
        BY <1>2, <3>1 DEF HandlerSound, Result
    <2>3. QED
      BY <2>1, <2>2 DEF HandlerSound, Result, Restarting
  <1>13. \A t \in Socket : CountSound(t)'
    <2> SUFFICES ASSUME NEW t \in Socket PROVE CountSound(t)'
      OBVIOUS
    <2>1. CountSound(t) /\ Owner[t] \in Player
      BY SocketAssumption DEF MatchInv, OneInv
    <2>2. counts[Owner[t]] \in Nat /\ client[t].made \in Nat /\ inbox[t] \in Seq(Message)
      BY <2>1, BoundAssumption DEF MatchInv, TypeOK, Client
    <2>3. Reveals(t) \in Nat /\ Reveals(t)' = Reveals(t)
      BY <1>1, <2>2, RevealsFinite DEF Reveals
    <2>4. QED
      BY <1>1, <2>1, <2>2, <2>3 DEF CountSound
  <1>14. CountsReset'
    BY <1>1 DEF CountsReset
  <1>15. QED
    BY <1>8, <1>9, <1>10, <1>11, <1>12, <1>13, <1>14 DEF OneInv

\* Until the thread of the current game is done, nobody has solved its board,
\* asked for a rematch or been told a winner, and no handler speaks of one.
LEMMA EarlyFacts ==
    ASSUME OneSocket, MatchInv, rpc[game] # "ended"
    PROVE  /\ \A t \in Socket : /\ pc[t] \notin Result \cup Restarting
                                /\ ~Has(t, "game_complete") /\ ~Has(t, "rematch_request")
                                /\ Owner[t] \notin requests
                                /\ client[t].told = None
           /\ rpc[game] # "deal" =>
                \A t \in Socket : /\ ~Has(t, "reveal")
                                  /\ client[t].phase \notin {"playing", "solved"}
  <1>1. ASSUME NEW t \in Socket
        PROVE  /\ ~Has(t, "game_complete") /\ ~Has(t, "rematch_request")
               /\ Owner[t] \notin requests /\ client[t].told = None
               /\ rpc[game] # "deal" => /\ ~Has(t, "reveal")
                                        /\ client[t].phase \notin {"playing", "solved"}
    <2>1. ClientSound(t) /\ MessageSound(t) /\ ~Won
      BY DEF MatchInv, OneInv, Won
    <2>2. QED
      BY <2>1 DEF ClientSound, MessageSound, Won, Dealt
  <1>2. ASSUME NEW t \in Socket PROVE pc[t] \notin Result \cup Restarting
    <2>1. HandlerSound(t) /\ Owner[t] \in Player
      BY SocketAssumption DEF MatchInv, OneInv
    <2>2. QED
      BY <1>1, <2>1 DEF HandlerSound, Result, Restarting
  <1>3. QED
    BY <1>1, <1>2

\* A player who connects finds a match that has not begun.
LEMMA ConnectStep ==
    ASSUME OneSocket, MatchInv, NEW s \in Socket, AddConnection(s)
    PROVE  OneInv'
  <1> USE DEF fields, outside, handlers, runs, clients, history
  <1>1. /\ UNCHANGED <<board, started, counts, requests, todo, peer, rtodo, inbox, game,
                       decided, verdictOf>>
        /\ client[s].phase = "off"
        /\ connections' = [connections EXCEPT ![Owner[s]] = s]
        /\ BothConnected(connections') \/ rpc' = rpc
        /\ BothConnected(connections') => StartRun
    BY DEF AddConnection
  <1>2. /\ client'[s] = [client[s] EXCEPT !.phase = "lobby"] /\ client[s] \in Client
        /\ \A t \in Socket : t # s => client'[t] = client[t] /\ pc'[t] = pc[t]
        /\ pc'[s] = "recv"
    BY DEF AddConnection, MatchInv, TypeOK
  <1>3. /\ client'[s].phase = "lobby" /\ client'[s].made = client[s].made
        /\ client'[s].told = client[s].told /\ client'[s].asked = client[s].asked
    BY <1>2 DEF Client
  <1>4. /\ Owner[s] \in Player /\ connections[Owner[s]] = None /\ s # None
        /\ ~BothConnected(connections)
    BY <1>1, SocketAssumption DEF MatchInv, OneInv, ConnectionsSound, BothConnected
  <1>5. /\ game = 1 /\ game \in Run /\ \A r \in Run : rpc[r] = "unborn"
    BY <1>4 DEF MatchInv, OneInv, RunsSound
  <1>6. \A r \in Run : r \in Nat /\ r >= 1
    BY DEF Run
  <1>7. \/ rpc' = rpc /\ ~BothConnected(connections')
        \/ rpc' = [rpc EXCEPT ![1] = "fetch"] /\ BothConnected(connections')
    <2>1. CASE BothConnected(connections')
      <3>1. \A r \in Run : rpc[r] = "unborn" <=> r > 0
        BY <1>5, <1>6
      <3>2. 0 + 1 = 1 /\ StartRun
        BY <1>1, <2>1
      <3>3. rpc' = [rpc EXCEPT ![0 + 1] = "fetch"]
        BY <3>1, <3>2, NextRun DEF MatchInv
      <3>4. QED
        BY <2>1, <3>2, <3>3
    <2>2. CASE ~BothConnected(connections')
      BY <1>1, <2>2
    <2>3. QED
      BY <2>1, <2>2
  <1>8. rpc'[game'] \in {"unborn", "fetch"} /\ game' = 1
    BY <1>1, <1>5, <1>7 DEF MatchInv, TypeOK
  <1>9. /\ \A t \in Socket : /\ pc[t] \notin Result \cup Restarting
                             /\ ~Has(t, "game_complete") /\ ~Has(t, "rematch_request")
                             /\ Owner[t] \notin requests /\ client[t].told = None
                             /\ ~Has(t, "reveal")
                             /\ client[t].phase \notin {"playing", "solved"}
    BY <1>5, EarlyFacts
  <1>10. ConnectionsSound'
    <2>1. connections'[Owner[s]] = s /\ \A p \in Player : p # Owner[s] => connections'[p] = connections[p]
      BY <1>1, <1>4 DEF MatchInv, TypeOK
    <2>2. \A p \in Player : connections'[p] # None => Owner[connections'[p]] = p
      BY <2>1 DEF MatchInv, OneInv, ConnectionsSound
    <2>3. ASSUME NEW t \in Socket
          PROVE  /\ client'[t].phase = "off" <=> connections'[Owner[t]] = None
                 /\ client'[t].phase = "off" => pc'[t] = "none" /\ inbox'[t] = <<>>
      <3>1. CASE t = s
        BY <1>3, <1>4, <2>1, <3>1
      <3>2. CASE t # s
        <4>1. Owner[t] # Owner[s] /\ Owner[t] \in Player
          BY <3>2, SocketAssumption DEF OneSocket
        <4>2. QED
          BY <1>1, <1>2, <2>1, <3>2, <4>1 DEF MatchInv, OneInv, ConnectionsSound
      <3>3. QED
        BY <3>1, <3>2
    <2>4. ASSUME NEW t \in Socket, peer'[t] # None PROVE client'[peer'[t]].phase # "off"
      <3>1. peer'[t] \in Socket /\ client[peer'[t]].phase # "off"
        BY <1>1, <2>4 DEF MatchInv, OneInv, ConnectionsSound, TypeOK
      <3>2. QED
        BY <1>1, <1>2, <3>1
    <2>5. QED
      BY <2>2, <2>3, <2>4 DEF ConnectionsSound
  <1>11. RunsSound'
    <2>1. \A r \in Run : rpc'[r] = "unborn" <=> r > game' \/ ~BothConnected(connections')
      BY <1>5, <1>6, <1>7, <1>8 DEF MatchInv, TypeOK
    <2>2. \A g \in Game : ~(g < game')
      BY <1>8 DEF Game
    <2>3. QED
      BY <1>1, <1>5, <1>6, <1>8, <2>1, <2>2 DEF RunsSound, BothConnected
  <1>12. \A t \in Socket : ClientSound(t)'
    <2> SUFFICES ASSUME NEW t \in Socket PROVE ClientSound(t)'
      OBVIOUS
    <2>1. ClientSound(t)
      BY DEF MatchInv, OneInv
    <2>2. CASE t = s
      BY <1>1, <1>3, <1>8, <2>1, <2>2 DEF ClientSound
    <2>3. CASE t # s
      BY <1>2, <1>8, <1>9, <2>1, <2>3 DEF ClientSound
    <2>4. QED
      BY <2>2, <2>3
  <1>13. \A t \in Socket : MessageSound(t)'
    BY <1>1, <1>9 DEF MatchInv, OneInv, MessageSound, Has
  <1>14. \A t \in Socket : HandlerSound(t)'
    <2>1. \A t \in Socket : pc'[t] \notin Result \cup Restarting
      BY <1>2, <1>9 DEF Result, Restarting
    <2>2. QED
      BY <2>1 DEF HandlerSound, Result, Restarting
  <1>15. \A t \in Socket : CountSound(t)'
    <2>1. \A t \in Socket : /\ client'[t].made = client[t].made
                            /\ client[t].phase = "closed" => client'[t].phase = "closed"
      BY <1>1, <1>2, <1>3
    <2>2. QED
      BY <1>1, <2>1, CountFrame DEF MatchInv, OneInv
  <1>16. CountsReset'
    BY <1>1, <1>5 DEF MatchInv, OneInv, CountsReset
  <1>17. QED
    BY <1>10, <1>11, <1>12, <1>13, <1>14, <1>15, <1>16 DEF OneInv

\* The thread of the current game goes on, while nobody's handler depends on it.
LEMMA RunFrame ==
    ASSUME OneSocket, MatchInv, NEW x \in {"found", "mark", "count", "deal", "ended"},
           rpc[game] \notin {"unborn", "ended"}, rpc' = [rpc EXCEPT ![game] = x],
           x = "found" => board' = game /\ rpc[game] \in {"fetch", "found"},
           x = "deal" => started', started => started',
           rpc[game] = "deal" => x \in {"deal", "ended"},
           UNCHANGED <<connections, counts, requests, game, decided, verdictOf, inbox,
                       peer, pc, todo>>,
           \A t \in Socket : client'[t].phase = "off" <=> client[t].phase = "off"
    PROVE  /\ ConnectionsSound' /\ RunsSound' /\ CountsReset'
           /\ \A t \in Socket : MessageSound(t)' /\ HandlerSound(t)'
  <1>1. /\ game \in Run /\ BothConnected(connections)
        /\ rpc'[game] = x /\ \A r \in Run : r # game => rpc'[r] = rpc[r]
    BY DEF MatchInv, OneInv, RunsSound, TypeOK
  <1>2. ConnectionsSound'
    BY ConnectionsFrame DEF MatchInv, OneInv
  <1>3. RunsSound'
    <2>1. \A r \in Run : r \in Nat
      BY DEF Run
    <2>2. \A r \in Run : rpc'[r] = "unborn" <=> r > game \/ ~BothConnected(connections)
      BY <1>1, <2>1 DEF MatchInv, OneInv, RunsSound
    <2>3. \A r \in Run : r < game => rpc'[r] = "ended"
      BY <1>1, <2>1 DEF MatchInv, OneInv, RunsSound
    <2>4. QED
      BY <1>1, <2>2, <2>3 DEF RunsSound, MatchInv, OneInv
  <1>4. CountsReset'
    BY <1>1 DEF MatchInv, OneInv, CountsReset
  <1>5. ASSUME NEW t \in Socket PROVE MessageSound(t)' /\ HandlerSound(t)'
    <2>1. \A u \in Socket : pc'[u] \notin Result \cup Restarting
      BY EarlyFacts
    <2>2. HandlerSound(t)'
      BY <2>1 DEF HandlerSound, Result, Restarting
    <2>3. /\ ~Has(t, "game_complete") /\ ~Has(t, "rematch_request")
          /\ Owner[t] \notin requests /\ MessageSound(t)
      BY EarlyFacts DEF MatchInv, OneInv
    <2>4. Dealt => Dealt'
      BY <1>1 DEF Dealt
    <2>5. MessageSound(t)'
      BY <2>3, <2>4 DEF MessageSound, Has
    <2>6. QED
      BY <2>2, <2>5
  <1>6. QED
    BY <1>2, <1>3, <1>4, <1>5

\* Steps of the thread that send nothing.
LEMMA RunQuietStep ==
    ASSUME OneSocket, MatchInv, NEW r \in Run,
           FetchBoard(r) \/ FetchFails(r) \/ MarkInGame(r) \/ StartGame(r)
    PROVE  OneInv'
  <1> USE DEF fields, outside, handlers, runs, clients, history
  <1>1. /\ rpc[r] \in {"fetch", "mark", "count"}
        /\ UNCHANGED <<connections, counts, requests, game, decided, verdictOf, inbox,
                       peer, pc, todo, client>>
    BY DEF FetchBoard, FetchFails, MarkInGame, StartGame
  <1>2. r = game /\ BothConnected(connections)
    BY <1>1, RunFacts DEF MatchInv, OneInv
  <1>3. PICK x \in {"found", "count", "deal", "ended"} :
           /\ rpc' = [rpc EXCEPT ![game] = x]
           /\ x = "found" => board' = game /\ rpc[game] = "fetch" /\ rtodo'[game] = Connected
           /\ x = "count" => rpc[game] = "mark"
           /\ x = "deal" => started' /\ rpc[game] = "count"
           /\ started => started'
    <2>1. rtodo \in [Run -> SUBSET Player] /\ game \in Run
      BY DEF MatchInv, TypeOK, OneInv, RunsSound
    <2>2. CASE FetchBoard(r)
      BY <1>2, <2>1, <2>2 DEF FetchBoard
    <2>3. CASE FetchFails(r) \/ MarkInGame(r) \/ StartGame(r)
      BY <1>2, <2>3 DEF FetchFails, MarkInGame, StartGame
    <2>4. QED
      BY <2>2, <2>3
  <1>4. rpc'[game] = x /\ game \in Run
    BY <1>3 DEF MatchInv, TypeOK, OneInv, RunsSound
  <1>5. /\ ConnectionsSound' /\ RunsSound' /\ CountsReset'
        /\ \A t \in Socket : MessageSound(t)' /\ HandlerSound(t)'
    BY <1>1, <1>2, <1>3, RunFrame
  <1>6. \A t \in Socket : ClientSound(t)'
    <2> SUFFICES ASSUME NEW t \in Socket PROVE ClientSound(t)'
      OBVIOUS
    <2>1. ClientSound(t) /\ Owner[t] \in Player
      BY SocketAssumption DEF MatchInv, OneInv
    <2>2. client[t].told = None /\ client[t].phase \notin {"playing", "solved"}
      BY <1>1, <1>2, EarlyFacts
    <2>3. Connected = Player
      BY <1>2 DEF BothConnected, Connected
    <2>4. x \in {"count", "deal"} => Found(t)
      BY <1>3, <2>1 DEF ClientSound
    <2>5. x = "found" => Owner[t] \in rtodo'[game]
      BY <1>3, <2>1, <2>3
    <2>6. Found(t)' <=> Found(t)
      BY <1>1 DEF Found
    <2>7. QED
      BY <1>1, <1>4, <2>1, <2>2, <2>4, <2>5, <2>6 DEF ClientSound
  <1>7. \A t \in Socket : CountSound(t)'
    BY <1>1, CountFrame DEF MatchInv, OneInv
  <1>8. QED
    BY <1>5, <1>6, <1>7 DEF OneInv

\* match_found, to one player after the other: a client that hears it forgets the
\* game before, and no reveal of that game is counted or waits.
LEMMA FoundStep ==
    ASSUME OneSocket, MatchInv, NEW r \in Run, SendMatchFound(r)
    PROVE  OneInv'
  <1> USE DEF fields, outside, handlers, history
  <1>1. /\ rpc[r] = "found"
        /\ UNCHANGED <<connections, board, started, counts, requests, game, decided, verdictOf,
                       inbox, peer, pc, todo>>
    BY DEF SendMatchFound
  <1>2. r = game /\ BothConnected(connections) /\ board = game
    <2>1. r = game /\ BothConnected(connections)
      BY <1>1, RunFacts DEF MatchInv, OneInv
    <2>2. QED
      BY <1>1, <2>1 DEF MatchInv, OneInv, RunsSound
  <1>3. PICK p \in rtodo[game] :
           /\ Send(connections[p], HearFound(At(connections[p])))
           /\ rtodo' = [rtodo EXCEPT ![game] = @ \ {p}]
           /\ rpc' = IF rtodo[game] = {p} THEN [rpc EXCEPT ![game] = "mark"] ELSE rpc
    BY <1>2 DEF SendMatchFound
  <1>4. PICK x \in {"found", "mark"} :
           /\ rpc' = [rpc EXCEPT ![game] = x] /\ rpc'[game] = x
           /\ x = "mark" => rtodo[game] = {p}
    <2>1. rpc \in [Run -> Running] /\ game \in Run
      BY DEF MatchInv, TypeOK, OneInv, RunsSound
    <2>2. rpc = [rpc EXCEPT ![game] = "found"]
      BY <1>1, <1>2, <2>1
    <2>3. QED
      BY <1>3, <2>1, <2>2
  <1>5. rtodo'[game] = rtodo[game] \ {p} /\ p \in Player
    BY <1>3 DEF MatchInv, TypeOK, OneInv, RunsSound
  <1> DEFINE x0 == connections[p]
             view == HearFound(At(x0))
  <1>6. /\ x0 \in Socket /\ Owner[x0] = p /\ client[x0].phase # "off"
        /\ \A t \in Socket : Owner[t] = p => t = x0
        /\ client \in [Socket -> Client] /\ At(x0) \in Client
    BY <1>2, <1>5, ConnectionFacts, AtType DEF MatchInv, OneInv, BothConnected, TypeOK
  <1>7. /\ view.phase = "found" /\ view.square = game /\ view.made = 0
        /\ ~view.asked /\ view.told = None /\ ~view.left
    BY <1>2 DEF HearFound, NewClient
  <1>8. Send(x0, view)
    BY <1>3
  <1> HIDE DEF x0, view
  <1>9. \A t \in Socket : client'[t] = IF t = x0 /\ client[t].phase # "closed"
                                       THEN view ELSE client[t]
    BY <1>6, <1>8, SendFacts
  <1>10. /\ ConnectionsSound' /\ RunsSound' /\ CountsReset'
         /\ \A t \in Socket : MessageSound(t)' /\ HandlerSound(t)'
    <2>1. \A t \in Socket : client'[t].phase = "off" <=> client[t].phase = "off"
      BY <1>6, <1>7, <1>9
    <2>2. QED
      BY <1>1, <1>2, <1>4, <2>1, RunFrame
  <1>11. ASSUME NEW t \in Socket PROVE ClientSound(t)'
    <2>1. /\ ClientSound(t) /\ client[t].told = None
          /\ client[t].phase \notin {"playing", "solved"}
      BY <1>1, <1>2, EarlyFacts DEF MatchInv, OneInv
    <2>2. CASE t = x0
      <3>1. CASE client[t].phase = "closed"
        BY <1>9, <2>1, <3>1 DEF ClientSound, Found
      <3>2. CASE client[t].phase # "closed"
        <4>1. client'[t] = view
          BY <1>9, <2>2, <3>2
        <4>2. QED
          BY <1>1, <1>7, <4>1 DEF ClientSound, Found
      <3>3. QED
        BY <3>1, <3>2
    <2>3. CASE t # x0
      <3>1. client'[t] = client[t] /\ Owner[t] # p
        BY <1>6, <1>9, <2>3
      <3>2. Owner[t] \notin rtodo'[game] => Owner[t] \notin rtodo[game]
        BY <1>5, <3>1
      <3>3. x = "mark" => Owner[t] \notin rtodo[game]
        BY <1>4, <3>1
      <3>4. Owner[t] \notin rtodo[game] => Found(t)
        BY <1>1, <1>2, <2>1 DEF ClientSound
      <3>5. Found(t)' <=> Found(t)
        BY <1>1, <3>1 DEF Found
      <3>6. QED
        BY <1>1, <1>4, <2>1, <3>1, <3>2, <3>3, <3>4, <3>5 DEF ClientSound
    <2>4. QED
      BY <2>2, <2>3
  <1>12. ASSUME NEW t \in Socket PROVE CountSound(t)'
    <2>1. CASE client'[t] = client[t]
      BY <1>1, <2>1, CountFrame DEF MatchInv, OneInv
    <2>2. CASE client'[t] = view
      <3>1. inbox[t] \in Seq(Message) /\ ~Has(t, "reveal")
        BY <1>1, <1>2, EarlyFacts DEF MatchInv, TypeOK
      <3>2. RevealsIn(inbox[t]) = {}
        BY <3>1 DEF RevealsIn, Has
      <3>3. Cardinality({}) = 0
        BY FS_EmptySet
      <3>4. Reveals(t)' = 0
        BY <1>1, <3>2, <3>3 DEF Reveals
      <3>5. counts[Owner[t]] = 0
        BY <1>1, <1>2, SocketAssumption DEF MatchInv, OneInv, CountsReset
      <3>6. QED
        BY <1>1, <1>7, <2>2, <3>4, <3>5 DEF CountSound
    <2>3. QED
      BY <1>9, <2>1, <2>2
  <1>13. QED
    BY <1>10, <1>11, <1>12 DEF OneInv

\* game_start, to one player after the other: they all heard match_found.
LEMMA StartStep ==
    ASSUME OneSocket, MatchInv, NEW r \in Run, SendGameStart(r)
    PROVE  OneInv'
  <1> USE DEF fields, outside, handlers, history
  <1>1. /\ rpc[r] = "deal"
        /\ UNCHANGED <<connections, board, started, counts, requests, game, decided, verdictOf,
                       inbox, peer, pc, todo>>
    BY DEF SendGameStart
  <1>2. r = game /\ BothConnected(connections) /\ started
    <2>1. r = game /\ BothConnected(connections)
      BY <1>1, RunFacts DEF MatchInv, OneInv
    <2>2. QED
      BY <1>1, <2>1 DEF MatchInv, OneInv, RunsSound
  <1>3. PICK p \in rtodo[game] :
           /\ Send(connections[p], HearStart(At(connections[p]), game))
           /\ rpc' = IF rtodo[game] = {p} THEN [rpc EXCEPT ![game] = "ended"] ELSE rpc
    BY <1>2 DEF SendGameStart
  <1>4. PICK x \in {"deal", "ended"} : rpc' = [rpc EXCEPT ![game] = x] /\ rpc'[game] = x
    <2>1. rpc \in [Run -> Running] /\ game \in Run
      BY DEF MatchInv, TypeOK, OneInv, RunsSound
    <2>2. rpc = [rpc EXCEPT ![game] = "deal"]
      BY <1>1, <1>2, <2>1
    <2>3. QED
      BY <1>3, <2>1, <2>2
  <1>5. p \in Player /\ game \in Run
    BY <1>3 DEF MatchInv, TypeOK, OneInv, RunsSound
  <1> DEFINE x0 == connections[p]
             view == HearStart(At(x0), game)
  <1>6. /\ x0 \in Socket /\ client[x0].phase # "off"
        /\ client \in [Socket -> Client] /\ At(x0) \in Client /\ At(x0) = client[x0]
    <2>1. x0 \in Socket /\ client[x0].phase # "off" /\ x0 # None
      BY <1>2, <1>5, ConnectionFacts, SocketAssumption DEF MatchInv, OneInv, BothConnected
    <2>2. QED
      BY <2>1, AtType DEF MatchInv, TypeOK, At
  <1>7. /\ view.phase = "playing" /\ view.board = game /\ view.square = client[x0].square
        /\ view.made = client[x0].made /\ view.asked = client[x0].asked
        /\ view.told = client[x0].told
    BY <1>5, <1>6 DEF Client, HearStart
  <1>8. Send(x0, view)
    BY <1>3
  <1> HIDE DEF x0, view
  <1>9. \A t \in Socket : client'[t] = IF t = x0 /\ client[t].phase # "closed"
                                       THEN view ELSE client[t]
    BY <1>6, <1>8, SendFacts
  <1>10. /\ ConnectionsSound' /\ RunsSound' /\ CountsReset'
         /\ \A t \in Socket : MessageSound(t)' /\ HandlerSound(t)'
    <2>1. \A t \in Socket : client'[t].phase = "off" <=> client[t].phase = "off"
      BY <1>6, <1>7, <1>9
    <2>2. QED
      BY <1>1, <1>2, <1>4, <2>1, RunFrame
  <1>11. ASSUME NEW t \in Socket PROVE ClientSound(t)'
    <2>1. ClientSound(t) /\ client[t].told = None /\ Found(t)
      BY <1>1, <1>2, EarlyFacts DEF MatchInv, OneInv, ClientSound
    <2>2. Dealt'
      BY <1>1, <1>2, <1>4 DEF Dealt
    <2>3. CASE client'[t] = client[t]
      <3>1. Found(t)'
        BY <1>1, <2>1, <2>3 DEF Found
      <3>2. QED
        BY <1>1, <1>4, <2>1, <2>2, <2>3, <3>1 DEF ClientSound
    <2>4. CASE t = x0 /\ client[t].phase # "closed"
      <3>1. client'[t] = view /\ client[t].square = game /\ ~client[t].asked
        BY <1>9, <2>1, <2>4 DEF Found
      <3>2. Found(t)'
        BY <1>1, <1>7, <2>4, <3>1 DEF Found
      <3>3. QED
        BY <1>1, <1>4, <1>7, <2>1, <2>2, <2>4, <3>1, <3>2 DEF ClientSound
    <2>5. QED
      BY <1>9, <2>3, <2>4
  <1>12. ASSUME NEW t \in Socket PROVE CountSound(t)'
    <2>1. client'[t].made = client[t].made
      BY <1>7, <1>9
    <2>2. client[t].phase = "closed" => client'[t].phase = "closed"
      BY <1>9
    <2>3. QED
      BY <1>1, <2>1, <2>2, CountFrame DEF MatchInv, OneInv
  <1>13. QED
    BY <1>10, <1>11, <1>12 DEF OneInv

\* One step for each kind of action.
LEMMA MatchStep ==
    (OneSocket /\ MatchInv) /\ [Next]_vars => (OneSocket /\ MatchInv)'
  <1> SUFFICES ASSUME OneSocket, MatchInv, [Next]_vars PROVE OneSocket' /\ MatchInv'
    OBVIOUS
  <1>1. OneSocket'
    BY DEF OneSocket
  <1>2. TypeOK' /\ ResultInv'
    BY TypeStep, ResultStep DEF MatchInv
  <1>3. ASSUME NEW s \in Socket, ClientStep(s) PROVE OneInv'
    BY <1>3, SayStep, LeaveStep DEF ClientStep
  <1>4. ASSUME NEW s \in Socket, AddConnection(s) PROVE OneInv'
    BY <1>4, ConnectStep
  <1>5. ASSUME NEW s \in Socket, Handle(s) PROVE OneInv'
    BY <1>5, RevealStep, CompletionStep, QuietHandlerStep, GameOverStep, RequestStep,
       AcceptedStep, ResetStep, RefusalStep, DisconnectStep DEF Handle
  <1>6. ASSUME NEW r \in Run, RunMatch(r) PROVE OneInv'
    BY <1>6, RunQuietStep, FoundStep, StartStep DEF RunMatch
  <1>7. CASE UNCHANGED vars
    <2> USE <1>7 DEF vars, fields, outside, handlers, runs, clients, history
    <2>1. ConnectionsSound' /\ RunsSound'
      BY ConnectionsFrame, RunsFrame DEF MatchInv, OneInv
    <2>2. \A t \in Socket : ClientSound(t)' /\ MessageSound(t)' /\ CountSound(t)'
      BY ClientFrame, MessageFrame, CountFrame DEF MatchInv, OneInv
    <2>3. \A t \in Socket : HandlerSound(t)'
      <3>1. \A t \in Socket : Quiet(t) => Quiet(t)'
        BY DEF Quiet
      <3>2. QED
        BY <3>1, HandlersFrame DEF MatchInv, OneInv
    <2>4. CountsReset'
      BY DEF MatchInv, OneInv, CountsReset
    <2>5. QED
      BY <1>1, <1>2, <2>1, <2>2, <2>3, <2>4 DEF MatchInv, OneInv
  <1>8. QED
    BY <1>1, <1>2, <1>3, <1>4, <1>5, <1>6, <1>7 DEF Next, MatchInv

LEMMA MatchInit == Init => OneInv
  <1> SUFFICES ASSUME Init PROVE OneInv
    OBVIOUS
  <1> USE DEF Init
  <1>1. /\ game = 1 /\ game \in Run /\ \A r \in Run : rpc[r] = "unborn" /\ r \in Nat /\ r >= 1
        /\ ~BothConnected(connections) /\ \A g \in Game : ~(g < 1)
    BY BoundAssumption DEF Run, Game, BothConnected, Player
  <1>2. \A t \in Socket : /\ client[t] = NewClient /\ pc[t] = "none" /\ inbox[t] = <<>>
                          /\ peer[t] = None
    OBVIOUS
  <1>3. /\ NewClient.phase = "off" /\ NewClient.told = None /\ ~NewClient.asked
        /\ NewClient.made = 0
    BY DEF NewClient
  <1>4. ConnectionsSound
    BY <1>2, <1>3, SocketAssumption DEF ConnectionsSound
  <1>5. RunsSound
    BY <1>1 DEF RunsSound
  <1>6. \A t \in Socket : ClientSound(t)
    BY <1>1, <1>2, <1>3 DEF ClientSound
  <1>7. \A t \in Socket : Len(inbox[t]) = 0 /\ 1..0 = {}
    BY <1>2
  <1>8. \A t \in Socket : MessageSound(t)
    BY <1>7 DEF MessageSound, Has, OnlyDeclines
  <1>9. \A t \in Socket : HandlerSound(t)
    BY <1>2 DEF HandlerSound, Restarting
  <1>10. \A t \in Socket : CountSound(t)
    <2> SUFFICES ASSUME NEW t \in Socket PROVE CountSound(t)
      OBVIOUS
    <2>1. RevealsIn(inbox[t]) = {}
      BY <1>7 DEF RevealsIn
    <2>2. Reveals(t) = 0
      BY <2>1, FS_EmptySet DEF Reveals
    <2>3. counts[Owner[t]] = 0
      BY SocketAssumption
    <2>4. QED
      BY <1>2, <1>3, <2>2, <2>3 DEF CountSound
  <1>11. CountsReset
    BY DEF CountsReset
  <1>12. QED
    BY <1>4, <1>5, <1>6, <1>8, <1>9, <1>10, <1>11 DEF OneInv

\* When each player has one connection, thread r deals game r and everything that
\* waits in a channel or runs in a handler is of the current game.
THEOREM MatchInvariant == OneSocket /\ Spec => [](OneSocket /\ MatchInv)
  <1>1. Init => MatchInv
    BY MatchInit, InitType, InitResult DEF MatchInv
  <1>2. QED
    BY <1>1, MatchStep, PTL DEF Spec

\* SameBoard: with one connection per player, two players who play each other
\* play the same board and were shown its opening square (Match._run_match).
THEOREM BoardsAgree == OneSocket /\ Spec => []SameBoard
  <1>1. OneSocket /\ MatchInv => SameBoard
    <2> SUFFICES ASSUME OneSocket, MatchInv PROVE SameBoard
      OBVIOUS
    <2>1. \A p \in Connected : connections[p] \in Socket
      BY ConnectionFacts DEF MatchInv, OneInv, Connected
    <2>2. \A s \in Socket : ClientSound(s)
      BY DEF MatchInv, OneInv
    <2>3. QED
      BY <2>1, <2>2 DEF SameBoard, ClientSound
  <1>2. QED
    BY <1>1, MatchInvariant, PTL

\* CountsFresh: with one connection per player, the revealed count of a player
\* never counts a reveal of an earlier game (Match._reset_for_rematch).
THEOREM CountsOfThisGame == OneSocket /\ Spec => []CountsFresh
  <1>1. OneSocket /\ MatchInv => CountsFresh
    <2> SUFFICES ASSUME OneSocket, MatchInv, NEW p \in Connected,
                        client[connections[p]].phase # "closed"
                 PROVE  counts[p] <= client[connections[p]].made
      BY DEF CountsFresh
    <2>1. /\ p \in Player /\ connections[p] \in Socket /\ Owner[connections[p]] = p
      BY ConnectionFacts DEF MatchInv, OneInv, Connected
    <2>2. CountSound(connections[p])
      BY <2>1 DEF MatchInv, OneInv
    <2>3. /\ counts[p] \in Nat /\ client[connections[p]].made \in Nat
          /\ inbox[connections[p]] \in Seq(Message)
      BY <2>1, BoundAssumption DEF MatchInv, TypeOK, Client
    <2>4. Reveals(connections[p]) \in Nat
      BY <2>3, RevealsFinite DEF Reveals
    <2>5. QED
      BY <2>1, <2>2, <2>3, <2>4 DEF CountSound
  <1>2. QED
    BY <1>1, MatchInvariant, PTL

\* VerdictAgrees: with one connection per player, a player who is told a winner
\* is told the winner of the current game (Match._handle_completion).
THEOREM WinnerTold == OneSocket /\ Spec => []VerdictAgrees
  <1>1. OneSocket /\ MatchInv => VerdictAgrees
    BY DEF MatchInv, OneInv, VerdictAgrees, ClientSound
  <1>2. QED
    BY <1>1, MatchInvariant, PTL

\* RematchNeedsConsent: with one connection per player, a game follows another only
\* when both players asked for it in the game before (Match._handle_rematch_request).
THEOREM RematchIsAgreed == OneSocket /\ Spec => RematchNeedsConsent
  <1>1. (OneSocket /\ MatchInv) /\ [Next]_vars =>
           [game' # game => \A p \in Player : client[connections[p]].asked]_vars
    <2> SUFFICES ASSUME OneSocket, MatchInv, Next, game' # game, NEW p \in Player
                 PROVE  client[connections[p]].asked
      OBVIOUS
    <2>1. PICK s \in Socket : ResetForRematch(s)
      BY DEF Next, ClientStep, Reveal, Solve, AskRematch, RefuseRematch, Leave, Say,
             AddConnection, Handle, HandleReveal, IgnoreCompletion, HandleCompletion,
             UpdateElo, SendGameOver, RecordHeadToHead, HandleRematchRequest,
             SendRematchAccepted, HandleRematchDecline, SendRematchDeclined,
             HandleDisconnect, SendOff, SendOpponentDisconnected, SetOnline, RunMatch,
             FetchBoard, FetchFails, SendMatchFound, MarkInGame, StartGame,
             SendGameStart, history
    <2>2. requests = Player
      BY <2>1 DEF ResetForRematch, MatchInv, OneInv, HandlerSound, Restarting
    <2>3. MessageSound(s) /\ Owner[s] \in requests /\ game \in Run
      BY <2>2, SocketAssumption DEF MatchInv, OneInv, RunsSound
    <2>4. BothConnected(connections)
      BY <2>3 DEF MessageSound, Won, MatchInv, OneInv, RunsSound
    <2>5. connections[p] \in Socket /\ Owner[connections[p]] = p
      BY <2>4, ConnectionFacts DEF MatchInv, OneInv, BothConnected
    <2>6. QED
      BY <2>2, <2>5 DEF MatchInv, OneInv, MessageSound
  <1>2. QED
    BY <1>1, MatchInvariant, PTL DEF Spec, RematchNeedsConsent

------------------------------------------------------------------------------
(* The match implements GameResults, when each player has one connection.     *)

Verdicts == [g \in Game |-> Verdict(g)]

\* The verdict of a game, from the variables it is made of.
LEMMA VerdictFacts ==
    ASSUME OneSocket, MatchInv
    PROVE  /\ \A g \in Game : /\ g > game => decided[g] = Undecided
                              /\ g < game => decided[g] \in Player
                              /\ decided[g] # Undecided => Verdict(g) = decided[g]
                              /\ g # game /\ decided[g] = Undecided => Verdict(g) = "waiting"
           /\ decided[game] = Undecided =>
                 Verdict(game) = IF started THEN "running" ELSE "waiting"
           /\ game \in Game /\ game \in Nat /\ Undecided \notin Player
  <1>1. game \in Game /\ game \in Nat /\ \A g \in Game : g \in Nat
    BY DEF MatchInv, TypeOK, Game
  <1>2. Undecided \notin Player
    BY PlayerAssumption
  <1>3. \A g \in Game : /\ g > game => decided[g] = Undecided
                        /\ g < game => decided[g] \in Player
    BY DEF MatchInv, ResultInv, OneInv, RunsSound
  <1>4. QED
    BY <1>1, <1>2, <1>3 DEF Verdict

\* Steps that decide no game, start none and record nothing are not seen.
LEMMA ResultsStutter ==
    ASSUME OneSocket, MatchInv, UNCHANGED <<game, decided, elo, h2h>>,
           started' = started \/ decided[game] # Undecided
    PROVE  UNCHANGED Results!vars
  <1>1. \A g \in Game : Verdict(g)' = Verdict(g)
    BY VerdictFacts DEF Verdict, Game
  <1>2. QED
    BY <1>1 DEF Results!vars

\* A handler that decides the current game wins it when it has started and
\* abandons it when it has not.
LEMMA ResultsDecide ==
    ASSUME OneSocket, MatchInv, UNCHANGED <<game, started, elo, h2h>>,
           decided[game] = Undecided, NEW w \in Player \cup {Void},
           decided' = [decided EXCEPT ![game] = w],
           IF started THEN w \in Player ELSE w = Void
    PROVE  Results!Next
  <1>1. /\ decided'[game] = w /\ w # Undecided /\ game \in Game
        /\ \A g \in Game : g # game => decided'[g] = decided[g]
        /\ \A g \in Game : g > game => decided[g] = Undecided
    BY PlayerAssumption, VerdictFacts DEF MatchInv, TypeOK, Undecided, Void
  <1>2. Verdict(game)' = w
    BY <1>1 DEF Verdict, Game
  <1>3. \A g \in Game : g # game => Verdict(g)' = Verdict(g)
    BY <1>1 DEF Verdict
  <1>4. Verdicts' = [Verdicts EXCEPT ![game] = w]
    BY <1>1, <1>2, <1>3 DEF Verdicts
  <1>5. Verdicts[game] = IF started THEN "running" ELSE "waiting"
    BY <1>1, VerdictFacts DEF Verdicts
  <1>6. CASE started
    BY <1>4, <1>5, <1>6 DEF Results!Next, Results!Win, Results!Underway, Verdicts
  <1>7. CASE ~started
    BY <1>4, <1>5, <1>7 DEF Results!Next, Results!Abandon, Results!Waiting,
                            Results!Abandoned, Verdicts, Void
  <1>8. QED
    BY <1>6, <1>7

\* A table gains one win, of a game that was won, or stays as it is.
LEMMA ResultsRecord ==
    ASSUME OneSocket, MatchInv, NEW s \in Socket, UpdateElo(s) \/ RecordHeadToHead(s)
    PROVE  Results!Next \/ UNCHANGED Results!vars
  <1> DEFINE v == verdictOf[s]
             w == Winner(s)
  <1> USE DEF fields, history
  <1>1. v \in Game /\ w \in Player /\ decided[v] = w
    BY SocketAssumption, OpponentType
       DEF MatchInv, ResultInv, TypeOK, Winner, UpdateElo, RecordHeadToHead, Recording
  <1>2. UNCHANGED <<game, decided, started>>
    BY DEF UpdateElo, RecordHeadToHead
  <1>3. Verdict(v) = w
    BY <1>1, VerdictFacts
  <1>4. Verdicts' = Verdicts
    BY <1>2 DEF Verdicts, Verdict, Game
  <1>5. CASE UpdateElo(s)
    <2>1. elo[v][w] = 0 /\ h2h' = h2h /\ elo' \in {elo, [elo EXCEPT ![v][w] = @ + 1]}
      BY <1>1, <1>5 DEF UpdateElo, MatchInv, ResultInv, Unrated, Record
    <2>2. CASE elo' = elo
      BY <1>2, <1>4, <2>1, <2>2 DEF Results!vars, Verdicts
    <2>3. CASE elo' = [elo EXCEPT ![v][w] = @ + 1]
      <3>1. elo' = [elo EXCEPT ![v][w] = 1]
        BY <2>1, <2>3
      <3> HIDE DEF v, w
      <3>2. Verdicts[v] = w
        BY <1>1, <1>3 DEF Verdicts
      <3>3. Results!CountElo(v, w)
        BY <1>2, <1>4, <2>1, <3>1, <3>2 DEF Results!CountElo, Verdicts
      <3>4. v \in Results!Game
        BY <1>1 DEF Results!Game, Game
      <3>5. QED
        BY <1>1, <3>3, <3>4 DEF Results!Next
    <2>4. QED
      BY <2>1, <2>2, <2>3
  <1>6. CASE RecordHeadToHead(s)
    <2>1. h2h[v][w] = 0 /\ elo' = elo /\ h2h' \in {h2h, [h2h EXCEPT ![v][w] = @ + 1]}
      BY <1>1, <1>6 DEF RecordHeadToHead, MatchInv, ResultInv, Unscored, Record
    <2>2. CASE h2h' = h2h
      BY <1>2, <1>4, <2>1, <2>2 DEF Results!vars, Verdicts
    <2>3. CASE h2h' = [h2h EXCEPT ![v][w] = @ + 1]
      <3>1. h2h' = [h2h EXCEPT ![v][w] = 1]
        BY <2>1, <2>3
      <3> HIDE DEF v, w
      <3>2. Verdicts[v] = w
        BY <1>1, <1>3 DEF Verdicts
      <3>3. Results!CountHeadToHead(v, w)
        BY <1>2, <1>4, <2>1, <3>1, <3>2 DEF Results!CountHeadToHead, Verdicts
      <3>4. v \in Results!Game
        BY <1>1 DEF Results!Game, Game
      <3>5. QED
        BY <1>1, <3>3, <3>4 DEF Results!Next
    <2>4. QED
      BY <2>1, <2>2, <2>3
  <1>7. QED
    BY <1>5, <1>6

\* The current game begins, unless somebody left before.
LEMMA ResultsStart ==
    ASSUME OneSocket, MatchInv, NEW r \in Run, StartGame(r)
    PROVE  Results!Next \/ UNCHANGED Results!vars
  <1>1. UNCHANGED <<game, decided, elo, h2h>> /\ started'
    BY DEF StartGame, outside, history
  <1>2. CASE decided[game] # Undecided \/ started
    BY <1>1, <1>2, ResultsStutter DEF MatchInv, TypeOK
  <1>3. CASE decided[game] = Undecided /\ ~started
    <2>1. game \in Game /\ Verdict(game) = "waiting"
      BY <1>3, VerdictFacts
    <2>2. Verdict(game)' = "running"
      BY <1>1, <1>3, <2>1 DEF Verdict, Game
    <2>3. \A g \in Game : g # game => Verdict(g)' = Verdict(g)
      BY <1>1, VerdictFacts DEF Verdict, Game
    <2>4. Verdicts' = [Verdicts EXCEPT ![game] = "running"]
      <3>1. \A g \in Game : Verdict(g)' = IF g = game THEN "running" ELSE Verdict(g)
        BY <1>1, <2>2, <2>3
      <3>2. QED
        BY <2>1, <3>1 DEF Verdicts
    <2>5. Verdicts[game] = "waiting"
      BY <2>1 DEF Verdicts
    <2>6. Results!Begin
      BY <1>1, <2>4, <2>5 DEF Results!Begin, Results!Waiting, Results!Underway, Verdicts
    <2>7. QED
      BY <2>6 DEF Results!Next
  <1>4. QED
    BY <1>2, <1>3

\* A rematch follows a game that was won.
LEMMA ResultsRematch ==
    ASSUME OneSocket, MatchInv, NEW s \in Socket, ResetForRematch(s)
    PROVE  Results!Next
  <1>1. /\ game' = game + 1 /\ game < MaxGames /\ ~started' /\ requests = Player
        /\ UNCHANGED <<decided, elo, h2h>>
    BY DEF ResetForRematch, outside, MatchInv, OneInv, HandlerSound, Restarting
  <1>2. decided[game] \in Player
    <2>1. Owner[s] \in requests /\ MessageSound(s)
      BY <1>1, SocketAssumption DEF MatchInv, OneInv
    <2>2. QED
      BY <2>1 DEF MessageSound, Won
  <1>3. \A g \in Game : Verdict(g)' = Verdict(g)
    <2> SUFFICES ASSUME NEW g \in Game PROVE Verdict(g)' = Verdict(g)
      OBVIOUS
    <2>1. g \in Nat /\ game \in Nat /\ decided'[g] = decided[g]
      BY <1>1, VerdictFacts DEF Game
    <2>2. CASE g <= game
      <3>1. decided[g] \in Player /\ decided[g] # Undecided
        BY <1>2, <2>1, <2>2, VerdictFacts
      <3>2. QED
        BY <1>1, <2>1, <2>2, <3>1 DEF Verdict
    <2>3. CASE g > game
      <3>1. decided[g] = Undecided
        BY <2>3, VerdictFacts
      <3>2. Verdict(g) = "waiting"
        BY <2>3 DEF Verdict
      <3>3. Verdict(g)' = "waiting"
        BY <1>1, <2>1, <3>1 DEF Verdict
      <3>4. QED
        BY <3>2, <3>3
    <2>4. QED
      BY <2>1, <2>2, <2>3
  <1>4. Verdicts' = Verdicts
    BY <1>3 DEF Verdicts, Game
  <1>5. game \in Game /\ Verdicts[game] \in Player
    BY <1>2, VerdictFacts DEF Verdicts
  <1>6. Results!Rematch
    BY <1>1, <1>4, <1>5 DEF Results!Rematch, Verdicts
  <1>7. QED
    BY <1>6 DEF Results!Next

LEMMA ResultsStep ==
    (OneSocket /\ MatchInv) /\ [Next]_vars => [Results!Next]_(Results!vars)
  <1> SUFFICES ASSUME OneSocket, MatchInv, [Next]_vars
               PROVE  Results!Next \/ UNCHANGED Results!vars
    OBVIOUS
  <1> USE DEF fields, outside, handlers, runs, clients, history
  <1>1. ASSUME NEW s \in Socket, HandleCompletion(s) PROVE Results!Next
    <2>1. /\ decided[game] = Undecided /\ decided' = [decided EXCEPT ![game] = Owner[s]]
          /\ UNCHANGED <<game, started, elo, h2h>> /\ Receive(s, "game_complete")
      BY <1>1 DEF HandleCompletion, CompletionCounts, MatchInv, ResultInv
    <2>2. Has(s, "game_complete")
      BY <2>1, PopFacts DEF MatchInv
    <2>3. started
      BY <2>2 DEF MatchInv, OneInv, MessageSound, Dealt
    <2>4. Owner[s] \in Player
      BY SocketAssumption
    <2>5. QED
      BY <2>1, <2>3, <2>4, ResultsDecide
  <1>2. ASSUME NEW s \in Socket, HandleDisconnect(s)
        PROVE  Results!Next \/ UNCHANGED Results!vars
    <2>1. UNCHANGED <<game, started, elo, h2h>>
      BY <1>2 DEF HandleDisconnect
    <2>2. CASE finished
      <3>1. decided' = decided
        BY <1>2, <2>2 DEF HandleDisconnect
      <3>2. QED
        BY <2>1, <3>1, ResultsStutter
    <2>3. CASE ~finished
      <3>1. /\ decided[game] = Undecided
            /\ decided' = [decided EXCEPT ![game] = DisconnectVerdict(s)]
        BY <1>2, <2>3 DEF HandleDisconnect, MatchInv, ResultInv
      <3>2. IF started THEN DisconnectVerdict(s) \in Player ELSE DisconnectVerdict(s) = Void
        BY SocketAssumption, OpponentType DEF DisconnectVerdict
      <3>3. QED
        BY <2>1, <3>1, <3>2, ResultsDecide
    <2>4. QED
      BY <2>2, <2>3
  <1>3. ASSUME NEW s \in Socket,
               \/ ClientStep(s) \/ AddConnection(s) \/ HandleReveal(s)
               \/ IgnoreCompletion(s) \/ SendGameOver(s) \/ HandleRematchRequest(s)
               \/ SendRematchAccepted(s) \/ HandleRematchDecline(s)
               \/ SendRematchDeclined(s) \/ SendOff(s) \/ SendOpponentDisconnected(s)
               \/ SetOnline(s)
        PROVE  UNCHANGED Results!vars
    <2>1. UNCHANGED <<game, decided, elo, h2h, started>>
      BY <1>3 DEF ClientStep, Reveal, Solve, AskRematch, RefuseRematch, Leave, Say,
                  AddConnection, HandleReveal, IgnoreCompletion, SendGameOver,
                  HandleRematchRequest, SendRematchAccepted, HandleRematchDecline,
                  SendRematchDeclined, SendOff, SendOpponentDisconnected, SetOnline
    <2>2. QED
      BY <2>1, ResultsStutter
  <1>4. ASSUME NEW r \in Run,
               FetchBoard(r) \/ FetchFails(r) \/ SendMatchFound(r) \/ MarkInGame(r)
                             \/ SendGameStart(r)
        PROVE  UNCHANGED Results!vars
    <2>1. UNCHANGED <<game, decided, elo, h2h, started>>
      BY <1>4 DEF FetchBoard, FetchFails, SendMatchFound, MarkInGame, SendGameStart
    <2>2. QED
      BY <2>1, ResultsStutter
  <1>5. CASE UNCHANGED vars
    <2>1. UNCHANGED <<game, decided, elo, h2h, started>>
      BY <1>5 DEF vars
    <2>2. QED
      BY <2>1, ResultsStutter
  <1>6. QED
    BY <1>1, <1>2, <1>3, <1>4, <1>5, ResultsRecord, ResultsStart, ResultsRematch
       DEF Next, Handle, RunMatch

\* ImplementsGameResults: with one connection per player, the games of a match
\* follow one another, each is begun and won once or abandoned before, and each
\* is counted at most once in each table.
THEOREM MatchImplementsGameResults == OneSocket /\ Spec => ImplementsGameResults
  <1>1. Init => Results!Init
    <2> SUFFICES ASSUME Init PROVE Results!Init
      OBVIOUS
    <2>1. \A g \in Game : Verdict(g) = "waiting"
      BY DEF Init, Verdict
    <2>2. QED
      BY <2>1 DEF Init, Results!Init, Results!Game, Results!Waiting, Game
  <1>2. QED
    BY <1>1, ResultsStep, MatchInvariant, PTL
       DEF Spec, ImplementsGameResults, Results!Spec

------------------------------------------------------------------------------
(* Any number of connections.                                                *)

\* A client is told a winner by nobody but a handler that sends game_over.
LEMMA ToldStep ==
    ASSUME TypeOK, [Next]_vars, NEW t \in Socket
    PROVE  \/ client'[t].told \in {None, client[t].told}
           \/ \E s \in Socket : pc[s] = "tell" /\ client'[t].told = Owner[s]
  <1> USE DEF fields, outside, handlers, runs, clients, history
  <1>1. client \in [Socket -> Client] /\ client[t] \in Client
    BY DEF TypeOK
  <1>2. \A x \in Socket \cup {None} :
           /\ At(x) \in Client
           /\ x # None => At(x) = client[x]
    BY <1>1, AtType DEF At
  <1>3. ASSUME NEW x \in Socket \cup {None}, NEW view, Send(x, view),
               view.told \in {None, At(x).told}
        PROVE  client'[t].told \in {None, client[t].told}
    <2>1. client'[t] = IF t = x /\ client[t].phase # "closed" THEN view ELSE client[t]
      BY <1>1, <1>3, SendFacts
    <2>2. QED
      BY <1>2, <1>3, <2>1, SocketAssumption
  <1>4. \A x \in Socket \cup {None}, r \in Run :
           /\ HearAccepted(At(x)).told = None
           /\ HearOff(At(x)).told = At(x).told /\ HearLeft(At(x)).told = At(x).told
           /\ HearFound(At(x)).told = None /\ HearStart(At(x), r).told = At(x).told
    BY <1>2 DEF Client, HearAccepted, HearOff, HearLeft, HearFound, HearStart, NewClient
  <1>5. \A p \in Player : connections[p] \in Socket \cup {None}
    BY DEF TypeOK
  <1>6. ASSUME NEW s \in Socket, Reveal(s) \/ Solve(s) \/ AskRematch(s) \/ RefuseRematch(s)
        PROVE  client'[t].told \in {None, client[t].told}
    <2>1. client[s] \in Client
      BY <1>1
    <2>2. PICK m \in Message,
              c \in {[client[s] EXCEPT !.made = @ + 1], [client[s] EXCEPT !.phase = "solved"],
                     [client[s] EXCEPT !.asked = TRUE], [client[s] EXCEPT !.refused = TRUE]} :
                 Say(s, m, c)
      BY <1>6 DEF Reveal, Solve, AskRematch, RefuseRematch
    <2>3. c.told = client[s].told
      BY <2>1, <2>2 DEF Client
    <2>4. client'[t] = IF t = s THEN c ELSE client[t]
      BY <2>2, PushFacts
    <2>5. QED
      BY <2>3, <2>4
  <1>7. ASSUME NEW s \in Socket, Leave(s) PROVE client'[t].told \in {None, client[t].told}
    BY <1>1, <1>7 DEF Leave, NewClient
  <1>8. ASSUME NEW s \in Socket, AddConnection(s)
        PROVE  client'[t].told \in {None, client[t].told}
    <2>1. client'[t] = IF t = s THEN [client[t] EXCEPT !.phase = "lobby"] ELSE client[t]
      BY <1>1, <1>8 DEF AddConnection
    <2>2. QED
      BY <1>1, <2>1 DEF Client
  <1>9. ASSUME NEW s \in Socket, SendGameOver(s)
        PROVE  \/ client'[t].told \in {None, client[t].told}
               \/ \E u \in Socket : pc[u] = "tell" /\ client'[t].told = Owner[u]
    <2>1. PICK p \in todo[s] : Send(connections[p], HearOver(At(connections[p]), Owner[s]))
      BY <1>9 DEF SendGameOver
    <2>2. connections[p] \in Socket \cup {None} /\ pc[s] = "tell"
      BY <1>5, <1>9 DEF TypeOK, SendGameOver
    <2>3. client'[t] = IF t = connections[p] /\ client[t].phase # "closed"
                       THEN HearOver(At(connections[p]), Owner[s]) ELSE client[t]
      BY <1>1, <2>1, <2>2, SendFacts
    <2>4. HearOver(At(connections[p]), Owner[s]).told = Owner[s]
      BY <1>2, <2>2 DEF HearOver, Client
    <2>5. QED
      BY <2>2, <2>3, <2>4
  <1>10. ASSUME NEW s \in Socket, SendRematchAccepted(s)
         PROVE  client'[t].told \in {None, client[t].told}
    <2>1. PICK p \in todo[s] : Send(connections[p], HearAccepted(At(connections[p])))
      BY <1>10 DEF SendRematchAccepted
    <2>2. connections[p] \in Socket \cup {None}
      BY <1>5 DEF TypeOK
    <2>3. QED
      BY <1>3, <1>4, <2>1, <2>2, BoundAssumption DEF Run
  <1>11. ASSUME NEW s \in Socket,
                SendRematchDeclined(s) \/ SendOff(s) \/ SendOpponentDisconnected(s)
         PROVE  client'[t].told \in {None, client[t].told}
    <2>1. /\ connections[Opponent(Owner[s])] \in Socket \cup {None}
          /\ peer[s] \in Socket \cup {None}
      BY SocketAssumption, OpponentType DEF TypeOK
    <2>2. PICK x \in Socket \cup {None} : Send(x, HearOff(At(x))) \/ Send(x, HearLeft(At(x)))
      BY <1>11, <2>1 DEF SendRematchDeclined, SendOff, SendOpponentDisconnected
    <2>3. 1 \in Run
      BY BoundAssumption DEF Run
    <2>4. QED
      BY <1>3, <1>4, <2>2, <2>3
  <1>12. ASSUME NEW r \in Run, SendMatchFound(r) \/ SendGameStart(r)
         PROVE  client'[t].told \in {None, client[t].told}
    <2>1. PICK p \in rtodo[r] : \/ Send(connections[p], HearFound(At(connections[p])))
                                \/ Send(connections[p], HearStart(At(connections[p]), r))
      BY <1>12 DEF SendMatchFound, SendGameStart
    <2>2. connections[p] \in Socket \cup {None}
      BY <1>5 DEF TypeOK
    <2>3. QED
      BY <1>3, <1>4, <2>1, <2>2
  <1>13. ASSUME NEW s \in Socket,
                \/ HandleReveal(s) \/ IgnoreCompletion(s) \/ HandleCompletion(s)
                \/ UpdateElo(s) \/ RecordHeadToHead(s) \/ HandleRematchRequest(s)
                \/ ResetForRematch(s) \/ HandleRematchDecline(s) \/ HandleDisconnect(s)
                \/ SetOnline(s)
         PROVE  client' = client
    BY <1>13 DEF HandleReveal, IgnoreCompletion, HandleCompletion, UpdateElo,
                 RecordHeadToHead, HandleRematchRequest, ResetForRematch,
                 HandleRematchDecline, HandleDisconnect, SetOnline
  <1>14. ASSUME NEW r \in Run, FetchBoard(r) \/ FetchFails(r) \/ MarkInGame(r) \/ StartGame(r)
         PROVE  client' = client
    BY <1>14 DEF FetchBoard, FetchFails, MarkInGame, StartGame
  <1>15. CASE UNCHANGED vars
    BY <1>15 DEF vars
  <1>16. QED
    BY <1>6, <1>7, <1>8, <1>9, <1>10, <1>11, <1>12, <1>13, <1>14, <1>15
       DEF Next, ClientStep, Handle, RunMatch

\* A game that is decided keeps its verdict.
LEMMA DecidedStays ==
    ASSUME TypeOK, ResultInv, [Next]_vars, NEW g \in Game, decided[g] # Undecided
    PROVE  decided'[g] = decided[g]
  <1> USE DEF fields, outside, handlers, runs, clients, history
  <1>1. ASSUME NEW s \in Socket, HandleCompletion(s) \/ HandleDisconnect(s)
        PROVE  decided'[g] = decided[g]
    <2>1. \/ decided' = decided
          \/ decided[game] = Undecided /\ decided' = [decided EXCEPT ![game] = Owner[s]]
          \/ decided[game] = Undecided /\ decided' = [decided EXCEPT ![game] = DisconnectVerdict(s)]
      BY <1>1 DEF HandleCompletion, CompletionCounts, HandleDisconnect, ResultInv
    <2>2. decided \in [Game -> Player \cup {Undecided, Void}]
      BY DEF TypeOK
    <2>3. QED
      BY <2>1, <2>2
  <1>2. ASSUME NEW s \in Socket,
               \/ ClientStep(s) \/ AddConnection(s) \/ HandleReveal(s) \/ IgnoreCompletion(s)
               \/ UpdateElo(s) \/ SendGameOver(s) \/ RecordHeadToHead(s)
               \/ HandleRematchRequest(s) \/ SendRematchAccepted(s) \/ ResetForRematch(s)
               \/ HandleRematchDecline(s) \/ SendRematchDeclined(s) \/ SendOff(s)
               \/ SendOpponentDisconnected(s) \/ SetOnline(s)
        PROVE  decided' = decided
    BY <1>2 DEF ClientStep, Reveal, Solve, AskRematch, RefuseRematch, Leave, Say,
                AddConnection, HandleReveal, IgnoreCompletion, UpdateElo, SendGameOver,
                RecordHeadToHead, HandleRematchRequest, SendRematchAccepted,
                ResetForRematch, HandleRematchDecline, SendRematchDeclined, SendOff,
                SendOpponentDisconnected, SetOnline
  <1>3. ASSUME NEW r \in Run, RunMatch(r) PROVE decided' = decided
    BY <1>3 DEF RunMatch, FetchBoard, FetchFails, SendMatchFound, MarkInGame, StartGame,
                SendGameStart
  <1>4. CASE UNCHANGED vars
    BY <1>4 DEF vars
  <1>5. QED
    BY <1>1, <1>2, <1>3, <1>4 DEF Next, Handle

OneGame == MaxGames = 1

\* VerdictAgrees: in a match without a rematch, whoever is told a winner is told
\* the one that was decided, also on a second connection of a player.
THEOREM WinnerToldToAll == OneGame /\ Spec => []VerdictAgrees
  <1>1. Init => VerdictAgrees
    BY DEF Init, VerdictAgrees, NewClient
  <1>2. (OneGame /\ TypeOK /\ ResultInv /\ VerdictAgrees) /\ [Next]_vars
           => (OneGame /\ VerdictAgrees)'
    <2> SUFFICES ASSUME OneGame, TypeOK, ResultInv, VerdictAgrees, [Next]_vars,
                        NEW t \in Socket, client'[t].told # None
                 PROVE  decided'[game'] = client'[t].told
      BY DEF VerdictAgrees, OneGame
    <2>1. game = 1 /\ game' = 1 /\ \A g \in Game : g = 1
      BY TypeStep DEF TypeOK, Game, OneGame
    <2>2. /\ game \in Game /\ Undecided \notin Player
          /\ client[t].told \in Player \cup {None} /\ Owner \in [Socket -> Player]
      BY PlayerAssumption, SocketAssumption DEF TypeOK, Client
    <2>3. CASE client'[t].told = client[t].told
      <3>1. decided[game] = client[t].told /\ client[t].told # None
        BY <2>3 DEF VerdictAgrees
      <3>2. QED
        BY <2>1, <2>2, <2>3, <3>1, DecidedStays
    <2>4. ASSUME NEW s \in Socket, pc[s] = "tell", client'[t].told = Owner[s]
          PROVE  decided'[game'] = client'[t].told
      <3>1. verdictOf[s] = game /\ decided[verdictOf[s]] = Owner[s]
        BY <2>1, <2>4 DEF TypeOK, ResultInv, Recording, Winner
      <3>2. QED
        BY <2>1, <2>2, <2>4, <3>1, DecidedStays
    <2>5. QED
      BY <2>3, <2>4, ToldStep
  <1>3. QED
    BY <1>1, <1>2, InitType, TypeStep, InitResult, ResultStep, PTL DEF Spec
==============================================================================

-------------------------------- MODULE Match --------------------------------
(***************************************************************************)
(* One Match object of match.py and everything that runs on it:            *)
(*   - one ws_handler greenlet per WebSocket (or bot connection),          *)
(*   - the _run_match threads that deal a board and start a game,          *)
(*   - the two clients, which send and leave as they please.               *)
(*                                                                         *)
(* A step is what runs between two points where a greenlet or thread may   *)
(* yield: a send, a sleep or a database call (at which the threads of the  *)
(* server of app.py switch, and the gevent worker may not).  What the code *)
(* does under `_lock`, up to the next such point, is therefore one step.   *)
(* A message the server sends is heard at once; a message a client sends   *)
(* waits in `inbox`.  A client that acts on an old view of the game sent   *)
(* earlier, so a delay of one direction is enough.                         *)
(***************************************************************************)
EXTENDS Naturals, Sequences

CONSTANTS
    Player1, Player2,   \* the two usernames of the match
    Socket,             \* connections opened on this match
    Owner,              \* the username each connection was opened with
    GoogleUsers,        \* the players whose ticket carries a user_id
    DbMayFail,          \* may a database call raise?
    OneTab,             \* does a player open a connection only when it has none?
    MaxGames,           \* bound: games played on the match, rematches included
    MaxRuns,            \* bound: _run_match threads started
    MaxInFlight,        \* bound: client messages not yet received
    MaxReveals,         \* bound: reveals a client sends in one game
    None                \* Python's None

Player == {Player1, Player2}
Game == 1..MaxGames
Run == 1..MaxRuns

Undecided == "undecided"    \* finished is still False
Void == "void"              \* somebody left before the game had started

ASSUME PlayerAssumption == Player1 # Player2 /\ Player \cap {None, Undecided, Void} = {}
ASSUME SocketAssumption == Owner \in [Socket -> Player] /\ None \notin Socket
ASSUME RunAssumption == None \notin Run
ASSUME BoundAssumption == /\ MaxGames \in Nat \ {0}
                          /\ MaxRuns \in Nat \ {0}
                          /\ MaxInFlight \in Nat \ {0}
                          /\ MaxReveals \in Nat
ASSUME ModeAssumption == GoogleUsers \subseteq Player /\ {DbMayFail, OneTab} \subseteq BOOLEAN

Opponent(p) == IF p = Player1 THEN Player2 ELSE Player1

VARIABLES
    \* the fields of the Match object; `board` stands for starting_square too
    connections, board, started, finished, counts, requests, declined,
    \* what it writes elsewhere: session tracker, invite store, database
    status, invited, elo, h2h,
    \* ws_handler greenlets: control point, players still to be sent the
    \* current message, opponent_ws as handle_disconnect read it
    pc, todo, peer,
    \* _run_match threads
    rpc, rtodo,
    \* clients, and the messages they sent that no handler has received
    client, inbox,
    \* history: the number of the current game, who won each game, and the
    \* game that each handler decided
    game, decided, verdictOf

fields == <<connections, board, started, finished, counts, requests, declined>>
outside == <<status, invited, elo, h2h>>
handlers == <<pc, todo, peer>>
runs == <<rpc, rtodo>>
clients == <<client, inbox>>
history == <<game, decided, verdictOf>>
vars == <<fields, outside, handlers, runs, clients, history>>

Message == {"reveal", "game_complete", "rematch_request", "rematch_decline"}
Handling == {"none", "recv", "rate", "tell", "score", "accept", "reset", "deny",
             "off", "dscore", "drate", "left", "free", "done"}
Running == {"unborn", "fetch", "found", "mark", "count", "deal", "ended"}
Phase == {"off", "lobby", "found", "playing", "solved", "over", "closed"}

\* What a client knows: where it is in the protocol, the board and the opening
\* square it was dealt, the reveals it made, whether it asked for or declined a
\* rematch, the winner it was told, and whether it was told the rematch is off
\* or that its opponent left.
Client == [phase : Phase, board : Run \cup {None}, square : Run \cup {None},
           made : 0..MaxReveals, asked : BOOLEAN, refused : BOOLEAN,
           told : Player \cup {None}, off : BOOLEAN, left : BOOLEAN]

NewClient == [phase |-> "off", board |-> None, square |-> None, made |-> 0,
              asked |-> FALSE, refused |-> FALSE, told |-> None,
              off |-> FALSE, left |-> FALSE]

TypeOK ==
    /\ connections \in [Player -> Socket \cup {None}]
    /\ board \in Run \cup {None}
    /\ started \in BOOLEAN /\ finished \in BOOLEAN /\ declined \in BOOLEAN
    /\ counts \in [Player -> Nat]
    /\ requests \subseteq Player
    /\ status \in [Player -> {"online", "in_game"}]
    /\ invited \subseteq Player
    /\ elo \in [Game -> [Player -> Nat]] /\ h2h \in [Game -> [Player -> Nat]]
    /\ pc \in [Socket -> Handling]
    /\ todo \in [Socket -> SUBSET Player]
    /\ peer \in [Socket -> Socket \cup {None}]
    /\ rpc \in [Run -> Running]
    /\ rtodo \in [Run -> SUBSET Player]
    /\ client \in [Socket -> Client]
    /\ inbox \in [Socket -> Seq(Message)]
    /\ game \in Game
    /\ decided \in [Game -> Player \cup {Undecided, Void}]
    /\ verdictOf \in [Socket -> Game]

Init ==
    /\ connections = [p \in Player |-> None]
    /\ board = None
    /\ started = FALSE /\ finished = FALSE /\ declined = FALSE
    /\ counts = [p \in Player |-> 0]
    /\ requests = {}
    /\ status = [p \in Player |-> "online"]
    /\ invited = Player             \* all there can be to cancel: nothing else reads it
    /\ elo = [g \in Game |-> [p \in Player |-> 0]]
    /\ h2h = [g \in Game |-> [p \in Player |-> 0]]
    /\ pc = [s \in Socket |-> "none"]
    /\ todo = [s \in Socket |-> {}]
    /\ peer = [s \in Socket |-> None]
    /\ rpc = [r \in Run |-> "unborn"]
    /\ rtodo = [r \in Run |-> {}]
    /\ client = [s \in Socket |-> NewClient]
    /\ inbox = [s \in Socket |-> <<>>]
    /\ game = 1
    /\ decided = [g \in Game |-> Undecided]
    /\ verdictOf = [s \in Socket |-> 1]

------------------------------------------------------------------------------
(* What a client makes of each message.  A send to a closed socket raises    *)
(* and _send swallows it.                                                    *)

HearFound(c) == [NewClient EXCEPT !.phase = "found", !.square = board]
HearStart(c, r) == [c EXCEPT !.phase = "playing", !.board = r]
HearOver(c, w) == [c EXCEPT !.phase = "over", !.told = w]
HearAccepted(c) == [c EXCEPT !.phase = "lobby", !.told = None]
HearOff(c) == [c EXCEPT !.off = TRUE]
HearLeft(c) == [c EXCEPT !.phase = "over", !.left = TRUE]

\* _send(s, ...): the client of s, if it is still there, then knows `view`.
Send(s, view) ==
    client' = IF s = None THEN client
              ELSE IF client[s].phase = "closed" THEN client
              ELSE [client EXCEPT ![s] = view]

\* A view of socket s; any value when there is no socket to send to.
At(s) == IF s = None THEN NewClient ELSE client[s]

Connected == {p \in Player : connections[p] # None}

\* Both players have a user_id, so a result is worth recording.
Rated == Player \subseteq GoogleUsers

\* threading.Thread(target=self._run_match).start()
StartRun ==
    \E r \in Run :
        /\ rpc[r] = "unborn"
        /\ \A q \in Run : rpc[q] = "unborn" => r <= q
        /\ rpc' = [rpc EXCEPT ![r] = "fetch"]

------------------------------------------------------------------------------
(* Clients.                                                                  *)

Say(s, m, c) ==
    /\ Len(inbox[s]) < MaxInFlight
    /\ inbox' = [inbox EXCEPT ![s] = Append(@, m)]
    /\ client' = [client EXCEPT ![s] = c]
    /\ UNCHANGED <<fields, outside, handlers, runs, history>>

Reveal(s) ==
    /\ client[s].phase = "playing"
    /\ client[s].made < MaxReveals
    /\ Say(s, "reveal", [client[s] EXCEPT !.made = @ + 1])

\* A board takes many seconds to solve: by then the broadcast that dealt it, two
\* sends without a wait between them, has ended.
Solve(s) ==
    /\ client[s].phase = "playing"
    /\ rpc[client[s].board] = "ended"
    /\ Say(s, "game_complete", [client[s] EXCEPT !.phase = "solved"])

\* A client asks once per game, and not after it was told the rematch is off.
AskRematch(s) ==
    /\ client[s].phase = "over"
    /\ ~client[s].asked /\ ~client[s].off /\ ~client[s].left
    /\ game < MaxGames
    /\ Say(s, "rematch_request", [client[s] EXCEPT !.asked = TRUE])

\* A player may refuse, also after having asked; bound: not after the last game,
\* which no rematch can follow.
RefuseRematch(s) ==
    /\ client[s].phase = "over"
    /\ ~client[s].refused
    /\ game < MaxGames
    /\ Say(s, "rematch_decline", [client[s] EXCEPT !.refused = TRUE])

\* The tab is closed, the network drops or the bot driver gives up.  What the
\* client knew is gone; that it asked for a rematch stays on record.
Leave(s) ==
    /\ client[s].phase \notin {"off", "closed"}
    /\ client' = [client EXCEPT ![s] = [NewClient EXCEPT !.phase = "closed",
                                                        !.asked = client[s].asked]]
    /\ UNCHANGED <<fields, outside, handlers, runs, inbox, history>>

------------------------------------------------------------------------------
(* ws_handler and the methods of Match it calls.                             *)

\* both_connected; Mutant: one player is enough.
AnyConnected(c) == \E p \in Player : c[p] # None
BothConnected(c) == \A p \in Player : c[p] # None

\* add_connection: registers the socket; the second player starts a game, and so
\* does any player who reconnects to a match that has two.
AddConnection(s) ==
    /\ client[s].phase = "off"
    /\ OneTab => \A t \in Socket \ {s} :
                    Owner[t] = Owner[s] => client[t].phase \in {"off", "closed"}
    /\ client' = [client EXCEPT ![s].phase = "lobby"]
    /\ connections' = [connections EXCEPT ![Owner[s]] = s]
    /\ pc' = [pc EXCEPT ![s] = "recv"]
    /\ IF BothConnected(connections')
       THEN StartRun
       ELSE UNCHANGED rpc
    /\ UNCHANGED <<board, started, finished, counts, requests, declined, outside,
                   todo, peer, rtodo, inbox, history>>

\* ws.receive() returns m to a handler that waits for it.
Receive(s, m) ==
    /\ pc[s] = "recv"
    /\ inbox[s] # <<>> /\ Head(inbox[s]) = m
    /\ inbox' = [inbox EXCEPT ![s] = Tail(@)]

\* reveal, chord: count the cells, forward them to the opponent.
HandleReveal(s) ==
    /\ Receive(s, "reveal")
    /\ counts' = IF finished \/ connections[Opponent(Owner[s])] = None THEN counts
                 ELSE [counts EXCEPT ![Owner[s]] = @ + 1]
    /\ UNCHANGED <<connections, board, started, finished, requests, declined,
                   outside, handlers, runs, client, history>>

\* A game_complete that ends the game.  Mutant: `finished` is not tested again.
CompletionUntested(s) == connections[Opponent(Owner[s])] # None
CompletionCounts(s) == ~finished /\ connections[Opponent(Owner[s])] # None

\* game_complete is ignored when the game is over or there is no opponent.
IgnoreCompletion(s) ==
    /\ Receive(s, "game_complete")
    /\ ~CompletionCounts(s)
    /\ UNCHANGED <<fields, outside, handlers, runs, client, history>>

\* _handle_completion under the lock: the first to complete wins.
HandleCompletion(s) ==
    /\ Receive(s, "game_complete")
    /\ CompletionCounts(s)
    /\ finished' = TRUE
    /\ decided' = [decided EXCEPT ![game] = Owner[s]]
    /\ verdictOf' = [verdictOf EXCEPT ![s] = game]
    /\ pc' = [pc EXCEPT ![s] = "rate"]
    /\ UNCHANGED <<connections, board, started, counts, requests, declined,
                   outside, todo, peer, runs, client, game>>

\* The winner in whose favour handler s records: its own player when it handles
\* a completion, the opponent when it handles a disconnect.
Winner(s) == IF pc[s] \in {"rate", "tell", "score"} THEN Owner[s]
             ELSE Opponent(Owner[s])

\* One database transaction that counts a win in `table` for the game that
\* handler s decided; it may raise, and the exception is swallowed.
Record(s, table) ==
    LET written == [table EXCEPT ![verdictOf[s]][Winner(s)] = @ + 1]
    IN  IF ~Rated THEN {table}
        ELSE IF DbMayFail THEN {table, written}
        ELSE {written}

\* Who is sent game_over.  Mutant: only the opponent.
OnlyOpponent(s) == Connected \ {Owner[s]}
Recipients(s) == Connected

\* _update_elo_ratings, from a completion or from a disconnect.
UpdateElo(s) ==
    /\ pc[s] \in {"rate", "drate"}
    /\ elo' \in Record(s, elo)
    /\ \/ /\ pc[s] = "rate"
          /\ pc' = [pc EXCEPT ![s] = "tell"]
          /\ todo' = [todo EXCEPT ![s] = Recipients(s)]
       \/ /\ pc[s] = "drate"
          /\ pc' = [pc EXCEPT ![s] = "left"]
          /\ UNCHANGED todo
    /\ UNCHANGED <<fields, status, invited, h2h, peer, runs, clients, history>>

\* game_over to one player after the other.
SendGameOver(s) ==
    /\ pc[s] = "tell"
    /\ \E p \in todo[s] :
        /\ Send(connections[p], HearOver(At(connections[p]), Owner[s]))
        /\ todo' = [todo EXCEPT ![s] = @ \ {p}]
        /\ pc' = IF todo[s] = {p} THEN [pc EXCEPT ![s] = "score"] ELSE pc
    /\ UNCHANGED <<fields, outside, peer, runs, inbox, history>>

\* _record_h2h_result, from a completion or from a disconnect.
RecordHeadToHead(s) ==
    /\ pc[s] \in {"score", "dscore"}
    /\ h2h' \in Record(s, h2h)
    /\ pc' = [pc EXCEPT ![s] = IF @ = "score" THEN "recv" ELSE "drate"]
    /\ UNCHANGED <<fields, status, invited, elo, todo, peer, runs, clients, history>>

\* both_requested, with the request of s.  Mutant: read before the request is added.
BothHadRequested(s) == requests = Player
BothRequested(s) == requests \cup {Owner[s]} = Player

\* _handle_rematch_request under the lock.  The second request accepts; the
\* first is only forwarded, which no client state depends on.
HandleRematchRequest(s) ==
    /\ Receive(s, "rematch_request")
    /\ IF finished /\ ~declined
       THEN /\ requests' = requests \cup {Owner[s]}
            /\ IF BothRequested(s)
               THEN /\ pc' = [pc EXCEPT ![s] = "accept"]
                    /\ todo' = [todo EXCEPT ![s] = Connected]
               ELSE UNCHANGED <<pc, todo>>
       ELSE UNCHANGED <<requests, pc, todo>>
    /\ UNCHANGED <<connections, board, started, finished, counts, declined,
                   outside, peer, runs, client, history>>

\* _broadcast rematch_accepted, after the lock was released.
SendRematchAccepted(s) ==
    /\ pc[s] = "accept"
    /\ \E p \in todo[s] :
        /\ Send(connections[p], HearAccepted(At(connections[p])))
        /\ todo' = [todo EXCEPT ![s] = @ \ {p}]
        /\ pc' = IF todo[s] = {p} THEN [pc EXCEPT ![s] = "reset"] ELSE pc
    /\ UNCHANGED <<fields, outside, peer, runs, inbox, history>>

\* What _reset_for_rematch clears.  Mutants: it forgets one of the two.
KeptCounts == counts
FreshCounts == [p \in Player |-> 0]
KeptRequests == requests
NoRequests == {}

\* _reset_for_rematch without the lock, and a new _run_match thread.
ResetForRematch(s) ==
    /\ pc[s] = "reset"
    /\ game < MaxGames
    /\ board' = None
    /\ started' = FALSE /\ finished' = FALSE /\ declined' = FALSE
    /\ counts' = FreshCounts
    /\ requests' = NoRequests
    /\ StartRun
    /\ pc' = [pc EXCEPT ![s] = "recv"]
    /\ game' = game + 1
    /\ UNCHANGED <<connections, outside, todo, peer, rtodo, clients, decided,
                   verdictOf>>

\* _handle_rematch_decline under the lock.
HandleRematchDecline(s) ==
    /\ Receive(s, "rematch_decline")
    /\ IF finished
       THEN /\ declined' = TRUE
            /\ pc' = [pc EXCEPT ![s] = "deny"]
       ELSE UNCHANGED <<declined, pc>>
    /\ UNCHANGED <<connections, board, started, finished, counts, requests,
                   outside, todo, peer, runs, client, history>>

\* ... and its message to the opponent.
SendRematchDeclined(s) ==
    LET o == connections[Opponent(Owner[s])]
    IN  /\ pc[s] = "deny"
        /\ Send(o, HearOff(At(o)))
        /\ pc' = [pc EXCEPT ![s] = "recv"]
        /\ UNCHANGED <<fields, outside, todo, peer, runs, inbox, history>>

\* What a disconnect makes of an unfinished game, and where the handler goes on:
\* the opponent wins a game that started.  Mutants: it wins any game, the
\* result is not recorded.
AlwaysOpponent(s) == Opponent(Owner[s])
DisconnectVerdict(s) == IF started THEN Opponent(Owner[s]) ELSE Void
AlwaysLeft == "left"
AfterDisconnect == IF started THEN "dscore" ELSE "left"

\* The socket is closed, with or without messages left to read: handle_disconnect
\* up to its first send or database call.
HandleDisconnect(s) ==
    /\ pc[s] = "recv"
    /\ client[s].phase = "closed"
    /\ inbox' = [inbox EXCEPT ![s] = <<>>]
    /\ peer' = [peer EXCEPT ![s] = connections[Opponent(Owner[s])]]
    /\ finished' = TRUE
    /\ IF finished
       THEN /\ pc' = [pc EXCEPT ![s] = "off"]
            /\ UNCHANGED <<decided, verdictOf>>
       ELSE /\ pc' = [pc EXCEPT ![s] = AfterDisconnect]
            /\ decided' = [decided EXCEPT ![game] = DisconnectVerdict(s)]
            /\ verdictOf' = [verdictOf EXCEPT ![s] = game]
    /\ UNCHANGED <<connections, board, started, counts, requests, declined,
                   outside, todo, runs, client, game>>

\* rematch_declined, when the game was already over.
SendOff(s) ==
    /\ pc[s] = "off"
    /\ Send(peer[s], HearOff(At(peer[s])))
    /\ pc' = [pc EXCEPT ![s] = "left"]
    /\ UNCHANGED <<fields, outside, todo, peer, runs, inbox, history>>

SendOpponentDisconnected(s) ==
    /\ pc[s] = "left"
    /\ Send(peer[s], HearLeft(At(peer[s])))
    /\ pc' = [pc EXCEPT ![s] = "free"]
    /\ UNCHANGED <<fields, outside, todo, peer, runs, inbox, history>>

\* tracker.set_online for both players: the handler is done.
SetOnline(s) ==
    /\ pc[s] = "free"
    /\ status' = [p \in Player |-> "online"]
    /\ pc' = [pc EXCEPT ![s] = "done"]
    /\ UNCHANGED <<fields, invited, elo, h2h, todo, peer, runs, clients, history>>

------------------------------------------------------------------------------
(* _run_match.                                                               *)

\* get_cached_board or generate_solvable_board.  The board of thread r is named r.
FetchBoard(r) ==
    /\ rpc[r] = "fetch"
    /\ board' = r
    /\ rpc' = [rpc EXCEPT ![r] = "found"]
    /\ rtodo' = [rtodo EXCEPT ![r] = Connected]
    /\ UNCHANGED <<connections, started, finished, counts, requests, declined,
                   outside, handlers, clients, history>>

\* get_cached_board raises: nothing catches it, the thread dies.
FetchFails(r) ==
    /\ rpc[r] = "fetch"
    /\ DbMayFail
    /\ rpc' = [rpc EXCEPT ![r] = "ended"]
    /\ UNCHANGED <<fields, outside, handlers, rtodo, clients, history>>

SendMatchFound(r) ==
    /\ rpc[r] = "found"
    /\ \E p \in rtodo[r] :
        /\ Send(connections[p], HearFound(At(connections[p])))
        /\ rtodo' = [rtodo EXCEPT ![r] = @ \ {p}]
        /\ rpc' = IF rtodo[r] = {p} THEN [rpc EXCEPT ![r] = "mark"] ELSE rpc
    /\ UNCHANGED <<fields, outside, handlers, inbox, history>>

\* set_in_game and cancel_pending_for_user, for both players.
MarkInGame(r) ==
    /\ rpc[r] = "mark"
    /\ status' = [p \in Player |-> "in_game"]
    /\ invited' = {}
    /\ rpc' = [rpc EXCEPT ![r] = "count"]
    /\ UNCHANGED <<fields, elo, h2h, handlers, rtodo, clients, history>>

\* The countdown is over: start_time is set, whether or not the match finished.
StartGame(r) ==
    /\ rpc[r] = "count"
    /\ started' = TRUE
    /\ rpc' = [rpc EXCEPT ![r] = "deal"]
    /\ rtodo' = [rtodo EXCEPT ![r] = Connected]
    /\ UNCHANGED <<connections, board, finished, counts, requests, declined,
                   outside, handlers, clients, history>>

\* _broadcast game_start with the board this thread encoded.
SendGameStart(r) ==
    /\ rpc[r] = "deal"
    /\ \E p \in rtodo[r] :
        /\ Send(connections[p], HearStart(At(connections[p]), r))
        /\ rtodo' = [rtodo EXCEPT ![r] = @ \ {p}]
        /\ rpc' = IF rtodo[r] = {p} THEN [rpc EXCEPT ![r] = "ended"] ELSE rpc
    /\ UNCHANGED <<fields, outside, handlers, inbox, history>>

------------------------------------------------------------------------------
ClientStep(s) == \/ Reveal(s) \/ Solve(s) \/ AskRematch(s) \/ RefuseRematch(s)
                 \/ Leave(s)

Handle(s) == \/ HandleReveal(s) \/ IgnoreCompletion(s) \/ HandleCompletion(s)
             \/ UpdateElo(s) \/ SendGameOver(s) \/ RecordHeadToHead(s)
             \/ HandleRematchRequest(s) \/ SendRematchAccepted(s)
             \/ ResetForRematch(s)
             \/ HandleRematchDecline(s) \/ SendRematchDeclined(s)
             \/ HandleDisconnect(s) \/ SendOff(s)
             \/ SendOpponentDisconnected(s) \/ SetOnline(s)

RunMatch(r) == \/ FetchBoard(r) \/ FetchFails(r) \/ SendMatchFound(r)
               \/ MarkInGame(r) \/ StartGame(r) \/ SendGameStart(r)

Next == \/ \E s \in Socket : ClientStep(s) \/ AddConnection(s) \/ Handle(s)
        \/ \E r \in Run : RunMatch(r)

Spec == Init /\ [][Next]_vars

\* The server's threads run; a client owes nothing.
Fairness == /\ \A s \in Socket : WF_vars(Handle(s))
            /\ \A r \in Run : WF_vars(RunMatch(r))

FairSpec == Spec /\ Fairness

------------------------------------------------------------------------------
(* Properties.                                                               *)

\* A game is recorded at most once in the ratings and once in the head-to-head
\* table, and both name the player who won it: `finished` is tested and set
\* under the lock by completions and disconnects alike, and the two recording
\* transactions run long after the lock was released.
ResultOnce ==
    \A g \in Game, p \in Player :
        /\ elo[g][p] <= 1 /\ h2h[g][p] <= 1
        /\ elo[g][p] + h2h[g][p] > 0 => decided[g] = p

\* Why ResultOnce holds: the games to come and a game that is not finished are
\* undecided, a handler that still has a table to write to decided that game
\* itself and finds no win of it there, and no two handlers decided the same game.
Recording == {"rate", "tell", "score", "dscore", "drate"}
Unrated == {"rate", "dscore", "drate"}
Unscored == {"rate", "tell", "score", "dscore"}

ResultInv ==
    /\ \A g \in Game : g > game => decided[g] = Undecided
    /\ ~finished => decided[game] = Undecided
    /\ \A s \in Socket : pc[s] \in Recording => decided[verdictOf[s]] = Winner(s)
    /\ \A s \in Socket, p \in Player :
          /\ pc[s] \in Unrated => elo[verdictOf[s]][p] = 0
          /\ pc[s] \in Unscored => h2h[verdictOf[s]][p] = 0
    /\ \A s, t \in Socket :
          s # t /\ {pc[s], pc[t]} \subseteq Recording => verdictOf[s] # verdictOf[t]
    /\ ResultOnce

\* Whoever is told a winner is told the winner of the current game, whatever
\* disconnects and requests are handled between the decision and game_over.
VerdictAgrees ==
    \A s \in Socket :
        client[s].told # None => decided[game] = client[s].told

\* Two players who play each other play the same board, and the opening square
\* each was shown in match_found belongs to it: no second _run_match thread is
\* at work on the match.
SameBoard ==
    \A s, t \in {connections[p] : p \in Connected} :
        {client[s].phase, client[t].phase} \subseteq {"playing", "solved"}
            => client[s].board = client[t].board /\ client[s].square = client[t].board

\* The revealed count forwarded to the opponent never counts a reveal of an
\* earlier game: none is in flight when _reset_for_rematch zeroes the counts.
CountsFresh ==
    \A p \in Connected :
        client[connections[p]].phase # "closed" => counts[p] <= client[connections[p]].made

\* A rematch starts only when both players asked for it in the game before it.
RematchNeedsConsent ==
    [][game' # game => \A p \in Player : client[connections[p]].asked]_vars

\* A player who solves the board while the game is undecided is told how the
\* game ended, also when the opponent completes or disconnects at that moment.
CompletionAnswered ==
    \A s \in Socket :
        client[s].phase = "solved" /\ ~finished ~> client[s].phase \in {"over", "closed"}

\* Every game somebody won is recorded in both tables, when the database works.
ResultRecorded ==
    \A g \in Game, p \in Player :
        decided[g] = p ~> elo[g][p] = 1 /\ h2h[g][p] = 1

\* When both players asked, a new game is dealt to both of them unless one left.
RematchStarts ==
    \A g \in Game :
        game = g /\ requests = Player
            ~> /\ game > g
               /\ \A p \in Player :
                     client[connections[p]].phase \in {"playing", "solved", "over", "closed"}

\* The match implements GameResults: games follow one another, each is won once
\* and only after it began, and is counted at most once in each table.
Verdict(g) == IF g > game THEN "waiting"
              ELSE IF decided[g] # Undecided THEN decided[g]
              ELSE IF started THEN "running" ELSE "waiting"

Results == INSTANCE GameResults WITH current <- game,
                                     verdict <- [g \in Game |-> Verdict(g)]

ImplementsGameResults == Results!Spec
==============================================================================

------------------------------ MODULE BotSeeding ------------------------------
(***************************************************************************)
(* The accounts and ratings of the bots, across restarts: entrypoint.sh    *)
(* runs bots/seed_elo.py at each start of the container and then the       *)
(* server, whose bots/registry.py reads the file of account ids the        *)
(* seeding wrote.  An operator may run the seeding on the live database,   *)
(* with or without --force, while the games of Ratings end.                *)
(*                                                                         *)
(* Between two statements anything may fail: a statement, the process, the *)
(* volume with the file, the database.  MaxRare bounds how often.          *)
(***************************************************************************)
EXTENDS Ratings, Sequences

CONSTANTS
    Human, Bot,     \* usernames; a bot's is the one in profiles.json
    BotOrder,       \* the bots of ratings.json, the best first
    Calibrated,     \* the rating of each bot there
    Stats,          \* its wins and losses there, or None
    FirstIds,       \* the ids of the accounts there are at first
    Namesakes,      \* <<h, b>>: h may have taken the name of b before the bots came
    Pairings,       \* for each game, the two usernames: the choices there are
    Databases,      \* what there is before the first start: "nothing", not even the
                    \* tables, "users" who played without bots, or "bots" as well
    ManualModes,    \* does an operator run the seeding with --force, without it?
    MaxRare         \* bound: failures and seedings an operator runs

ASSUME NameAssumption == Name = Human \cup Bot /\ Human \cap Bot = {}
ASSUME FirstIdsAssumption == FirstIds \in [Name -> Ids]
ASSUME RatingsAssumption ==
    /\ Calibrated \in [Bot -> Int]
    /\ \A b \in Bot : Stats[b] = None \/ Stats[b] \in Nat \X Nat
    /\ BotOrder \in Seq(Bot) \ {<<>>}
    /\ {BotOrder[i] : i \in DOMAIN BotOrder} = Bot
ASSUME ModeAssumption == ManualModes \subseteq BOOLEAN
ASSUME PairingAssumption == Pairings \subseteq [Games -> SUBSET Name]
ASSUME NamesakeAssumption == Namesakes \subseteq Human \X Bot
ASSUME DatabaseAssumption == Databases \subseteq {"nothing", "users", "bots"}
ASSUME BoundAssumption == MaxRare \in Nat

VARIABLES
    schema,         \* do the tables exist?
    mapping,        \* bots/user_ids.json: an id for some bots; None if missing
    phase,          \* of the container
    served,         \* the registry of the running server
    session,        \* the id in the token of each human
    seed,           \* the process of seed_elo.py
    rivals,         \* who plays whom
    rare,           \* what is left of the bound
    epoch           \* history: how often rows were overwritten or lost

vars == <<ratingVars, schema, mapping, phase, served, session, seed, rivals,
          rare, epoch>>

NoIds == [b \in Bot |-> None]

\* seed() at work: its `force`, its user_ids, the bots still to be done in the
\* current loop, and the bots whose users row it has inserted.
Seeding == [pc : {"off", "accounts", "ratings", "commit", "save"},
            force : BOOLEAN, ids : [Bot -> Ids \cup {None}],
            left : Seq(Bot), added : SUBSET Bot]
Idle == [pc |-> "off", force |-> FALSE, ids |-> NoIds, left |-> <<>>, added |-> {}]

TypeOK ==
    /\ accounts \in [Name -> Ids \cup {None}]
    /\ elo \in [Ids -> Rows \cup {None}]
    /\ h2h \in [Pairs -> [player1_wins : Nat, player2_wins : Nat]]
    /\ locks \in [Ids -> Tx \cup {None}]
    /\ step \in [Games -> Step]
    /\ player \in [Games -> [Side -> Ids] \cup {None}]
    /\ \A g \in Games : step[g] # "play" => player[g] \in [Side -> Ids]
    /\ rest \in [Games -> {"score", "insert winner", "done"}]
    /\ first \in [Games -> Side]
    /\ seen \in [Games -> [Side -> Int \cup {None}]]
    /\ told \in [Games -> Answer \cup {None}] /\ applied \in [Games -> Answer \cup {None}]
    /\ scored \subseteq Games
    /\ seed \in Seeding
    /\ session \in [Human -> Ids] /\ served \in [Bot -> Ids \cup {None}]
    /\ mapping \in [Bot -> Ids \cup {None}] \cup {None}
    /\ phase \in {"down", "seeding", "starting", "up"}
    /\ schema \in BOOLEAN /\ rivals \in Pairings
    /\ rare \in 0..MaxRare /\ epoch \in Nat

\* The tables before the first start; a namesake h has the account of its bot b.
NoAccounts == [n \in Name |-> None]
UsersOnly == [n \in Name |-> IF n \in Human THEN FirstIds[n] ELSE None]
UsersAnd(h, b) == [UsersOnly EXCEPT ![h] = None, ![b] = FirstIds[h]]

\* The container is about to start: for the first time with bots, or again, with
\* the ratings that earlier games left the bots.
Init ==
    /\ RatingInit
    /\ session = [h \in Human |-> FirstIds[h]]
    /\ \/ /\ "nothing" \in Databases
          /\ schema = FALSE
          /\ accounts = NoAccounts
          /\ elo = [id \in Ids |-> None] /\ mapping = None
       \/ /\ "users" \in Databases
          /\ schema = TRUE
          /\ accounts \in {UsersOnly} \cup {UsersAnd(c[1], c[2]) : c \in Namesakes}
          /\ elo = [id \in Ids |-> None] /\ mapping = None
       \/ /\ "bots" \in Databases
          /\ schema = TRUE
          /\ accounts = FirstIds
          /\ elo = [id \in Ids |-> IF \E n \in Name : FirstIds[n] = id THEN NewRow ELSE None]
          /\ mapping = [b \in Bot |-> FirstIds[b]]
    /\ phase = "down"
    /\ served = NoIds
    /\ seed = Idle
    /\ rivals \in Pairings
    /\ rare = MaxRare /\ epoch = 0

\* An id that nothing refers to yet, for gen_random_uuid.
Referred ==
    LET In(ids) == {ids[b] : b \in Bot}
    IN  Users \cup In(seed.ids) \cup In(served)
            \cup (IF mapping = None THEN {} ELSE In(mapping))
            \cup {session[h] : h \in Human}
            \cup UNION {IF player[g] = None THEN {}
                        ELSE {player[g].winner, player[g].loser} : g \in Games}
NewId(id) == id \in Ids \ Referred /\ \A i \in Ids \ Referred : id <= i

\* A human whose account was lost signs in again.
Register(h) ==
    /\ phase = "up"
    /\ session[h] \notin Users
    /\ \E id \in Ids :
        /\ accounts[h] = None
        /\ NewId(id)
        /\ accounts' = [accounts EXCEPT ![h] = id]
        /\ session' = [session EXCEPT ![h] = id]
    /\ UNCHANGED <<elo, h2h, locks, handler, applied, scored, schema, mapping,
                   phase, served, seed, rivals, rare, epoch>>

------------------------------------------------------------------------------
(* seed_elo.py.                                                              *)

\* user_ids = _load_json(...): a missing file is an empty one.
Loaded == IF mapping = None THEN NoIds ELSE mapping

Rare == rare > 0 /\ rare' = rare - 1

StartSeeding(force) ==
    seed' = [pc |-> "accounts", force |-> force, ids |-> Loaded,
             left |-> BotOrder, added |-> {}]

SeedUnchanged == UNCHANGED <<handler, applied, scored, session, served, schema,
                             rivals, h2h>>

\* entrypoint.sh, at each start of the container.
Boot ==
    /\ phase = "down"
    /\ phase' = "seeding"
    /\ StartSeeding(FALSE)
    /\ SeedUnchanged
    /\ UNCHANGED <<accounts, elo, locks, mapping, rare, epoch>>

\* python -m bots.seed_elo [--force] by hand, while the server runs.
RunByHand(force) ==
    /\ phase = "up" /\ seed.pc = "off"
    /\ Rare
    /\ StartSeeding(force)
    /\ UNCHANGED <<ratingVars, schema, mapping, phase, served, session, rivals, epoch>>

\* The bot the loop is at, and the loop that follows the current one.
Current == Head(seed.left)
Advance(s, pc) ==
    IF Tail(s.left) # <<>> THEN [s EXCEPT !.left = Tail(@)]
    ELSE [s EXCEPT !.left = BotOrder, !.pc = pc]

\* May the id of the file be used as it is?  Mutant: it is not looked up.
Mapped(b) == seed.ids[b] # None
Verified(b) == seed.ids[b] # None /\ seed.ids[b] \in Users

\* The account that has the name of the bot.  Mutant: it is not looked for.
NoneFound(b) == None
Recovered(b) == accounts[b]

\* The users row of one bot: the one of the file, else the one of that username,
\* else a new one.  (That a user takes the name between the SELECT and the INSERT
\* makes the process exit: SeedFault.)
FindAccount ==
    /\ seed.pc = "accounts" /\ schema
    /\ LET b == Current
       IN  \/ /\ Verified(b)
              /\ seed' = Advance(seed, "ratings")
           \/ /\ ~Verified(b) /\ Recovered(b) # None
              /\ seed' = Advance([seed EXCEPT !.ids[b] = Recovered(b)], "ratings")
           \/ /\ ~Verified(b) /\ Recovered(b) = None
              /\ accounts[b] = None         \* users_username_unique
              /\ \E id \in Ids :
                    /\ NewId(id)
                    /\ seed' = Advance([seed EXCEPT !.ids[b] = id, !.added = @ \cup {b}],
                                       "ratings")
    /\ SeedUnchanged
    /\ UNCHANGED <<accounts, elo, locks, mapping, phase, rare, epoch>>

\* The transaction the seeding waits for.
SeedWaitsFor ==
    LET id == seed.ids[Current]
    IN  IF /\ seed.pc = "ratings"
           /\ HeldByOther(id, Seeder)
           /\ seed.force \/ elo[id] = None
        THEN locks[id]
        ELSE None

\* Does the statement for this bot write a row?
Writes(id) == seed.force \/ elo[id] = None

WriteRating ==
    LET id == seed.ids[Current]
    IN  /\ seed.pc = "ratings"
        /\ SeedWaitsFor = None
        /\ locks' = IF Writes(id) THEN [locks EXCEPT ![id] = Seeder] ELSE locks
        /\ seed' = Advance(seed, "commit")
        /\ SeedUnchanged
        /\ UNCHANGED <<accounts, elo, mapping, phase, rare, epoch>>

\* The row written for a bot: with the statistics, if there are any, or with
\* those that are there.
SeededRow(b, old) ==
    IF Stats[b] # None
    THEN [rating |-> Calibrated[b], wins |-> Stats[b][1], losses |-> Stats[b][2]]
    ELSE IF old = None THEN [NewRow EXCEPT !.rating = Calibrated[b]]
    ELSE [old EXCEPT !.rating = Calibrated[b]]

SeedCommit ==
    /\ seed.pc = "commit"
    /\ accounts' = [n \in Name |-> IF n \in seed.added THEN seed.ids[n] ELSE accounts[n]]
    /\ elo' = [id \in Ids |->
                 IF locks[id] = Seeder
                 THEN SeededRow(CHOOSE b \in Bot : seed.ids[b] = id, elo[id])
                 ELSE elo[id]]
    /\ locks' = Released(Seeder)
    /\ seed' = [seed EXCEPT !.pc = "save"]
    /\ epoch' = IF seed.force THEN epoch + 1 ELSE epoch
    /\ SeedUnchanged
    /\ UNCHANGED <<mapping, phase, rare>>

\* _save_user_ids: a new file replaces the old one.
SaveIds ==
    /\ seed.pc = "save"
    /\ mapping' = seed.ids
    /\ seed' = Idle
    /\ phase' = IF phase = "seeding" THEN "starting" ELSE phase
    /\ SeedUnchanged
    /\ UNCHANGED <<accounts, elo, locks, rare, epoch>>

\* The process exits with an error; under set -e the container stops with it.
SeedExits ==
    /\ seed' = Idle
    /\ locks' = Released(Seeder)
    /\ phase' = IF phase = "seeding" THEN "down" ELSE phase
    /\ SeedUnchanged
    /\ UNCHANGED <<accounts, elo, mapping, epoch>>

\* The first SELECT finds no table.
SeedRefused ==
    /\ seed.pc = "accounts" /\ ~schema
    /\ SeedExits
    /\ UNCHANGED rare

\* create_app: init_db makes the tables, bot_registry.load reads the file.
StartServer ==
    /\ phase = "starting"
    /\ schema' = TRUE
    /\ served' = [b \in Bot |-> mapping[b]]
    /\ phase' = "up"
    /\ UNCHANGED <<ratingVars, mapping, session, seed, rivals, rare, epoch>>

SeedStep == FindAccount \/ WriteRating \/ SeedCommit \/ SaveIds \/ SeedRefused

------------------------------------------------------------------------------
(* Games, faults and the deadlock detector.                                  *)

\* user_ids of a player: the token of a human, the registry entry of a bot.
UserId(n) == IF n \in Bot THEN served[n] ELSE session[n]

OthersUnchanged == UNCHANGED <<schema, mapping, phase, served, session, seed,
                               rivals, epoch>>

EndGame(g) ==
    /\ phase = "up"
    /\ \E w \in rivals[g], reason \in {"completed", "left"} :
        \E l \in rivals[g] \ {w} :
            /\ {UserId(w), UserId(l)} \subseteq Ids    \* else nothing is recorded
            /\ Finish(g, UserId(w), UserId(l), reason)
    /\ OthersUnchanged /\ UNCHANGED rare

RecordGame(g) == GameStep(g) /\ OthersUnchanged /\ UNCHANGED rare

WaitsFor(t) == IF t = Seeder THEN (IF seed.pc = "ratings" THEN SeedWaitsFor ELSE None)
               ELSE IF step[t] \in Inserting \cup Locking THEN GameWaitsFor(t)
               ELSE None

\* Transactions that wait for one another in a ring.
Deadlocked(S) == S # {} /\ {WaitsFor(t) : t \in S} = S

\* PostgreSQL aborts one transaction of a ring.
BreakDeadlock ==
    \E S \in SUBSET Tx : Deadlocked(S) /\ \E t \in S :
        /\ IF t = Seeder THEN SeedExits ELSE Abort(t) /\ OthersUnchanged
        /\ UNCHANGED rare

GameFault(g) == Rare /\ GameFails(g) /\ OthersUnchanged

SeedFault == Rare /\ seed.pc # "off" /\ SeedExits

\* The container is killed, with the games and the seeding that run in it.
Crash ==
    /\ Rare
    /\ phase # "down"
    /\ GamesDie
    /\ phase' = "down"
    /\ seed' = Idle
    /\ served' = NoIds
    /\ UNCHANGED <<tables, scored, schema, mapping, session, rivals, epoch>>

\* The volume bot_state is lost.
LoseMapping ==
    /\ Rare
    /\ phase = "down" /\ mapping # None
    /\ mapping' = None
    /\ UNCHANGED <<ratingVars, schema, phase, served, session, seed, rivals, epoch>>

\* The rows of the database are lost; the tables stay.
LoseRows ==
    /\ Rare
    /\ phase = "down" /\ schema
    /\ accounts' = NoAccounts
    /\ elo' = [id \in Ids |-> None]
    /\ h2h' = [p \in Pairs |-> [player1_wins |-> 0, player2_wins |-> 0]]
    /\ scored' = {}
    /\ epoch' = epoch + 1
    /\ UNCHANGED <<locks, handler, applied, schema, mapping, phase, served,
                   session, seed, rivals>>

\* What the system does by itself: the container restarts, the statements that
\* wait for nothing are executed, PostgreSQL looks for deadlocks.
Progress == \/ Boot \/ StartServer \/ SeedStep
            \/ \E g \in Games : RecordGame(g)
            \/ BreakDeadlock

Next == \/ Progress
        \/ \E force \in ManualModes : RunByHand(force)
        \/ \E h \in Human : Register(h)
        \/ \E g \in Games : EndGame(g) \/ GameFault(g)
        \/ SeedFault \/ Crash \/ LoseMapping \/ LoseRows

Spec == Init /\ [][Next]_vars

\* It never stops while there is something to do.
FairSpec == Spec /\ WF_vars(Progress)

------------------------------------------------------------------------------
(* Properties.                                                               *)

\* The ratings are those of the rated games in some order, each counted once and
\* from what the earlier ones left; a seeding at boot leaves every row as it is.
Ledger == INSTANCE RatingLedger
ImplementsLedger == Ledger!Spec

\* A player who is told a change of its rating has that change in the database:
\* the answer of a game is what its transaction committed.
ToldIsApplied == \A g \in Games : told[g] # None => told[g] = applied[g]

\* The record of two players, read from either side, has the games that were
\* counted: a win of the one is a loss of the other.
HeadToHeadAgrees ==
    \A p \in Pairs :
        LET won(a, b) == {g \in scored : player[g] = [winner |-> a, loser |-> b]}
            wins == Cardinality(won(p[1], p[2]))
            losses == Cardinality(won(p[2], p[1]))
        IN  /\ SingleRecord(p[1], p[2]) = [wins |-> wins, losses |-> losses]
            /\ SingleRecord(p[2], p[1]) = [wins |-> losses, losses |-> wins]

\* A running server knows each bot by the account that has its name.
ServedBotsExist ==
    phase = "up" => \A b \in Bot : served[b] # None /\ served[b] = accounts[b]

\* The handler of a game that ended gets through its transactions, whatever locks
\* the others hold or seek.
ResultsSettle == <>[](\A g \in Games : step[g] \in {"play", "done"})

\* However the container, the file or the rows of the database were lost, the
\* server comes up again, provided that its tables exist: entrypoint.sh seeds
\* before anything creates them.
ServerComesUp == <>[](schema => phase = "up")
================================================================================

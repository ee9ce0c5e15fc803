-------------------------------- MODULE Ratings --------------------------------
(***************************************************************************)
(* The tables elo_ratings and head_to_head_records, and the transactions   *)
(* of match.py that write them when a game has ended.  PostgreSQL runs     *)
(* them at READ COMMITTED, one statement a step:                           *)
(*   - an INSERT ... ON CONFLICT DO NOTHING of a row somebody has inserted *)
(*     or changed and not committed waits for that transaction,            *)
(*   - a SELECT ... FOR UPDATE locks its rows one after the other, in the  *)
(*     order it meets them, and reads each when it has it,                 *)
(*   - a transaction in a cycle of waiting ones is aborted.                *)
(* The two UPDATEs wait for nothing, all is locked by then, and nobody     *)
(* sees them before the commit: the three are one step.                    *)
(*                                                                         *)
(* A module that says which accounts exist and which games end composes    *)
(* these steps: BotSeeding.                                                *)
(***************************************************************************)
EXTENDS Elo

CONSTANTS
    Ids,            \* account ids, in the order of their UUIDs
    Name,           \* usernames
    Games,          \* the games that may end
    Seeder,         \* the transaction of bots/seed_elo.py
    None            \* no row, no lock, no answer

ASSUME IdAssumption == Ids \subseteq Nat /\ None \notin Ids
ASSUME TxAssumption == Seeder \notin Games /\ None \notin Games \cup {Seeder}

Tx == Games \cup {Seeder}
Side == {"winner", "loser"}
OtherSide(side) == IF side = "winner" THEN "loser" ELSE "winner"
Pairs == {p \in Ids \X Ids : p[1] < p[2]}

VARIABLES
    accounts,       \* the table users: the id of each username
    elo, h2h,       \* committed rows
    locks,          \* who holds the row of an account, or has inserted it
    \* the handler of each game: its control point and the one its transaction ends
    \* at, the ids in user_ids, the row its SELECT meets first, the ratings it read,
    \* what it answered
    step, rest, player, first, seen, told,
    \* history: what each rated game changed, and the games h2h counts
    applied, scored

tables == <<accounts, elo, h2h>>
handler == <<step, rest, player, first, seen, told>>
ratingVars == <<tables, locks, handler, applied, scored>>

Users == {accounts[n] : n \in Name} \ {None}

Inserting == {"insert winner", "insert loser"}
Locking == {"lock first", "lock second"}
Rating == Inserting \cup Locking \cup {"write"}
Step == {"play", "score", "done"} \cup Rating

\* The changes of both ratings that the players are told.
Answer == [Side -> [old : Int, new : Int]]

NothingSeen == [winner |-> None, loser |-> None]

RatingInit ==
    /\ h2h = [p \in Pairs |-> [player1_wins |-> 0, player2_wins |-> 0]]
    /\ locks = [id \in Ids |-> None]
    /\ step = [g \in Games |-> "play"]
    /\ rest = [g \in Games |-> "done"]
    /\ player = [g \in Games |-> None]
    /\ first = [g \in Games |-> "winner"]
    /\ seen = [g \in Games |-> NothingSeen]
    /\ told = [g \in Games |-> None]
    /\ applied = [g \in Games |-> None]
    /\ scored = {}

------------------------------------------------------------------------------
(* Locks.                                                                    *)

\* The side whose row the next statement of game g is about.
WantedSide(g) ==
    CASE step[g] = "insert winner" -> "winner"
      [] step[g] = "insert loser" -> "loser"
      [] step[g] = "lock first" -> first[g]
      [] step[g] = "lock second" -> OtherSide(first[g])
Wanted(g) == player[g][WantedSide(g)]

\* Another transaction holds the row, or, for an insert, has a version of it that
\* is not committed.
HeldByOther(id, t) == locks[id] \notin {None, t}
Unsettled(id, t) == HeldByOther(id, t) /\ (elo[id] = None \/ locks[id] = Seeder)

\* The transaction that the next statement of game g waits for.
GameWaitsFor(g) ==
    IF \/ step[g] \in Inserting /\ Unsettled(Wanted(g), g)
       \/ step[g] \in Locking /\ HeldByOther(Wanted(g), g)
    THEN locks[Wanted(g)]
    ELSE None

\* Commit and rollback.  Mutant: the connection is not closed.
NotReleased(t) == locks
Released(t) == [id \in Ids |-> IF locks[id] = t THEN None ELSE locks[id]]

------------------------------------------------------------------------------
(* A game ends with a winner: _handle_completion rates it, answers and       *)
(* counts the win, handle_disconnect counts the win, rates it and answers.   *)

Finish(g, winner, loser, reason) ==
    /\ step[g] = "play"
    /\ player' = [player EXCEPT ![g] = [winner |-> winner, loser |-> loser]]
    /\ \/ /\ reason = "completed"
          /\ step' = [step EXCEPT ![g] = "insert winner"]
          /\ rest' = [rest EXCEPT ![g] = "score"]
       \/ /\ reason = "left"
          /\ step' = [step EXCEPT ![g] = "score"]
          /\ rest' = [rest EXCEPT ![g] = "insert winner"]
    /\ UNCHANGED <<tables, locks, first, seen, told, applied, scored>>

\* The transaction is over: on to the next, or none.
Proceed(g) ==
    /\ step' = [step EXCEPT ![g] = rest[g]]
    /\ rest' = [rest EXCEPT ![g] = "done"]

\* ... and what it read is forgotten.
EndRating(g) ==
    /\ Proceed(g)
    /\ first' = [first EXCEPT ![g] = "winner"]
    /\ seen' = [seen EXCEPT ![g] = NothingSeen]
    /\ locks' = Released(g)

\* INSERT ... ON CONFLICT DO NOTHING: takes the row if there is none yet.
InsertRow(g) ==
    LET id == Wanted(g)
    IN  /\ step[g] \in Inserting
        /\ GameWaitsFor(g) = None
        /\ id \in Users
        /\ locks' = IF elo[id] = None THEN [locks EXCEPT ![id] = g] ELSE locks
        /\ \/ /\ step[g] = "insert winner"
              /\ step' = [step EXCEPT ![g] = "insert loser"]
              /\ UNCHANGED first
           \/ /\ step[g] = "insert loser"
              /\ step' = [step EXCEPT ![g] = "lock first"]
              /\ first' \in {[first EXCEPT ![g] = side] : side \in Side}
        /\ UNCHANGED <<tables, rest, player, seen, told, applied, scored>>

\* FOR UPDATE.  Mutant: a SELECT without it.
ReadOnly(id, g) == locks
ForUpdate(id, g) == [locks EXCEPT ![id] = g]

\* One row of the SELECT ... FOR UPDATE.
LockRow(g) ==
    LET id == Wanted(g)
    IN  /\ step[g] \in Locking
        /\ GameWaitsFor(g) = None
        /\ locks' = ForUpdate(id, g)
        /\ seen' = [seen EXCEPT ![g][WantedSide(g)] =
                        IF elo[id] = None THEN DEFAULT_RATING ELSE elo[id].rating]
        /\ step' = [step EXCEPT ![g] = IF @ = "lock first" THEN "lock second"
                                       ELSE "write"]
        /\ UNCHANGED <<tables, rest, player, first, told, applied, scored>>

\* The row of an account as game g sees it: its own insert, or what is committed.
Row(id) == IF elo[id] = None THEN NewRow ELSE elo[id]

\* UPDATE ... SET rating = %s, wins = wins + 1, and the same for the loser.
Updated(g) ==
    LET w == player[g].winner
        l == player[g].loser
        won == [elo EXCEPT ![w] =
                  [Row(w) EXCEPT !.rating = Raised(seen[g].winner, seen[g].loser),
                                 !.wins = @ + 1]]
        losing == IF w = l THEN won[l] ELSE Row(l)
    IN  [won EXCEPT ![l] =
           [losing EXCEPT !.rating = Lowered(seen[g].winner, seen[g].loser),
                          !.losses = @ + 1]]

\* The dictionary _update_elo_ratings returns.
Changes(g) ==
    [winner |-> [old |-> seen[g].winner,
                 new |-> Raised(seen[g].winner, seen[g].loser)],
     loser |-> [old |-> seen[g].loser,
                new |-> Lowered(seen[g].winner, seen[g].loser)]]

\* The UPDATEs and the commit; `answer` is what the players are told.
Commit(g, answer) ==
    /\ step[g] = "write"
    /\ elo' = Updated(g)
    /\ applied' = [applied EXCEPT ![g] = Changes(g)]
    /\ told' = [told EXCEPT ![g] = answer]
    /\ EndRating(g)
    /\ UNCHANGED <<accounts, h2h, player, scored>>

\* What is told of a transaction that raised.  Mutant: what it had computed.
Computed(g) == IF step[g] = "write" THEN Changes(g) ELSE None
Nothing(g) == None

\* A statement raises: the connection is closed and with it the transaction.
Abort(g) ==
    /\ step[g] \in Rating
    /\ told' = [told EXCEPT ![g] = Nothing(g)]
    /\ EndRating(g)
    /\ UNCHANGED <<tables, player, applied, scored>>

\* The insert of a row for an account that is gone.
UnknownUser(g) ==
    /\ step[g] \in Inserting
    /\ GameWaitsFor(g) = None
    /\ Wanted(g) \notin Users
    /\ Abort(g)

------------------------------------------------------------------------------
(* _record_h2h_result and the reading of it in head_to_head.py.              *)

\* The key of a pair, and the column of a player in it.  Mutant: the columns are
\* those of the caller.
Key(a, b) == IF a < b THEN <<a, b>> ELSE <<b, a>>
FirstColumn(a, b) == "player1_wins"
Column(a, b) == IF a < b THEN "player1_wins" ELSE "player2_wins"

\* One upsert; a row of a player against itself, or of a player who has no
\* account, is refused.
Score(g) ==
    LET w == player[g].winner
        l == player[g].loser
    IN  /\ step[g] = "score"
        /\ Proceed(g)
        /\ IF w # l /\ {w, l} \subseteq Users
           THEN /\ h2h' = [h2h EXCEPT ![Key(w, l)][Column(w, l)] = @ + 1]
                /\ scored' = scored \cup {g}
           ELSE UNCHANGED <<h2h, scored>>
        /\ UNCHANGED <<accounts, elo, locks, player, first, seen, told, applied>>

\* The upsert raises: the exception is swallowed.
ScoreFails(g) ==
    /\ step[g] = "score"
    /\ Proceed(g)
    /\ UNCHANGED <<tables, locks, player, first, seen, told, applied, scored>>

\* _get_single_record: the wins and losses of `user` against `opponent`.
SingleRecord(user, opponent) ==
    LET row == h2h[Key(user, opponent)]
    IN  IF user < opponent
        THEN [wins |-> row.player1_wins, losses |-> row.player2_wins]
        ELSE [wins |-> row.player2_wins, losses |-> row.player1_wins]

GameStep(g) == \/ InsertRow(g)
               \/ UnknownUser(g)
               \/ LockRow(g)
               \/ Commit(g, Changes(g))
               \/ Score(g)

\* The database fails a statement, or the answer to a commit is lost.
GameFails(g) == Abort(g) \/ Commit(g, None) \/ ScoreFails(g)

\* The server process dies: its transactions are rolled back.
GamesDie ==
    /\ step' = [g \in Games |-> IF step[g] = "play" THEN "play" ELSE "done"]
    /\ rest' = [g \in Games |-> "done"]
    /\ first' = [g \in Games |-> "winner"]
    /\ seen' = [g \in Games |-> NothingSeen]
    /\ locks' = [id \in Ids |-> None]
    /\ UNCHANGED <<player, told, applied>>
================================================================================

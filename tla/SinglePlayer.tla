---------------------------- MODULE SinglePlayer ----------------------------
(***************************************************************************)
(* The transaction of POST /singleplayer/games, in one category.  Requests *)
(* run at the same time on PostgreSQL at its default isolation level: a    *)
(* statement sees what was committed when it starts and what its own       *)
(* transaction wrote; it waits for rows and keys another transaction holds *)
(* and then skips rows that were deleted.  Everything else a transaction   *)
(* writes becomes visible at its commit, or never.                         *)
(***************************************************************************)
EXTENDS Naturals, FiniteSets, FiniteSetsExt

CONSTANTS
    Request,    \* POST requests; a retry is another request for the same game
    User,
    UserOf,     \* the user of each request
    GameOf,     \* the client_game_id of each request
    WinTime,    \* the time of a win in seconds, 0 for a loss
    Window,     \* games kept in the rolling window of a user: 100
    Limit,      \* entries the leaderboard is meant to have: 10
    OldScores,  \* times on the leaderboard before the first request
    MaxFailed,  \* bound on the requests that fail
    None

\* parsed["result"] == "win".
Won(t) == WinTime[t] # 0

ASSUME UserAssumption == UserOf \in [Request -> User]
ASSUME TimeAssumption == WinTime \in [Request -> Nat] /\ OldScores \subseteq Nat \ {0}
ASSUME RetryAssumption ==
    \A t, u \in Request : GameOf[t] = GameOf[u] => WinTime[t] = WinTime[u]
ASSUME LimitAssumption == {Window, Limit} \subseteq Nat \ {0}
ASSUME FailedAssumption == MaxFailed \in Nat
ASSUME RowAssumption ==
    IsFiniteSet(Request) /\ IsFiniteSet(OldScores) /\ Request \cap OldScores = {}
ASSUME NoneAssumption == None \notin Request /\ None \notin Nat

VARIABLES
    \* committed: recent_singleplayer_games, user_singleplayer_stats,
    \* leaderboard_scores, singleplayer_game_starts
    recent, wins, fastest, board, pinged,
    \* of each request: control point, created_at, the rows its statement at hand
    \* found, the row it deletes from the leaderboard, and what it will commit
    pc, began, found, dropped, plausible, drop,
    \* the clock behind now(), for each user, because only the games of one user are
    \* compared by their created_at; history: games that were committed
    clock, played

database == <<recent, wins, fastest, board, pinged>>
work == <<began, found, dropped, plausible, drop>>
vars == <<database, pc, work, clock, played>>

Control == {"new", "insert", "trim", "delete", "stats", "start", "select", "lock",
            "place", "commit", "done", "failed"}

\* A game in the window, and a row of the leaderboard, by the request that wrote
\* it; the rows that were there before are numbered by their times.
Row == Request \cup OldScores
TimeOf(r) == IF r \in Request THEN WinTime[r] ELSE r

TypeOK ==
    /\ recent \subseteq Request
    /\ wins \in [User -> Nat] /\ fastest \in [User -> Nat]
    /\ board \subseteq {r \in Row : TimeOf(r) > 0}
    /\ pinged \subseteq {GameOf[t] : t \in Request}
    /\ pc \in [Request -> Control]
    /\ began \in [Request -> Nat]
    /\ found \in [Request -> SUBSET Row] /\ dropped \in [Request -> SUBSET Request]
    /\ plausible \in [Request -> BOOLEAN]
    /\ drop \in [Request -> Row \cup {None}]
    /\ clock \in [User -> Nat]
    /\ played \subseteq Request

Init ==
    /\ recent = {} /\ board = OldScores /\ pinged = {}
    /\ wins = [u \in User |-> 0] /\ fastest = [u \in User |-> 0]
    /\ pc = [t \in Request |-> "new"]
    /\ began = [t \in Request |-> 0]
    /\ found = [t \in Request |-> {}] /\ dropped = [t \in Request |-> {}]
    /\ plausible = [t \in Request |-> FALSE]
    /\ drop = [t \in Request |-> None]
    /\ clock = [u \in User |-> 0] /\ played = {}

------------------------------------------------------------------------------
Goto(t, where) == pc' = [pc EXCEPT ![t] = where]

\* The handler of t returns, and what its statements found is gone.
Return(t, how) ==
    /\ Goto(t, how)
    /\ found' = [found EXCEPT ![t] = {}] /\ dropped' = [dropped EXCEPT ![t] = {}]
    /\ drop' = [drop EXCEPT ![t] = None]
    /\ UNCHANGED <<began, plausible>>

\* Requests that are between their first write and their end.
Running == {t \in Request : pc[t] \in Control \ {"new", "insert", "done", "failed"}}

Others(t) == Running \ {t}

\* Requests that hold the stats row of user u: they are past the upsert.
HoldsStats(u) ==
    {t \in Running : UserOf[t] = u /\ pc[t] \in {"start", "select", "lock", "place",
                                                 "commit"} /\ Won(t)}

\* Leaderboard rows that t has locked by its SELECT ... FOR UPDATE, which takes
\* them in the order of their times.  Mutant: each transaction in its own order.
LockedInAnyOrder(t) == IF pc[t] \in {"lock", "place", "commit"} THEN found[t] ELSE {}
LockedBy(t) == IF pc[t] \in {"place", "commit"} THEN found[t] ELSE {}

\* POST /singleplayer/games/start, which also forgets starts of two hours ago.  The
\* client sends it when the game begins, before it can submit a result.
Ping(g) ==
    /\ g \notin pinged
    /\ \A t \in Request : GameOf[t] = g => pc[t] = "new"
    /\ \E old \in SUBSET pinged : pinged' = (pinged \ old) \cup {g}
    /\ UNCHANGED <<recent, wins, fastest, board, pc, work, clock, played>>

\* The first statement begins the transaction, which fixes now() for it.
Begin(t) ==
    /\ pc[t] = "new"
    /\ clock' = [clock EXCEPT ![UserOf[t]] = @ + 1]
    /\ began' = [began EXCEPT ![t] = clock[UserOf[t]] + 1]
    /\ Goto(t, "insert")
    /\ UNCHANGED <<database, found, dropped, plausible, drop, played>>

SameKey(t, r) == UserOf[t] = UserOf[r] /\ GameOf[t] = GameOf[r]

\* Is the game in the window already?  Mutant: the answer is not looked at.
NeverRecorded(t) == FALSE
Recorded(t) == \E r \in recent : SameKey(t, r)

\* Step 1: insert into the window, after any transaction that inserts the same
\* key; a retry ends here.
InsertRecent(t) ==
    /\ pc[t] = "insert"
    /\ \A r \in Running : ~SameKey(t, r)
    /\ Goto(t, IF Recorded(t) THEN "done" ELSE "trim")
    /\ UNCHANGED <<database, work, clock, played>>

\* The window of t's user as t sees it.
Seen(t) == {r \in recent : UserOf[r] = UserOf[t]} \cup {t}

\* The newest Window of the rows R.  Mutant: the oldest, a forgotten DESC.
Oldest(R) == {r \in R : Cardinality({q \in R : began[q] < began[r]}) < Window}
Newest(R) == {r \in R : Cardinality({q \in R : began[q] > began[r]}) < Window}

\* Step 2: the rows to trim are found ...
FindOld(t) ==
    /\ pc[t] = "trim"
    /\ dropped' = [dropped EXCEPT ![t] = Seen(t) \ Newest(Seen(t))]
    /\ Goto(t, "delete")
    /\ UNCHANGED <<database, began, found, plausible, drop, clock, played>>

\* ... and deleted, when nobody else is deleting them.  A loss is done.
DeleteOld(t) ==
    /\ pc[t] = "delete"
    /\ \A o \in Others(t) : pc[o] \notin {"trim", "delete"}
                                => dropped[o] \cap dropped[t] = {}
    /\ Goto(t, IF Won(t) THEN "stats" ELSE "commit")
    /\ UNCHANGED <<database, work, clock, played>>

\* Step 3: the upsert waits for the row of the user; it is applied at commit,
\* until when nobody else can read or write the row for an upsert.
UpsertStats(t) ==
    /\ pc[t] = "stats"
    /\ HoldsStats(UserOf[t]) = {}
    /\ Goto(t, "start")
    /\ UNCHANGED <<database, work, clock, played>>

\* The start ping is read: a win without one, or faster than the time that has
\* passed since, is not plausible.
ReadStart(t) ==
    /\ pc[t] = "start"
    /\ \E enough \in BOOLEAN :
          plausible' = [plausible EXCEPT ![t] = enough /\ GameOf[t] \in pinged]
    /\ Goto(t, "select")
    /\ UNCHANGED <<database, began, found, dropped, drop, clock, played>>

\* Step 4: SELECT ... FOR UPDATE finds the committed rows ...
SelectScores(t) ==
    /\ pc[t] = "select"
    /\ found' = [found EXCEPT ![t] = board]
    /\ Goto(t, "lock")
    /\ UNCHANGED <<database, began, dropped, plausible, drop, clock, played>>

\* ... and returns those that still exist when it has locked them all.
StillThere(t) == found[t] \cap board

LockScores(t) ==
    /\ pc[t] = "lock"
    /\ \A o \in Others(t) : LockedBy(o) \cap found[t] = {}
    /\ found' = [found EXCEPT ![t] = StillThere(t)]
    /\ Goto(t, "place")
    /\ UNCHANGED <<database, began, dropped, plausible, drop, clock, played>>

\* rows[-1], a slowest row.
Last(rows) == {r \in rows : \A q \in rows : TimeOf(q) <= TimeOf(r)}

Qualifies(t) ==
    /\ plausible[t]
    /\ \/ Cardinality(found[t]) < Limit
       \/ \A r \in Last(found[t]) : WinTime[t] < TimeOf(r)

\* The row that makes room, the slowest.  Mutant: rows[0].
DropFirst(rows) == {r \in rows : \A q \in rows : TimeOf(r) <= TimeOf(q)}
Displaced(rows) == Last(rows)

\* A time that qualifies is inserted, for the slowest row if there were Limit.
Place(t) ==
    /\ pc[t] = "place"
    /\ \/ /\ Qualifies(t) /\ Cardinality(found[t]) >= Limit
          /\ \E r \in Displaced(found[t]) : drop' = [drop EXCEPT ![t] = r]
       \/ /\ ~(Qualifies(t) /\ Cardinality(found[t]) >= Limit)
          /\ UNCHANGED drop
    /\ Goto(t, "commit")
    /\ UNCHANGED <<database, began, found, dropped, plausible, clock, played>>

\* LEAST(fastest, excluded), NULL at first.
Lower(best, time) == IF best = 0 THEN time ELSE Min({best, time})

Commit(t) ==
    /\ pc[t] = "commit"
    /\ recent' = (recent \cup {t}) \ dropped[t]
    /\ IF Won(t)
       THEN /\ wins' = [wins EXCEPT ![UserOf[t]] = @ + 1]
            /\ fastest' = [fastest EXCEPT ![UserOf[t]] = Lower(@, WinTime[t])]
            /\ board' = (IF Qualifies(t) THEN board \cup {t} ELSE board) \ {drop[t]}
       ELSE UNCHANGED <<wins, fastest, board>>
    /\ played' = played \cup {t}
    /\ Return(t, "done")
    /\ UNCHANGED <<pinged, clock>>

\* The database raises or the connection is lost: the transaction never was.
Fail(t) ==
    /\ pc[t] \notin {"new", "done", "failed"}
    /\ Cardinality({r \in Request : pc[r] = "failed"}) < MaxFailed
    /\ Return(t, "failed")
    /\ UNCHANGED <<database, clock, played>>

Post(t) == \/ Begin(t) \/ InsertRecent(t) \/ FindOld(t) \/ DeleteOld(t)
           \/ UpsertStats(t) \/ ReadStart(t) \/ SelectScores(t) \/ LockScores(t)
           \/ Place(t) \/ Commit(t)

Next == \/ \E t \in Request : Post(t) \/ Fail(t)
        \/ \E t \in Request : Ping(GameOf[t])

Spec == Init /\ [][Next]_vars

\* Statements run while any can: no more is asked of PostgreSQL and the threads.
Progress == \E t \in Request : Post(t)
FairSpec == Spec /\ WF_vars(Progress)

------------------------------------------------------------------------------
(* Properties.                                                               *)

Games(u, R) == {GameOf[t] : t \in {r \in R : UserOf[r] = u}}

\* The lifetime wins of a user are the games it won, each once, however its
\* requests overlap, are retried or fail half-way; the same holds of the best
\* time.
WinsCounted ==
    \A u \in User :
        LET won == {t \in played : UserOf[t] = u /\ Won(t)}
        IN  /\ wins[u] = Cardinality(Games(u, won))
            /\ fastest[u] = IF won = {} THEN 0 ELSE Min({WinTime[t] : t \in won})

\* The newest Window games of a user are in its window: a transaction that trims
\* does not see what others have not committed, and never deletes too much for it.
WindowKeepsNewest ==
    \A t \in played \ recent :
        Cardinality({q \in played : UserOf[q] = UserOf[t] /\ began[q] > began[t]}) >= Window

\* A plausible time that is not on the leaderboard, never placed or displaced since,
\* leaves Limit entries there that are at least as good, whatever winners submit at
\* the same time, see one another's rows or not, and fail.
BestTimesStand ==
    \A r \in OldScores \cup {t \in played : Won(t) /\ plausible[t]} :
        \/ r \in board
        \/ Cardinality({q \in board : TimeOf(q) <= TimeOf(r)}) >= Limit

\* Every request that began ends: the locks of a key, of the window, of the stats and
\* of the leaderboard are taken in an order in which no two requests wait for each
\* other, also when one of them fails.
RequestEnds == <>[](\A t \in Request : pc[t] \in {"new", "done", "failed"})
==============================================================================

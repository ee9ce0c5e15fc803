# Minesweeper versus: specifications and proofs

This directory specifies the multiplayer minesweeper server in TLA+: how two users find each
other, how a match is played, recorded and rated, how bots take part, deduce and play, how
their accounts survive restarts, and how single-player results are stored. TLC checks each
model on small instances; TLAPS proves results about matches, matchmaking, accounts, ratings,
single-player results, the solvers and the bots' games for all of them. `PROJECT.json` maps every definition to the source lines it stands for.

    tlc -workers 2 -config MCMatch_rematch.cfg MCMatch     # one run
    tlapm MatchProofs.tla                                  # and the other *Proofs modules

## 1. Inventory

The server is one Flask process under a gevent worker. All its state but the database is in
memory: a few singletons, each with a lock of its own.

| Part | State | Operations | Talks to |
|---|---|---|---|
| `match.py` Match | connections, board, start time, `finished`, counts, rematch requests, `rematch_declined` | `add_connection`, `_run_match`, `handle_message`, `handle_disconnect` | both clients, tracker, invites, board cache, rating and head-to-head tables |
| `websocket_handler.py` | none (one greenlet per socket) | receive loop, disconnect in `finally` | tickets, Match |
| `session_tracker.py` | username to last seen and status | `touch`, `set_in_game`, `set_online`, `set_queued`, `remove` | called by all others |
| `matchmaking_queue.py` | waiting and matched entries | join, leave, status endpoints; matching thread every 2 s; post-cycle hooks | tracker, invites, MatchManager |
| `matchmaking.py` | invites | send, answer, list, cancel | queue, tracker, MatchManager, bot responder |
| `bots/lifecycle.py` | a thread for each bot | online and offline phases | tracker, invites |
| `bots/invite_responder.py` | a timer for each invite to a bot | decide, wait, answer | tracker, invites, MatchManager, driver |
| `bots/queue_injector.py` | hook of the matching thread | give a bot to a human who waits long | queue, tracker, invites, driver |
| `bots/match_driver.py` | a thread per match of a bot | plays as a client of Match in the process | Match, tracker |
| `singleplayer.py` | window of games, statistics, leaderboard, start pings (database) | start ping, submit a game | PostgreSQL |
| `auth.py`, `ws_ticket.py` | users, credentials, tickets | register, Google sign-in, tickets | tracker, PostgreSQL |
| `board_cache.py`, `board_replenisher.py`, `board_generator.py` | pool of boards per difficulty and start square | draw, store, refill | PostgreSQL, solver |
| `solver/`, `bots/brain.py`, `bots/runner.py` | one game | deduce cells; choose and time moves | |
| `elo.py`, `match.py` | ratings and head-to-head records (database) | update both after a game | PostgreSQL |
| `bots/seed_elo.py`, `bots/registry.py`, `entrypoint.sh` | accounts and ratings of the bots (database), a file with their ids | seed at each start and by hand; load the ids | PostgreSQL, the file system |

What is hard about it, with the lines in `PROJECT.json` under `hazards`:

* completions, disconnects, rematch requests and declines of two sockets race, and only part
  of what they do is under the lock of the match;
* a reconnecting player starts a second `_run_match` while the first may be at work, and the
  disconnect of the old socket is still to come;
* the queue, the invite store and the tracker have separate locks, and every handler works on
  what it read under an earlier one;
* a match id is public (accepted invite, matched entry) before the match object exists;
* a bot is marked `in_game` seconds after it was promised;
* results are written by two separate transactions whose errors are swallowed, and which
  lock the rating rows of winner and loser in an order of their own;
* the ids of the bots are in the database and in a file, and the container may be killed, or
  lose either, between any two steps of its start;
* single-player submissions run concurrently at READ COMMITTED and are retried by clients;
* solvers and bots keep sets and groups incrementally, cell by cell and call by call, and
  never recompute them; the generator and the bot call the same solver in different rhythms.

What makes each part correct: a game has one winner and counts once; players of one game
play one board; a rematch needs both; nobody is matched who no longer waits; an invite is
answered once; a promised match is made and its bot is there; a bot deduces only what is so,
ends its game, and hits no mine on a board that needs no guess; ratings change as if games were
rated one after the other, and players are told what was stored; a server that is up knows its
bots by accounts that exist; each won game counts once in the lifetime statistics; the window and the leaderboard keep the entries they should; a Google user
has one account.

### Which interleavings exist

The server runs in two ways. `entrypoint.sh` starts gunicorn with one gevent worker: a greenlet
is interrupted where it sends, sleeps, or waits for a lock that is held, and a call of psycopg2
blocks the whole worker. `app.py` run by itself is Flask's threaded server: threads switch
anywhere, at database calls in particular. The locks, the `FOR UPDATE` and the unique
violations of the code are written for concurrent requests, and so the models take the
larger set of switch points: between any two lock sections (matchmaking), statements
(`SinglePlayer`, `Accounts`, `Ratings`), and at sends and database calls (`Match`). What holds
of them holds under the gevent worker, which has fewer behaviours. The violations of section 3,
`bots_shared` and `perfect_guess`, need no switch inside a handler. The seeding that an operator
runs is a process of its own and races with the server in both modes. Switches of threads between two
statements of Python outside a lock are not modelled.

## 2. Modules

| Module | Models | Checked by | Lines |
|---|---|---|---|
| `GameResults` | what a match promises about its games, without sockets or threads | refined by `Match` | abstract |
| `Match` | one match: sockets, handlers, `_run_match` threads, clients | `MCMatch` (3 runs) | `match.py`, `websocket_handler.py` |
| `Matchmaking` | tracker, queue, matching thread, invites, HTTP handlers | `MCMatchmaking` (1 run) | `session_tracker.py`, `matchmaking_queue.py`, `matchmaking.py` |
| `BotMatching` | extends `Matchmaking` with lifecycle, responder, injector and driver | `MCBotMatching` (2 runs) | `bots/*.py` |
| `Accounts` | guest registration and Google sign-in on the `users` and `oauth_credentials` tables | `MCAccounts` (1 run) | `auth.py`, `db.py` |
| `RatingLedger` | ratings of games rated one after the other | refined by `BotSeeding` | abstract |
| `Elo`, `Ratings` | the rating update; the transactions that rate a game and count it for the pair | `MCBotSeeding` | `elo.py`, `match.py`, `head_to_head.py` |
| `BotSeeding` | extends `Ratings` with the start of the container, the seeding, the registry, crashes | `MCBotSeeding` (1 run) | `bots/seed_elo.py`, `bots/registry.py`, `entrypoint.sh` |
| `Board`, `Minefield` | cells and neighbors; mines, cascades, the basic rules, the test of a board | all solver runs | `board_generator.py`, `bots/flood_fill.py`, `solver/basic_solver.py` |
| `Frontier` | the partition of unknown cells that every solver keeps | `MCBotGame` | `solver/solver_types.py` |
| `BotGame` | extends `Frontier` and `Minefield` with one game of a bot of the basic tier | `MCBotGame` (1 run) | `bots/brain.py`, `bots/runner.py` |
| `MineGroups` | groups of cells with a number of mines; splitting, stripping, placements | `MCSolverTiers` | `solver/solver_types.py` |
| `SubsetSolver`, `PerfectSolver` | a call of the subset tier; of the probabilistic and perfect tiers | `MCSolverTiers` | `solver/subset_solver.py`, `solver/perfect_solver.py` |
| `SolverTiers` | the generator and then a bot drive one of these solvers over a board | `MCSolverTiers` (2 runs) | `board_generator.py`, `bots/brain.py` |
| `SinglePlayer` | the submission transaction under READ COMMITTED | `MCSinglePlayer` (1 run) | `singleplayer.py` |
| `MatchProofs`, `MatchmakingProofs`, `AccountProofs`, `SinglePlayerProofs` | theorems about the module of that name; in `MatchProofs` also that it implements `GameResults` | tlapm | |
| `RatingProofs` | theorems about `Elo`, `Ratings`, `BotSeeding` and that they implement `RatingLedger` | tlapm | |
| `BoardProofs`, `BotProofs`, `TierProofs` | theorems about `Board` and `Minefield`; `Frontier` and `BotGame`; `MineGroups` and `SolverTiers` | tlapm | |

### Match

A step is what runs between two points where a handler may be interrupted by another: a send,
a sleep, or a database call. What `_lock` protects up to the next such point is one step. `pc[s]` is
the control point of the handler of socket `s`; the bot driver calls the same methods from its
own thread and is one more client. `rpc[r]` is the control point of a `_run_match` thread.

* A message of the server is heard at once, a message of a client waits in `inbox`. A client
  that acts on an old view did so before it heard the newer one, so its message was sent
  earlier: delaying one direction gives every order the other could add.
* Boards are named after the thread that fetched them; `starting_square` is the same name. Times,
  cell lists and the sizes of rating changes are left out. `counts` counts reveals.
* `game`, `decided` and `verdictOf` are history: they name the games of the match, so that
  "recorded once" can be said of each.
* `Solve` waits for the end of the broadcast that dealt the board: the broadcast is two
  sends in a row, a board takes seconds at least.
* A client asks for a rematch once per game. It may decline after asking.
* `OneTab` says that a user opens a connection only after the old one closed (a reload). The
  old handler may not have noticed yet, which is the case of interest.
* Bounds: `MaxGames`, `MaxRuns`, `MaxInFlight` (per socket), `MaxReveals` (per game).

### Matchmaking and BotMatching

A step is one section under one lock: of the tracker, of the queue, or of the invite store.
Each human has one request under way (`request[u].at` is its control point), the matching
thread has `loop`, so that handlers and thread interleave between any two sections. `fresh`
abstracts `last_seen` to whether the heartbeat is recent; the history variable `heard` has the users
whose heartbeat was recent when `_cleanup_stale` last ran, or who were heard of since; `age` counts matching cycles, and the
widening of the range is in the same unit. `Pairings` says what the greedy pass over sorted
candidates can return: disjoint pairs, and a candidate is left out only for a pair at least as
close that shares a user with it. Candidates of equal gap come in any order.

A seat in a match is one step for each call into `Match` (`TakeSeat`, `BeginMatch`,
`LeaveSeat`), with the effects of that call on tracker and invites. `Detach` waits for the match to begin
or for the human to leave, because the driver's start timeout (30 s) is far longer than `_run_match`
takes to mark the players.

Bots extend this: `life` is the lifecycle thread, `answer` the timer of each invite, and the
injector continues `loop` after `EndCycle`. `force_match_with_bot` is followed by the calls
`_create_match_for_pair` makes too, so the actions `CreatePair`, `MarkPair` and `CancelPair`
serve both. Choosing a bot (`_pick_bot`, which reads the status of each bot in turn) is one
step. Bounds: `MaxMatches`, `MaxInvites`, and `MaxAsks`, the number of requests and silences
of the humans.

### Frontier and BotGame

`Frontier` has an action for each of `_mark_revealed` and `_mark_mine`; `PartitionSpec` is any
solver that marks cells in any order. `BotGame` uses these actions. A step of the runner goes
through four phases: the solver records reveals and applies one rule to one cell at a time
("solve"), the bot clicks ("choose"), the cascade spreads from zeros, a ring at a time
("reveal"), and only between steps ("idle") may the driver cancel. The iteration order of
Python's dicts and sets, the order of the safe queue and the random choices are open.

This is the basic tier. The three mistake probabilities are one choice, `careful` (all 0)
or not: a bot that is not careful may click any unknown cell and drop any deduction. The
preferred region of blind guesses is a choice at each guess. `queue` leaves out cells that are
no longer unknown, which `next_move` skips. `Deduced`, `Flood` and `Uncovered` are the same loops as
functions, for the acceptance test of the generator; `solvable` is its verdict. A board that was
not accepted can still be played: it is the generator's last resort, or of another tier. The opponent ending
the match is `Cancel`. Delays and cooldowns are left out: they order a bot's moves against the
opponent's only.

### MineGroups and the upper tiers

A group is named by the revealed cell whose number it comes from; `groups` maps these cells to
the unknown cells around them and the mines among them. A split leaves the smaller group as it is and takes
its cells and mines from the larger, so that both keep their names: `_split_group` returns the
same two groups. A component of `PerfectSolver` is the set of its groups.

* `SubsetSolver` has one step for building the groups, one for each split, one for the
  conclusions. Which nested pair is split next is open: in the code it depends on the order of the
  reveals and on a set of objects. What is deduced depends on it too (section 3).
* `PerfectSolver` has the steps of `find_solved_squares`: `Record` takes new cells out of groups
  and components, `Reassess` splits one nested pair in a component, `AddConstraint` begins to add
  the group of a new number to the merged components it touches, `AddGroup` is one call of the
  recursive `add_group` (`adding` is its stack), `Divide` is `split_if_disjoint`, and `Solve`
  enumerates the placements. A component in which several pairs are nested is looked at once per
  call, as in the code.
* `connected_groups` is the component whose groups hold a cell; the code's map keeps stale
  entries for cells that are in no group any more, which no lookup reaches: cells looked up are unknown, and the step that
  made an entry stale also removed the cell.
* Probabilities are left out. They decide which cell a bot guesses, never what a solver deduces.
  Two things were seen in them: cells deduced in a call are missing from `probs`, though
  `solver_types.py:16-19` has them there at 0.0 or 1.0 (the mines are missing), and the density of
  unconstrained cells subtracts mines deduced in the same call twice
  (`perfect_solver.py:140` and `:169`).

`SolverTiers` runs the generator's test on a board, stores the verdict, and then lets a bot
without mistakes play it with a new solver. The bot's guesses go to any safe cell: one that hits a
mine changes neither the solver nor the cells shown.

### Elo, Ratings and BotSeeding

`Gain` has the rating change as a table of leads: the code rounds a float that depends on the
difference of the ratings only, and the table lists where the rounded value changes.

`Ratings` has one step for each statement that may wait: the two inserts, each row of the
`SELECT ... FOR UPDATE`, and the `UPDATE`s with their commit. `locks[id]` is who holds the row of
an account. `FOR UPDATE` takes rows in the order it meets them, which is open (`first`). The order of rating
and head-to-head depends on how the game ended, as in the code (`rest`). `GameFails` covers a
statement that raises and a commit whose answer is lost.

`BotSeeding` starts a container: `Boot`, the statements of the seeding, `SaveIds`, `StartServer`.
What exists at first is one of three (`Databases`): nothing, users that played without bots, or
bots of an earlier start. A human may bear a bot's name (`Namesakes`), and the seeding then
adopts its account. Games end between players of `Pairings` while the server is up. `BreakDeadlock` aborts one transaction of a ring of
waiting ones. A transaction that holds a row for `FOR KEY SHARE` only (the foreign keys of
head-to-head rows) blocks none of these statements and is left out.

Bounds: `MaxRare` limits the sum of faults and of seedings by hand.

### SinglePlayer

One action for each statement of the transaction, in one category of games. A statement sees
what was committed when it starts and its own writes (`Seen`, `SelectScores`); it waits for
rows and keys held by others and then skips rows that are gone (`LockScores`). The writes of
a transaction become visible at `Commit`; `Fail` is a rollback at any statement. The time of
a row is `began`, the `now()` of its transaction, counted for each user because only the games
of one user are compared. Bound: `MaxFailed`, the requests that fail. Whether enough time passed since the start
ping is a choice. The start ping of a game precedes its submissions.

### Accounts

One action for each statement of a sign-in. A tab signs in, chooses a name, and submits it,
perhaps several times; `name[t]` is its uncommitted row while `pc[t]` is between the two inserts
and the commit. An insert waits for an uncommitted row with the same key (`Holders`), and a
unique violation rolls back and asks again who has the account (`Requery`). A row of `users` is
named by its username: no code under the server renames one (`scripts/set_username.py` does,
by hand, and says that the user must log in again). `Commit` may lose its answer. Guests share
the `users` table. Of the tracker `active` has the names that guests ask for and that were heard of
within the heartbeat timeout: `Register` tests it, `Answer` marks it, and `Heard` is any later request with a
token of that name, or the loop of a bot. Tokens do not expire, so a guest who fell silent may be heard of
again. `/auth/google/complete` neither tests nor marks the tracker, and none of its actions touches
`active`. Two history variables say who got what when: `holding` has the guests whose name was never
silent since they got it, and `asked[q]` those who were holding when q asked. Bound: `MaxTries`, the
submissions and requests together.

## 3. Runs

| Run | Instance | Shows |
|---|---|---|
| `match_rematch` | two sockets, three games, two messages in flight, one reveal | `SameBoard`, `CountsFresh`, `RematchNeedsConsent`, and the refinement `ImplementsGameResults`. Three games, because the second rematch is the first that a leftover request could start |
| `match_reconnect` | one game, three sockets, the third after a reload; any database call may fail | `ResultOnce`, `VerdictAgrees`, with two `_run_match` threads and the late disconnect. The two sockets of one player are symmetric, both properties are invariants |
| `match_live` | two sockets, two games, database works | `CompletionAnswered`, `ResultRecorded`, `RematchStarts` |
| `matchmaking` | three users, ratings 3, 4, 6, range 1 to 2, two invites, two matches, four requests | `MatchedArePresent`, `NoMissedPair`, `ToldIsPlayer`, `AnswerIsFinal`, `PromiseKept`. Three users are the fewest where pairs compete, and where an invite has an outsider; two invites cross, and both may be answered. Users may fall silent and be heard of at any time |
| `bots_mixed` | one human, one bot, an invite and the queue | `BotTakesSeat` |
| `bots_shared` | two humans, one bot | **violated**: the injector gives away a bot that sits in a match |
| `bot_game` | every board of 3 x 4 cells with two mines and the start in a corner, bots with and without mistakes | `WonIsTrue`, `NoGuessNeeded`, `PartitionAgrees`, `GameEnds`. The safe zone leaves eight cells: boards that one cascade solves, that need deductions, and that need a guess; all three regions occur, and mines that anchor a near cell alone |
| `tiers` | every board of 3 x 4 cells with three mines and the start in a corner, three tiers | `DeductionsSound`, `ComponentsSeparate`, `GroupsExact`, `TierStrength`, `GuessOnlyIfRejected`, `BoardEnds`. Components merge and divide, groups nest and are split, boards are accepted and rejected for each tier |
| `perfect_guess` | one board of 4 x 5 cells with five mines | **violated**: a bot of the perfect tier must guess on a board accepted for it |
| `single` | a win and a loss of one user in a window of one game, a win of another and its retry, a leaderboard of two, one failure | `WinsCounted`, `BestTimesStand`, `WindowKeepsNewest`, `RequestEnds`. Two users, because the wins of one are ordered by its statistics row; two games of one user, so that one request trims the game of the other |
| `accounts` | two tabs of a Google user, a tab of another, three names of which a bot has one, two guests who ask for one name, four submissions and requests together | `OneAccountEach`, `TokensAgree`, `TakenByOthers`, `SharedOnlyInRace`, `SignInEnds`. Two tabs may submit the same name or different ones; a third competes for the name only. The guests ask one after the other or at once, and fall silent in between |
| `ratings` | two games of two humans, or of one human with two bots; no tables, users only, or bots as well; one fault or seeding by hand | `ImplementsLedger`, `ToldIsApplied`, `HeadToHeadAgrees`, `ServedBotsExist`, `ResultsSettle`, `ServerComesUp`. Two games of one pair are what two transactions lock in opposite orders; two bots give a seeding two rows to hold one of while it waits for the other |

Every run sets `CHECK_DEADLOCK FALSE`: users may stop asking and players may all leave, and
the bounds end everything else; a bot stops when its game is over.

Every property of a passing run has a mutant in `PROJECT.json`: a definition with a plausible
mistake (a lock that is not taken, a test that is not repeated, a reset that forgets a field)
under which TLC finds the property violated. The type invariants are not in the runs where other
properties say more; those of `Match`, `Matchmaking`, `BotGame`, `BotSeeding`, `SinglePlayer` and
`Accounts` are proved, as part of the inductive invariants of section 4.

### Fairness

Weak fairness of the handlers and `_run_match` threads of a match (`match_live`), of the
matching thread, timers and lifecycle threads (`bots_mixed`), of a bot's steps (`bot_game`,
the loop of its driver) and of the loops of generator, solver and bot (`tiers`): they are
threads of a running process that never wait for a human in the middle of a step (`Handle`
includes the receive loop only when a message or a disconnect is there). Database statements
end; those of `SinglePlayer`, `Accounts` and `Ratings` wait only for transactions. It is enough that
some statement runs while any can (`Progress`, `Statement`); in `BotSeeding` the container also
restarts (`restart: unless-stopped`) and PostgreSQL ends deadlocks. Faults and operators may do nothing.
Humans, clients and drivers owe nothing: no fairness is assumed of them.

### Differences between comments and code

Two runs are expected to fail; `findings` quotes the lines.

1. `bots/queue_injector.py:23`. The guard on `in_game` does not exclude a bot that has just
   accepted an invite: it becomes `in_game` only when its human connects.
2. `tests/test_bot_brain.py:39`. A perfect bot may die on a board accepted for it.
   `find_solved_squares` goes over components and mine budget once; the mines it finds count for the
   next call only, and the generator and the bot, who uncover deduced cells at once or one by
   one, make different calls.

Met while modelling, without a run of their own:

* `board_generator.py:62`, `subset_solver.py:55`. A subset bot may have to guess on a board accepted for it. If a
  group overlaps another and both lie in a third, taking one of them from the third leaves a group that does not
  contain the other. Which one is taken first is decided by the order of the groups, and that by the order of the
  reveals, which differs between generator and bot. On the board of 4 x 7 cells with the start <<1, 1>> and the mines
  <<1, 5>>, <<3, 1>>, <<3, 3>>, <<3, 7>>, <<4, 4>>, <<4, 5>> the code itself disagrees: the generator's order
  deduces all 22 safe cells, the bot's 17. TLC finds the guess with the configuration of `perfect_guess`, if
  given that board and the tier `subset`.
  For the probabilistic tier `GuessOnlyIfRejected` holds in both directions, on every board (section 4).
* `match.py:287`. A disconnect after a game tells the opponent that the rematch is off but
  leaves `rematch_requests` as it is, so a request made before is still accepted by a later
  request and a game against nobody is dealt. `RematchNeedsConsent` allows it: both asked.
* `singleplayer.py:213-219`. `FOR UPDATE` serializes winners, but one that waited does not see
  the row the other inserted and finds one row fewer than there are, so the leaderboard can
  outgrow its limit, and since a winner deletes at most one row it never shrinks again.
  `BestTimesStand` is what it still guarantees. A retry later than 100 newer games counts again
  (`singleplayer.py:160`).
* `entrypoint.sh:12`. On a database without tables the seeding fails before `create_app` makes
  them, and with `set -e` and `restart: unless-stopped` the container never gets further;
  `ServerComesUp` holds of databases with tables.
* `bots/seed_elo.py:153`. A human who took the name of a bot before it was seeded shares its
  account with the bot from then on.
* `auth.py:78`. Guests whose requests overlap may both get one name: the test of the tracker and the mark are
  two steps. A Google user's `/auth/google/complete` tests `users` only, so it takes the name of a guest who
  is playing, and one that commits between a guest's SELECT and its answer leaves the two with one name.
  `SharedOnlyInRace` is what holds between guests.
* A bot in a match that has not begun accepts further invites (`bots/invite_responder.py:102`);
  an inviter who fell silent keeps an accepted invite to a match nobody makes (`:114` before
  `:125`); `_run_match` may mark a bot `in_game` after both players left, which defers its
  logoff for ever (`bots/lifecycle.py:98`).

## 4. Proofs

Each `*Proofs` module begins with the inductive invariant, as named parts, and has a lemma for
each action or group of actions that says they preserve it; the theorems come last. TLC checked
every invariant on the runs of section 3 before it was proved.

### Match

The theorems of `MatchProofs` hold for any set of sockets, numbers of games, threads and
messages, with or without failing database calls and second tabs. They rest on the named
assumptions of `Match`: the two players differ, null values are not names, and the bounds are
natural numbers. Two need nothing else:

* `TypeCorrect`: `Spec => []TypeOK`. One lemma for each group of actions (`ClientStepType`,
  the handler, the `_run_match` thread), over lemmas on what clients hear.
* `ResultRecordedOnce`: `Spec => []ResultOnce`. `ResultOnce` is not inductive: nothing in it
  says that a handler about to write finds no win in its table. `ResultInv` adds that games to
  come, and a current game that is not finished, are undecided; that a handler with a table
  still to write to decided its own game and finds no win there; and that no two handlers
  decided the same game. The last holds because a handler decides only when `finished` is
  FALSE, and then the current game is undecided, while whatever is being recorded is not.

The others are about players with one connection each (`OneSocket`), as in `match_rematch`. A
second connection of a player makes `add_connection` start a second `_run_match` thread, and two
threads deal two boards for one game: that is what `match_reconnect` is for.

* `BoardsAgree`, `CountsOfThisGame`, `RematchIsAgreed`, `WinnerTold` state `SameBoard`, `CountsFresh`,
  `RematchNeedsConsent` and `VerdictAgrees`. Their invariant is `MatchInv`. Its idea is that nothing
  of an earlier game is left when a game begins. Thread r is the one of game r, and one at most is not
  ended (`RunsSound`). A client that asked for a rematch sent whatever it had to say of the old game before, and
  its handler takes messages in order, so that behind a request only declines can wait (`MessageSound`); so when both
  requests are in, every message of the old game has been handled. One handler at most restarts
  a match, and while it does the other has nothing to do but decline (`HandlerSound`, `Quiet`). Counts are those of the reveals
  heard since the reset (`CountSound`, `CountsReset`).
* `MatchImplementsGameResults`: `OneSocket /\ Spec => ImplementsGameResults`. A game begins when
  `_run_match` sets the start time; it is won by the first handler that sets `finished` after that, by a completion or a
  disconnect, and abandoned by one that sets it before; the reset is its rematch, and the two transactions
  that record a game are its two counts. Every other step leaves the variables of `GameResults` alone. That the recorded
  winner is the one the game ended with needs `ResultInv`, that a rematch finds the game over needs `MatchInv`.
* `WinnerToldToAll`: `VerdictAgrees` in a match of one game, for any sockets and any number of reconnections.
  A game that is decided once has one verdict, so that only the order of games could spoil it.

### Matchmaking

`MatchmakingProofs` holds for any finite set of users, any ratings, ranges and bounds. What
requires an invariant is that ids pass through many hands: drawn by an answer to an invite or by the
matching thread, written to an invite or a queue entry, read by a status request, told after the
lock was released. `MatchmakingInv` says of every hand that it holds only what its owner may have: `Entitled(u, m)`
is that u is a player of m wherever m is a match, is about to become one, or belongs to an accepted
invite. Accepted invites have ids of their own (`InvitesSound`), and the id of a pair is nobody else's until its match
exists (`PairSound`).

* `OnlyPlayersTold` and `NoIdForgotten` (`ToldIsPlayer`, `PromiseKept`) follow from it; for the second,
  an accepted invite without a match has a handler that still owes one.
* `PairsNotMissed` (`NoMissedPair`) is from `CycleSound`: two users of the cycle that wait and fit
  conflict with a pair that the greedy pass found, and that pair is dealt with, or lost a user.
* `OnlyPresentMatched` is the action property `MatchedArePresent`. Pairs are found on copies, but a pair is
  flipped only if both entries still wait. From the cleanup to the end of the cycle, an entry that waits belongs
  to a user in `heard` (`HeardInv`): `_cleanup_stale` drops the waiting entries of silent users in the step in which
  `heard` is set anew, and whoever enters the queue later was touched by its request.
* `InvitesAnsweredOnce` is the action property `AnswerIsFinal`: each section that writes an invite
  tests that it is pending under the same lock, and new invites take free ids.

### Accounts and single-player results

`AccountProofs` holds for any tabs, Google users, guests, names and retries. Its four theorems
state `OneAccountEach`, `TokensAgree`, `TakenByOthers` and `SharedOnlyInRace`, which are parts of
`AccountInv` and not inductive alone. It adds what the unique indexes promise of rows that are
not yet committed (`RowsNew`, `CredentialsNew`), and that a request which met a unique violation will find the
reason when it looks again, because users and credentials are not deleted (`ViolationsStand`). So a requery
that finds no account was refused for its name. `GuestsShareInRaces` (`SharedOnlyInRace`) rests on `GuestInv`: the
name of a guest that holds it is active (`HoldersActive`), and a request that got past the test of the tracker had no
holder of its name before it, from then to the end (`AskedApart`).

`SinglePlayerProofs` holds for any users, requests, results, window and limit; sets of requests
and old scores are finite (`RowAssumption`).

* `NewestStay` and `LeaderboardFair` state `WindowKeepsNewest` and `BestTimesStand`, from `StoreInv`. A
  trim deletes rows that had a window of newer games in a snapshot, and games that are committed stay counted as
  newer even if another request trims them (`TrimsOld`). Rows of the leaderboard that were locked are still there, and
  nobody else holds them (`LocksHeld`); a winner deletes only the slowest row it holds, for a faster time (`DropsSlowest`), so
  whatever is missing from the leaderboard is matched by a full leaderboard of rows at least as good.
* `WinsCountedOnce` is `RetriesInTime /\ Spec => []WinsCounted`. `RetriesInTime` says that a user
  one of whose games is submitted twice has no more games than the window keeps. The code needs it: the duplicate of a
  retry is found in the window, and once it was trimmed the retry counts again
  (`singleplayer.py:160`).

### Ratings

`RatingProofs` holds for any accounts, games, bots and bounds, from the named assumptions of
`Elo`, `Ratings` and `BotSeeding`.

* `RatingsSerial`: `Spec => ImplementsLedger`, the refinement step by step. Every step is a step of
  `RatingLedger` or leaves its variables alone; a commit is a serial `Play`. What makes it
  so is `IInv`: a handler that writes holds the rows of both players and read from them
  what is there now (`HandlersInv`); the seeding holds only rows it makes itself, unless it was
  told to overwrite (`SeedHolds`), and its loops never run past their last bot (`SeedLeft`); no
  handler works while the server is not up, no seeding while the container is down, and the
  server starts with the mapping the seeding wrote (`PhaseInv`). `TypesCorrect` and `ToldAgrees` (`Spec => []ToldIsApplied`)
  come from the same invariant.
* `BotsAreServed` (`Spec => []ServedBotsExist`), from `BotsInv`: an id that the seeding or a mapping file holds
  for a bot is, if the account exists, that of the bot (`Own`; `FoundOrAdded` is the invariant of the seeding's loop),
  ids about to be added are in no file (`AddedNew`), and the container starts the server only with a mapping that names
  the account of every bot (`ReadyToServe`).
* `RecordsAgree` (`Spec => []HeadToHeadAgrees`), from `RecordInv`: the two columns of a pair's row count the games in
  `scored` of either outcome, and a game's handler has its count still before it if and only if the game is not in
  `scored`, so that none is counted twice.

### Boards, solvers and bots

`TierProofs` holds for any set of boards and tiers. It has two invariants, of which the first says that
what is believed is true, and the second that nothing is forgotten.

* `DeductionsTrue`: `Spec => []DeductionsSound`. `TierInv` says of every group
  that its number is the number of true mines among its cells; each of split, strip and rebuild keeps that,
  hence the true mines are among the placements of every component, and what all placements agree on is so.
  That holds for the perfect tier too: mines that are not known yet are among those that remain, so its
  bound on the size of a placement leaves the truth in (`TruthTried`). And the cells without information
  are called mines only if the most that every component can hold leaves that many over: what lies in a
  component is at most its most, and components share no cell, so the sum bounds it all (`MostCovers`, `SumCovers`).
* `ComponentsApart` (`ComponentsSeparate`), from `Kept`: every group is in one component or at work
  in `add_group`, and components share no cell, also while some are merged (`Apart`); the groups hold exactly the
  unknown cells beside the numbers added so far, and `blank` the rest (`GroupsCover`). A number has no group only if all
  its neighbors are uncovered or known, which is why a zero must have had its cascade first
  (`ZerosDone`) and a cell is uncovered only once (`UncoveredOnce`). For `split_if_disjoint`,
  two pieces that share a cell are one.
* `GroupsSayAll` (`GroupsExact` of both counting tiers), from `SameSaid`: a set of mines agrees with all
  groups if and only if it agrees with all revealed numbers. A split replaces a
  sum by a difference, and the mines that leave a group have left its number.
* `AllThatIsImplied` (`TierStrength`). For the counting tiers, placements of single components
  combine to a placement of all, because components share no cell (`Combined`), so that a cell on which all
  placements of its component agree is one on which all placements of the board's numbers agree. What the perfect
  tier finds beyond that is true of every placement of `MineCount` mines on the whole board, and each feasible
  placement beside the numbers is part of one of these (`FeasibleExtends`). The subset tier has an invariant
  of its own (`Told`): however its groups are split, each open cell of a number is in a group that lies within
  the open cells of that number (`Spanned`), so that where a basic rule applies some group is all safe or all mines
  (`NothingLeft`). A call thus ends with no rule applicable, and `DeducedBelow` says that then the passes of the
  basic solver, run from nothing, found no more.
* `VerdictIsFate` (`GuessOnlyIfRejected`, a property of the probabilistic tier). The generator stops at a set of
  cells from which the numbers imply nothing more (a *stuck* set). `Fate` says that the
  generator's last set contains whatever any bot without a guess has uncovered, and the other way around that a bot
  with nothing in its queue has uncovered it all: what is implied by fewer numbers is implied by more.

`BoardProofs` holds what these share: that being a neighbor is symmetric, that
boards are finite, that a cascade uncovers no mine (`CascadeSafe`), that the two rules of the basic solver conclude
what is so (`Rule1Sound`, `Rule2Sound`); and facts on finite sets. That a sum over a
set of sets is what one expects (`SumsExist`, `SumCovers`) would be an induction; here it follows from a
smallest counterexample (`Minimal`), which the well-foundedness of the subset order provides. The loops of `Minefield`
are recursive functions, and are reasoned about in the same way: a loop whose states shrink by some
finite measure is defined (`LoopExists`) and ends in a fixed point that lies in any set of states which contains
the first one and is closed under its body (`LoopEnds`). Hence the passes of the basic solver, a cascade and the rounds of
the generator stay within any cells from which no rule and no zero leads out (`DeducedBelow`, `FloodBelow`,
`UncoveredBelow`).

`BotProofs` holds for every board size, number of mines and start cell
(`BoardAssumption`, `GameAssumption`).

* `PartitionCorrect`: `PartitionSpec => []PartitionAgrees`, by one lemma for a reveal and one for
  a mine. The invariant is inductive by itself. What the lemmas need of the board is that being
  a neighbor is symmetric: a near cell whose frontier neighbor is revealed becomes
  frontier, so that a reveal demotes nobody.
* `DeductionsTrue` and `WinsAreTrue`, from `BotInv`: the board has `MineCount` mines (`Board`),
  nothing false is believed (`Belief`), a finished game is not played on (`Ending`), and the partition agrees.
  The two rules count: the mines beside a revealed cell are among its flagged
  and open neighbors, and sets of equal size, one within the other, are equal. `CascadeSafe` says that a zero has no
  mine beside it, `AllShownMeans` that as many cells as there are safe ones are all of them, `NoMoveMeans`
  that a bot without a move has touched every cell.
* `NoneHit` (`Spec => []NoGuessNeeded`), from `Guided`: on an accepted board no cells are *settled* (nothing
  more is deduced from them, and their zeros have uncovered what is around) but all that are safe, as the rounds of the
  generator would stop at them (`UncoveredBelow`). A bot that chooses has drawn all conclusions and kept them, so
  with an empty queue its cells are settled, and the game is over (`QueueLasts`).
* `ReportsComplete` and `GameTypeCorrect`, from `CountInv`: the sets a cell passes through are
  disjoint (`Disjoint`), so that a cascade adds its size to what was reported (`Counted`).
  `ReportsMatch` alone says nothing while a cascade is under way.

### Only model-checked

Every invariant and every action property of the passing runs is stated by a theorem. Liveness under fairness is out
of reach of the proof system and stays with TLC: `CompletionAnswered`, `ResultRecorded`, `RematchStarts`, `GameEnds`,
`BoardEnds`, `BotTakesSeat`, `RequestEnds`, `SignInEnds`, `ResultsSettle` and `ServerComesUp`. Of
matches of several games in which a player opens further connections only `ResultOnce` and the types are proved, and
nothing else is claimed.

## 5. Not modelled, and why

* Tickets (`ws_ticket.py`): a dictionary entry, created and popped under one lock.
* Rate limits, CORS, validation of request bodies, formatting of answers: stateless.
* Listings of head-to-head records, leaderboards, statistics and ratings: single SELECTs. (The
  record of one pair is `SingleRecord` of `Ratings`.)
* The board cache: `get_cached_board` deletes and returns one row in one statement that skips
  rows others hold, and one thread refills the table; a match that finds none generates a
  board. Nothing relates two of these steps. The rejection of boards that the next lower tier
  solves is a second test with the same operator.
* Probabilities and the choice of a guess by them; the delays and cooldowns of bots.
* Preferences: one validated upsert of one's own row.
* `bots/simulator.py`, `bots/tournament.py` and the other command-line tools: they run apart
  from the server.
* The database schema migration of `db.py`, and the deployment scripts but `entrypoint.sh`.
* Two matches at once sharing a user, in `Match`: what that does to the tracker is in
  `BotMatching`, what it does to the ratings in `Ratings`.

## 6. Plan

1. `Match`: which of the theorems of section 4 hold with a second connection, and under what weaker assumption.
2. `Accounts`: names that a guest and a Google user have at once (`auth.py:153`), the mode without a database.
3. Bots of the upper tiers with mistakes in `BotGame`.

----------------------------- MODULE Matchmaking -----------------------------
(***************************************************************************)
(* How two users come to share a match: the session tracker, the queue and *)
(* its matching thread, the invites, and the HTTP handlers that work on    *)
(* them.  A step is one section under the lock of the tracker, of the      *)
(* queue or of the invite store, so that the handlers, one for each user,  *)
(* and the matching thread interleave between any two such sections.       *)
(* Bots take part as invited users; what they do is in BotMatching.        *)
(***************************************************************************)
EXTENDS Naturals, FiniteSets, FiniteSetsExt

CONSTANTS
    Human, Bot,     \* usernames
    Rating,         \* the rating of each user
    BaseRange, RangeStep, MaxRange,     \* allowed_range: QUEUE_BASE_RANGE, ...
    MaxWait,        \* QUEUE_MAX_WAIT, in cycles of the matching thread
    MaxMatches,     \* bound: match ids drawn
    MaxInvites,     \* bound: invites created
    MaxAsks,        \* bound: requests and silences of the humans
    None

User == Human \cup Bot
MatchId == 1..MaxMatches
InviteId == 1..MaxInvites

ASSUME UserAssumption == IsFiniteSet(User) /\ Human \cap Bot = {} /\ None \notin User
ASSUME RatingAssumption == Rating \in [User -> Nat]
ASSUME RangeAssumption == {BaseRange, RangeStep, MaxRange, MaxWait} \subseteq Nat
ASSUME BoundAssumption == MaxMatches \in Nat \ {0} /\ {MaxInvites, MaxAsks} \subseteq Nat

VARIABLES
    \* session tracker: status, and whether last_seen is recent
    status, fresh,
    \* _queue, _invites and _matches; the number of match ids drawn so far
    queue, invites, players, drawn,
    \* bot responses scheduled for an invite: a set of <<invite, accept>>
    scheduled,
    \* the matching thread: control point, pairs left, the pair at hand
    loop, pairs, pair,
    \* the HTTP request each human has under way; the number of Ask steps
    request, asks,
    \* of each match: who took a seat, who left it, whether _run_match began
    sat, gone, begun,
    \* the matches each human was told of
    told,
    \* history: users heard of within the timeout when the matching cycle began, or since
    heard,
    \* history: the waiting entries the matching thread saw and that never left,
    \* and the pairs it found among them
    seen, found

contact == <<fresh, heard>>
tracker == <<status, contact>>
stores == <<queue, invites, players, drawn, scheduled>>
progress == <<loop, pairs, pair, found>>
history == <<seen, found>>
thread == <<progress, seen>>
play == <<sat, gone, begun>>
vars == <<tracker, stores, thread, request, asks, play, told>>

Status == {"absent", "online", "queued", "in_game"}
Entry == [state : {"waiting", "matched"}, match : MatchId \cup {None},
          opponent : User \cup {None}, age : 0..MaxWait]
Invite == [state : {"pending", "accepted", "rejected", "cancelled"},
           from : Human, to : User, match : MatchId \cup {None}]
Request == [at : {"idle", "rating", "marking", "unmarking", "consume", "seek",
                  "reverse", "takeout", "offer", "quit", "create"},
            other : User \cup {None}, invite : InviteId \cup {None},
            match : MatchId \cup {None}]

ASSUME NoneAssumption == None \notin MatchId \cup InviteId \cup Entry \cup Invite

Idle == [at |-> "idle", other |-> None, invite |-> None, match |-> None]
NoPair == [match |-> None, users |-> {}, left |-> {}]

TypeOK ==
    /\ status \in [User -> Status] /\ fresh \in [User -> BOOLEAN]
    /\ heard \subseteq User
    /\ queue \in [Human -> Entry \cup {None}]
    /\ invites \in [InviteId -> Invite \cup {None}]
    /\ players \in [MatchId -> SUBSET User]
    /\ drawn \in 0..MaxMatches
    /\ scheduled \subseteq InviteId \X BOOLEAN
    /\ loop \in {"sleep", "find", "pair", "create", "mark", "cancel", "hooks",
                "inject", "force", "attach"}
    /\ pairs \subseteq SUBSET Human
    /\ pair \in [match : MatchId \cup {None}, users : SUBSET User,
                 left : SUBSET User]
    /\ request \in [Human -> Request] /\ asks \in 0..MaxAsks
    /\ {sat, gone} \subseteq [MatchId -> SUBSET User] /\ begun \subseteq MatchId
    /\ told \in [Human -> SUBSET MatchId]
    /\ seen \subseteq Human /\ found \subseteq SUBSET Human

Init ==
    /\ status = [u \in User |-> IF u \in Human THEN "online" ELSE "absent"]
    /\ fresh = [u \in User |-> u \in Human] /\ heard = Human
    /\ queue = [u \in Human |-> None]
    /\ invites = [i \in InviteId |-> None]
    /\ players = [m \in MatchId |-> {}]
    /\ drawn = 0
    /\ scheduled = {}
    /\ loop = "sleep" /\ pairs = {} /\ pair = NoPair
    /\ request = [u \in Human |-> Idle] /\ asks = 0
    /\ sat = [m \in MatchId |-> {}] /\ gone = sat /\ begun = {}
    /\ told = [u \in Human |-> {}]
    /\ seen = {} /\ found = {}

------------------------------------------------------------------------------
(* SessionTracker.                                                           *)

\* is_active
Active(u) == status[u] # "absent" /\ fresh[u]

\* The tracker after set_in_game, set_online or set_queued of the users U: no
\* effect on a user without a session.
WithStatus(U, x) ==
    [u \in User |-> IF u \in U /\ status[u] # "absent" THEN x ELSE status[u]]

\* require_auth touches the session of whoever sends a request.
Touch(u) == fresh' = [fresh EXCEPT ![u] = TRUE] /\ heard' = heard \cup {u}

\* A human is silent for HEARTBEAT_TIMEOUT_SECONDS.
FallSilent(u) ==
    /\ fresh[u] /\ request[u] = Idle
    /\ fresh' = [fresh EXCEPT ![u] = FALSE]
    /\ UNCHANGED <<status, heard, stores, thread, request, play, told>>

\* A request that changes nothing else: the player list, or one that is refused.
Heartbeat(u) ==
    /\ ~fresh[u] /\ request[u] = Idle
    /\ Touch(u)
    /\ UNCHANGED <<status, stores, thread, request, play, told>>

------------------------------------------------------------------------------
(* InviteStore and MatchmakingQueue.                                         *)

\* An invite nobody answered yet.  Mutant: any invite.
Known(i) == invites[i] # None
Pending(i) == invites[i] # None /\ invites[i].state = "pending"

\* uuid4: a match id nobody else has.
NewMatch == drawn + 1

\* The store after respond(i, TRUE) of a pending invite, with a new match id.
Accepted(i) == [invites EXCEPT ![i].state = "accepted", ![i].match = NewMatch]

\* The store after cancel_pending_for_user of the users U.
Cancelled(U) ==
    [i \in InviteId |->
        IF Pending(i) /\ {invites[i].from, invites[i].to} \cap U # {}
        THEN [invites[i] EXCEPT !.state = "cancelled"] ELSE invites[i]]

Waiting(u) == queue[u] # None /\ queue[u].state = "waiting"

\* leave: whatever the state of the entry.
Leave(U) == /\ queue' = [u \in Human |-> IF u \in U THEN None ELSE queue[u]]
            /\ seen' = seen \ U

------------------------------------------------------------------------------
(* The queue endpoints.                                                      *)

Goto(u, r) == request' = [request EXCEPT ![u] = r]
At(u, where) == request[u].at = where
Step(u, where) == [request[u] EXCEPT !.at = where]

\* join_queue: not in a game, not waiting; the rating is fetched.
Join(u) ==
    /\ request[u] = Idle
    /\ status[u] # "in_game" /\ ~Waiting(u)
    /\ Touch(u)
    /\ Goto(u, Step(u, "rating"))
    /\ UNCHANGED <<status, stores, thread, play, told>>

JoinEnter(u) ==
    /\ At(u, "rating")
    /\ \/ /\ queue[u] = None
          /\ queue' = [queue EXCEPT ![u] = [state |-> "waiting", match |-> None,
                                            opponent |-> None, age |-> 0]]
          /\ Goto(u, Step(u, "marking"))
       \/ /\ queue[u] # None
          /\ UNCHANGED queue
          /\ Goto(u, Idle)
    /\ UNCHANGED <<tracker, invites, players, drawn, scheduled, thread, play, told>>

JoinMark(u) ==
    /\ At(u, "marking")
    /\ status' = WithStatus({u}, "queued")
    /\ Goto(u, Idle)
    /\ UNCHANGED <<contact, stores, thread, play, told>>

\* leave_queue
LeaveQueue(u) ==
    /\ request[u] = Idle
    /\ queue[u] # None
    /\ Touch(u)
    /\ Leave({u})
    /\ Goto(u, Step(u, "unmarking"))
    /\ UNCHANGED <<status, invites, players, drawn, scheduled, progress, play, told>>

LeaveMark(u) ==
    /\ At(u, "unmarking")
    /\ status' = WithStatus({u}, "online")
    /\ Goto(u, Idle)
    /\ UNCHANGED <<contact, stores, thread, play, told>>

\* queue_status of a matched entry: a copy of it is read ...
ReadStatus(u) ==
    /\ request[u] = Idle
    /\ queue[u] # None /\ queue[u].state = "matched"
    /\ Touch(u)
    /\ Goto(u, [Step(u, "consume") EXCEPT !.match = queue[u].match])
    /\ UNCHANGED <<status, stores, thread, play, told>>

\* ... then consume_match drops the entry, and the copy is the answer.
ConsumeMatch(u) ==
    /\ At(u, "consume")
    /\ IF queue[u] # None /\ ~Waiting(u)
       THEN Leave({u})
       ELSE UNCHANGED <<queue, seen>>
    /\ told' = [told EXCEPT ![u] = @ \cup {request[u].match}]
    /\ Goto(u, Idle)
    /\ UNCHANGED <<tracker, invites, players, drawn, scheduled, progress, play>>

------------------------------------------------------------------------------
(* The matching thread.                                                      *)

\* The entries _cleanup_stale drops.  Mutant: only those that have waited too long.
StaleByAge(u) == Waiting(u) /\ queue[u].age = MaxWait
Stale(u) == Waiting(u) /\ (~Active(u) \/ queue[u].age = MaxWait)

\* _cleanup_stale, after a sleep in which every entry that waits aged.
CleanUp ==
    /\ loop = "sleep"
    /\ queue' = [u \in Human |-> IF Stale(u) THEN None
                                 ELSE IF Waiting(u) THEN [queue[u] EXCEPT !.age = @ + 1]
                                 ELSE queue[u]]
    /\ heard' = {u \in User : fresh[u]}
    /\ loop' = "find"
    /\ UNCHANGED <<status, fresh, invites, players, drawn, scheduled, pairs, pair, history,
                   request, play, told>>

\* allowed_range
Allowed(u) == Min({BaseRange + queue[u].age * RangeStep, MaxRange})

Gap(c) == Max({Rating[u] : u \in c}) - Min({Rating[u] : u \in c})

\* The candidate pairs among the users W, as sets of two.
Candidates(W) ==
    {c \in kSubset(2, W) : \A u \in c : Gap(c) <= Allowed(u)}

\* Mutant: the scan for candidates stops short of one of the entries.
ShortScan(C) ==
    {P \in SUBSET C :
        /\ \A c, d \in P : c # d => c \cap d = {}
        /\ \E u \in Human : \A c \in C \ P :
              u \in c \/ \E d \in P : c \cap d # {} /\ Gap(d) <= Gap(c)}

\* What the greedy pass over the candidates, sorted by gap, can return: disjoint
\* pairs such that a candidate is left out only for a pair as close as it that
\* shares a user with it.
Pairings(C) ==
    {P \in SUBSET C :
        /\ \A c, d \in P : c # d => c \cap d = {}
        /\ \A c \in C \ P : \E d \in P : c \cap d # {} /\ Gap(d) <= Gap(c)}

\* _find_matches, on the entries that are waiting now.
FindMatches ==
    LET W == {u \in Human : Waiting(u)}
    IN  /\ loop = "find"
        /\ pairs' \in Pairings(Candidates(W))
        /\ seen' = W /\ found' = pairs'
        /\ loop' = "pair"
        /\ UNCHANGED <<tracker, stores, pair, request, play, told>>

\* An entry that is matched with o; its age no longer matters.
MatchedEntry(o, m) ==
    [state |-> "matched", match |-> m, opponent |-> o, age |-> 0]

\* Both users of the pair still wait.  Mutant: they did when it was found.
Found(p) == TRUE
StillWaiting(p) == \A u \in p : Waiting(u)

\* _create_match_for_pair under the queue's lock.
FlipPair(p) ==
    /\ loop = "pair"
    /\ p \in pairs
    /\ pairs' = pairs \ {p}
    /\ IF StillWaiting(p)
       THEN /\ drawn < MaxMatches
            /\ queue' = [u \in Human |->
                            IF u \in p
                            THEN MatchedEntry(CHOOSE o \in p : o # u, NewMatch)
                            ELSE queue[u]]
            /\ drawn' = NewMatch
            /\ pair' = [match |-> NewMatch, users |-> p, left |-> p]
            /\ loop' = "create"
       ELSE UNCHANGED <<queue, drawn, pair, loop>>
    /\ UNCHANGED <<tracker, invites, players, scheduled, history, request, play, told>>

\* match_manager.create_match
CreatePair ==
    /\ loop = "create"
    /\ players' = [players EXCEPT ![pair.match] = pair.users]
    /\ loop' = "mark"
    /\ UNCHANGED <<tracker, queue, invites, drawn, scheduled, pairs, pair, history,
                   request, play, told>>

\* tracker.set_in_game, for one user and then for the other.
MarkPair(u) ==
    /\ loop = "mark"
    /\ u \in pair.left
    /\ status' = WithStatus({u}, "in_game")
    /\ IF pair.left = {u}
       THEN pair' = [pair EXCEPT !.left = pair.users] /\ loop' = "cancel"
       ELSE pair' = [pair EXCEPT !.left = @ \ {u}] /\ UNCHANGED loop
    /\ UNCHANGED <<contact, stores, pairs, history, request, play, told>>

\* invite_store.cancel_pending_for_user, for one and then for the other.  The
\* injector goes on to start the driver of the bot.
CancelPair(u) ==
    /\ loop = "cancel"
    /\ u \in pair.left
    /\ invites' = Cancelled({u})
    /\ IF pair.left # {u}
       THEN pair' = [pair EXCEPT !.left = @ \ {u}] /\ UNCHANGED loop
       ELSE IF pair.users \subseteq Human
            THEN pair' = NoPair /\ loop' = "pair"
            ELSE UNCHANGED pair /\ loop' = "attach"
    /\ UNCHANGED <<tracker, queue, players, drawn, scheduled, pairs, history, request,
                   play, told>>

\* The cycle is over; the post-cycle hooks are next.
EndCycle ==
    /\ loop = "pair" /\ pairs = {}
    /\ loop' = "hooks"
    /\ seen' = {} /\ found' = {}
    /\ UNCHANGED <<tracker, stores, pairs, pair, request, play, told>>

\* Without bots no hook is registered.
NoHooks ==
    /\ loop = "hooks"
    /\ loop' = "sleep"
    /\ UNCHANGED <<tracker, stores, pairs, pair, history, request, play, told>>

------------------------------------------------------------------------------
(* The invite endpoints.                                                     *)

\* send_invite: the target is online; the sender leaves the queue.
SendInvite(u, t) ==
    /\ request[u] = Idle
    /\ u # t /\ Active(t)
    /\ Touch(u)
    /\ Leave({u})
    /\ Goto(u, [Step(u, "seek") EXCEPT !.other = t])
    /\ UNCHANGED <<status, invites, players, drawn, scheduled, progress, play, told>>

\* find_pending_between: the first invite of the target to the sender.
SeekReverse(u) ==
    LET reverse == {i \in InviteId : /\ Pending(i)
                                     /\ invites[i].from = request[u].other
                                     /\ invites[i].to = u}
    IN  /\ At(u, "seek")
        /\ Goto(u, IF reverse = {} THEN Step(u, "offer")
                   ELSE [Step(u, "reverse") EXCEPT !.invite = Min(reverse)])
        /\ UNCHANGED <<tracker, stores, thread, play, told>>

\* The reverse invite is accepted, unless somebody answered it meanwhile.
AcceptReverse(u) ==
    LET i == request[u].invite
    IN  /\ At(u, "reverse")
        /\ IF Pending(i)
           THEN /\ drawn < MaxMatches
                /\ invites' = Accepted(i)
                /\ drawn' = NewMatch
                /\ Goto(u, Step(u, "takeout"))
           ELSE /\ Goto(u, Step(u, "offer"))
                /\ UNCHANGED <<invites, drawn>>
        /\ UNCHANGED <<tracker, queue, players, scheduled, thread, play, told>>

\* The target leaves the queue.
TakeOut(u) ==
    /\ At(u, "takeout")
    /\ Leave({request[u].other})
    /\ Goto(u, Step(u, "create"))
    /\ UNCHANGED <<tracker, invites, players, drawn, scheduled, progress, play, told>>

\* invite_store.create, and schedule_bot_response when the target is a bot: it
\* ghosts the invite, or decides now and answers later.
Offer(u) ==
    LET t == request[u].other
    IN  /\ At(u, "offer")
        /\ \E i \in InviteId :
              /\ invites[i] = None
              /\ \A j \in InviteId : invites[j] = None => i <= j
              /\ invites' = [invites EXCEPT ![i] =
                                [state |-> "pending", from |-> u, to |-> t,
                                 match |-> None]]
              /\ \/ UNCHANGED scheduled
                 \/ /\ t \in Bot
                    /\ \E accept \in BOOLEAN :
                          scheduled' = scheduled \cup {<<i, accept>>}
        /\ Goto(u, Idle)
        /\ UNCHANGED <<tracker, queue, players, drawn, thread, play, told>>

\* Only the addressee may answer.  Mutant: whoever knows the invite.
Anyone(u, i) == TRUE
Addressee(u, i) == invites[i].to = u

\* respond_invite, get and respond.
Respond(u, i, accept) ==
    /\ request[u] = Idle
    /\ Pending(i) /\ Addressee(u, i)
    /\ Touch(u)
    /\ IF accept
       THEN /\ drawn < MaxMatches
            /\ invites' = Accepted(i)
            /\ drawn' = NewMatch
            /\ Goto(u, [Step(u, "quit") EXCEPT !.invite = i])
       ELSE /\ invites' = [invites EXCEPT ![i].state = "rejected"]
            /\ UNCHANGED <<drawn, request>>
    /\ UNCHANGED <<status, queue, players, scheduled, thread, play, told>>

\* The responder leaves the queue.  Mutant: and that is all it does.
QuitOnly(u) ==
    /\ At(u, "quit")
    /\ Leave({u})
    /\ Goto(u, Idle)
    /\ UNCHANGED <<tracker, invites, players, drawn, scheduled, progress, play, told>>
Quit(u) ==
    /\ At(u, "quit")
    /\ Leave({u})
    /\ Goto(u, Step(u, "create"))
    /\ UNCHANGED <<tracker, invites, players, drawn, scheduled, progress, play, told>>

\* match_manager.create_match, and the answer with the match id.
CreateMatch(u) ==
    LET i == invites[request[u].invite]
    IN  /\ At(u, "create")
        /\ players' = [players EXCEPT ![i.match] = {i.from, i.to}]
        /\ told' = [told EXCEPT ![u] = @ \cup {i.match}]
        /\ Goto(u, Idle)
        /\ UNCHANGED <<tracker, queue, invites, drawn, scheduled, thread, play>>

\* get_invites: the sender sees the match id of an accepted invite.
PollInvites(u, i) ==
    /\ request[u] = Idle
    /\ invites[i] # None /\ invites[i].from = u /\ invites[i].state = "accepted"
    /\ invites[i].match \notin told[u]
    /\ Touch(u)
    /\ told' = [told EXCEPT ![u] = @ \cup {invites[i].match}]
    /\ UNCHANGED <<status, stores, thread, request, play>>

------------------------------------------------------------------------------
(* The seats of a match and what Match does to the tracker and the invites:  *)
(* one step for each call, its inside is in module Match.                     *)

\* ws_handler: a human who was told of a match connects, once.
TakeSeat(m, u) ==
    /\ m \in told[u] /\ u \in players[m] \ sat[m]
    /\ sat' = [sat EXCEPT ![m] = @ \cup {u}]
    /\ UNCHANGED <<tracker, stores, thread, request, gone, begun, told>>

\* _run_match, started by the second connection, marks both; nothing stops it
\* when somebody has left by then.
BeginMatch(m) ==
    /\ players[m] # {} /\ sat[m] = players[m] /\ m \notin begun
    /\ begun' = begun \cup {m}
    /\ status' = WithStatus(players[m], "in_game")
    /\ invites' = Cancelled(players[m])
    /\ UNCHANGED <<contact, queue, players, drawn, scheduled, thread, request, sat,
                   gone, told>>

\* handle_disconnect: whoever leaves puts both players back online.
LeaveSeat(m, u) ==
    /\ u \in sat[m] \ gone[m]
    /\ gone' = [gone EXCEPT ![m] = @ \cup {u}]
    /\ status' = WithStatus(players[m], "online")
    /\ UNCHANGED <<contact, stores, thread, request, sat, begun, told>>

------------------------------------------------------------------------------
\* A handler that has begun a request goes on with it.
Continue(u) == /\ UNCHANGED asks
               /\ \/ JoinEnter(u) \/ JoinMark(u) \/ LeaveMark(u) \/ ConsumeMatch(u)
                  \/ SeekReverse(u) \/ AcceptReverse(u) \/ TakeOut(u) \/ Offer(u)
                  \/ Quit(u) \/ CreateMatch(u)

Ask(u) == /\ asks < MaxAsks
          /\ asks' = asks + 1
          /\ \/ FallSilent(u) \/ Heartbeat(u)
             \/ Join(u) \/ LeaveQueue(u) \/ ReadStatus(u)
             \/ \E t \in User : SendInvite(u, t)
             \/ \E i \in InviteId : \/ \E accept \in BOOLEAN : Respond(u, i, accept)
                                    \/ PollInvites(u, i)

Cycle == /\ UNCHANGED asks
         /\ \/ CleanUp \/ FindMatches \/ CreatePair \/ EndCycle
            \/ \E p \in SUBSET Human : FlipPair(p)
            \/ \E u \in User : MarkPair(u) \/ CancelPair(u)

Play == /\ UNCHANGED asks
        /\ \E m \in MatchId : \/ BeginMatch(m)
                              \/ \E u \in Human : TakeSeat(m, u) \/ LeaveSeat(m, u)

Next == \/ \E u \in Human : Ask(u) \/ Continue(u)
        \/ Cycle
        \/ NoHooks /\ UNCHANGED asks
        \/ Play

Spec == Init /\ [][Next]_vars

------------------------------------------------------------------------------
(* Properties.                                                               *)

\* Whoever is matched is there for it.  An entry becomes a matched one only from a
\* waiting one, however the user leaves, polls, is invited or joins again between the
\* moment the matching thread saw the entry and the one it flips it, and a matched entry
\* is never given to another match.  And its user had not been silent for the timeout when
\* the cycle began, or was heard of since: whoever falls silent while waiting is dropped
\* before the cycle, and whoever joins between two of its lock sections has just asked.
MatchedArePresent ==
    [][\A u \in Human :
          queue'[u] # None /\ queue'[u].state = "matched" /\ queue'[u] # queue[u]
              => Waiting(u) /\ u \in heard]_vars

\* Nobody is told of a match somebody else plays: once the match object exists,
\* the user told is one of its two players, whichever of the queue, an answered
\* invite, a reverse invite or the polling of sent invites told it.
ToldIsPlayer ==
    \A u \in Human : \A m \in told[u] :
        players[m] # {} => u \in players[m] /\ Cardinality(players[m]) = 2

\* After a cycle two users who were waiting when it looked, and whose gap is
\* within the range of both, still wait in the same entries only if a user who
\* was to be paired with one of them left meanwhile.
NoMissedPair ==
    loop = "pair" /\ pairs = {} =>
        \A c \in Candidates({u \in seen : Waiting(u)}) :
            \E d \in found : d \cap c # {} /\ ~(d \subseteq seen)

\* An invite is answered once: a reverse invite, a response and a cancellation
\* that race for it do not overwrite one another.
AnswerIsFinal ==
    [][\A i \in InviteId :
          invites[i] # None /\ invites[i].state # "pending"
              => invites'[i] = invites[i]]_vars

\* No match id is forgotten: an accepted invite and a matched queue entry are both
\* public before create_match, and until then a handler or the matching thread is
\* on its way there with that very id.
PromiseKept ==
    \A m \in 1..drawn :
        \/ players[m] # {}
        \/ loop = "create" /\ pair.match = m
        \/ \E u \in Human : /\ request[u].at \in {"takeout", "quit", "create"}
                            /\ invites[request[u].invite].match = m
==============================================================================

---------------------------- MODULE BotMatching ----------------------------
(***************************************************************************)
(* Matchmaking with bots: the thread of each bot that logs it on and off,  *)
(* the timers that answer invites for bots, the queue injector that gives  *)
(* a bot to a human who waits too long, and the driver that takes the seat *)
(* of the bot in a match and leaves it.                                    *)
(***************************************************************************)
EXTENDS Matchmaking

CONSTANT InjectAfter    \* BOT_QUEUE_INJECT_AFTER_S, in cycles

ASSUME InjectAssumption == InjectAfter \in Nat

VARIABLES
    life,       \* control point of the lifecycle thread of each bot
    answer,     \* control point of the timer of each invite to a bot
    snapshot,   \* _inject_once: the <<human, range>> still to be served ...
    used,       \* ... and the bots given away in this pass
    alone       \* matches whose driver was sent opponent_disconnected

injector == <<snapshot, used>>
botVars == <<life, answer, injector, alone>>
allVars == <<vars, botVars>>

BotTypeOK ==
    /\ TypeOK
    /\ life \in [Bot -> {"off", "on", "deferred", "leaving", "removed"}]
    /\ answer \in [InviteId -> {"none", "accept", "reject", "recheck", "create",
                                "attach"}]
    /\ snapshot \subseteq Human \X (0..MaxRange)
    /\ used \subseteq Bot /\ alone \subseteq MatchId

\* Every bot starts offline, one of the draws of _initial_state.
BotInit ==
    /\ Init
    /\ life = [b \in Bot |-> "off"]
    /\ answer = [i \in InviteId |-> "none"]
    /\ snapshot = {} /\ used = {} /\ alone = {}

------------------------------------------------------------------------------
(* The lifecycle threads.                                                    *)

LogOn(b) ==
    /\ life[b] = "off"
    /\ life' = [life EXCEPT ![b] = "on"]
    /\ status' = [status EXCEPT ![b] = IF @ = "absent" THEN "online" ELSE @]
    /\ Touch(b)
    /\ UNCHANGED <<stores, thread, request, asks, play, told, answer, injector, alone>>

\* The online timer of the bot expires: its status is read, and in a game the
\* logoff is deferred.
Expire(b) ==
    /\ life[b] \in {"on", "deferred"}
    /\ life' = [life EXCEPT ![b] =
                  IF status[b] = "in_game" THEN "deferred" ELSE "leaving"]
    /\ UNCHANGED <<vars, answer, injector, alone>>

\* tracker.remove
LogOff(b) ==
    /\ life[b] = "leaving"
    /\ life' = [life EXCEPT ![b] = "removed"]
    /\ status' = [status EXCEPT ![b] = "absent"]
    /\ fresh' = [fresh EXCEPT ![b] = FALSE]
    /\ UNCHANGED <<heard, stores, thread, request, asks, play, told, answer, injector, alone>>

\* _cancel_pending_invites
CancelInvites(b) ==
    /\ life[b] = "removed"
    /\ life' = [life EXCEPT ![b] = "off"]
    /\ invites' = Cancelled({b})
    /\ UNCHANGED <<tracker, queue, players, drawn, scheduled, thread, request, asks,
                   play, told, answer, injector, alone>>

------------------------------------------------------------------------------
(* invite_responder._respond, a timer for each scheduled answer.             *)

Reach(i, where) == answer' = [answer EXCEPT ![i] = where]

\* The think delay is over; nothing is said for a bot that is not online.
Think(i, accept) ==
    /\ <<i, accept>> \in scheduled
    /\ scheduled' = scheduled \ {<<i, accept>>}
    /\ Reach(i, IF status[invites[i].to] # "online" THEN "none"
                ELSE IF accept THEN "accept" ELSE "reject")
    /\ UNCHANGED <<tracker, queue, invites, players, drawn, thread, request, asks,
                   play, told, life, injector, alone>>

RejectInvite(i) ==
    /\ answer[i] = "reject"
    /\ invites' = IF Pending(i) THEN [invites EXCEPT ![i].state = "rejected"]
                  ELSE invites
    /\ Reach(i, "none")
    /\ UNCHANGED <<tracker, queue, players, drawn, scheduled, thread, request, asks,
                   play, told, life, injector, alone>>

AcceptInvite(i) ==
    /\ answer[i] = "accept"
    /\ IF Pending(i)
       THEN /\ drawn < MaxMatches
            /\ invites' = Accepted(i)
            /\ drawn' = NewMatch
            /\ Reach(i, "recheck")
       ELSE /\ Reach(i, "none")
            /\ UNCHANGED <<invites, drawn>>
    /\ UNCHANGED <<tracker, queue, players, scheduled, thread, request, asks, play,
                   told, life, injector, alone>>

\* Is the inviter still there?
Recheck(i) ==
    /\ answer[i] = "recheck"
    /\ Reach(i, IF Active(invites[i].from) THEN "create" ELSE "none")
    /\ UNCHANGED <<vars, life, injector, alone>>

CreateBotMatch(i) ==
    /\ answer[i] = "create"
    /\ players' = [players EXCEPT ![invites[i].match] = {invites[i].from, invites[i].to}]
    /\ Reach(i, "attach")
    /\ UNCHANGED <<tracker, queue, invites, drawn, scheduled, thread, request, asks,
                   play, told, life, injector, alone>>

\* The bot takes its seat: BotMatchDriver.start.  Mutant: the driver is not
\* started when a human has taken a seat first.
SeatIfFirst(m, b) == sat' = IF sat[m] = {} THEN [sat EXCEPT ![m] = {b}] ELSE sat
Seat(m, b) == sat' = [sat EXCEPT ![m] = @ \cup {b}]

AttachBot(i) ==
    /\ answer[i] = "attach"
    /\ Seat(invites[i].match, invites[i].to)
    /\ Reach(i, "none")
    /\ UNCHANGED <<tracker, stores, thread, request, asks, gone, begun, told, life,
                   injector, alone>>

------------------------------------------------------------------------------
(* queue_injector._inject_once, the hook that follows each matching cycle.   *)

\* get_waiting_snapshot; who has not waited long enough is skipped.
TakeSnapshot ==
    /\ loop = "hooks"
    /\ snapshot' = {<<u, Allowed(u)>> :
                      u \in {v \in Human : Waiting(v) /\ queue[v].age >= InjectAfter}}
    /\ loop' = "inject"
    /\ UNCHANGED <<tracker, stores, pairs, pair, history, request, asks, play, told,
                   life, answer, used, alone>>

\* The bots _pick_bot may choose for human u with range r.
Eligible(u, r) ==
    {b \in Bot \ used : Gap({u, b}) <= r /\ status[b] = "online"}

Pick(e) ==
    /\ loop = "inject"
    /\ e \in snapshot
    /\ snapshot' = snapshot \ {e}
    /\ \/ \E b \in Eligible(e[1], e[2]) :
             /\ pair' = [NoPair EXCEPT !.users = {e[1], b}]
             /\ loop' = "force"
       \/ /\ Eligible(e[1], e[2]) = {}
          /\ UNCHANGED <<pair, loop>>
    /\ UNCHANGED <<tracker, stores, pairs, history, request, asks, play, told, life,
                   answer, used, alone>>

\* force_match_with_bot.  CreatePair, MarkPair and CancelPair follow: the injector
\* makes the same calls as _create_match_for_pair.
ForceMatch(u, b) ==
    /\ loop = "force"
    /\ pair.users = {u, b}
    /\ IF StillWaiting({u})
       THEN /\ drawn < MaxMatches
            /\ queue' = [queue EXCEPT ![u] = MatchedEntry(b, NewMatch)]
            /\ drawn' = NewMatch
            /\ pair' = [match |-> NewMatch, users |-> {u, b}, left |-> {u, b}]
            /\ used' = used \cup {b}
            /\ loop' = "create"
       ELSE /\ pair' = NoPair
            /\ loop' = "inject"
            /\ UNCHANGED <<queue, drawn, used>>
    /\ UNCHANGED <<tracker, invites, players, scheduled, pairs, history, request, asks,
                   play, told, life, answer, snapshot, alone>>

StartDriver ==
    /\ loop = "attach"
    /\ \E b \in pair.users \cap Bot : Seat(pair.match, b)
    /\ pair' = NoPair
    /\ loop' = "inject"
    /\ UNCHANGED <<tracker, stores, pairs, history, request, asks, gone, begun, told,
                   botVars>>

EndInject ==
    /\ loop = "inject" /\ snapshot = {}
    /\ used' = {}
    /\ loop' = "sleep"
    /\ UNCHANGED <<tracker, stores, pairs, pair, history, request, asks, play, told,
                   life, answer, snapshot, alone>>

------------------------------------------------------------------------------
\* BotMatchDriver.detach: the human never came, left, or the driver is done with
\* a match that began; the start timeout is far longer than _run_match needs to
\* begin.  Its own set_online repeats what handle_disconnect did.
Detach(m, b) ==
    /\ sat[m] # players[m] \/ m \in begun \cup alone
    /\ LeaveSeat(m, b)
    /\ UNCHANGED <<asks, botVars>>

\* A human who leaves is reported to the driver that is seated.
HumanPlay ==
    /\ Play
    /\ alone' = alone \cup {m \in MatchId : gone'[m] # gone[m] /\ sat[m] \cap Bot # {}}
    /\ UNCHANGED <<life, answer, injector>>

Lifecycle(b) == LogOn(b) \/ Expire(b) \/ LogOff(b) \/ CancelInvites(b)

Responder(i) == \/ \E accept \in BOOLEAN : Think(i, accept)
                \/ RejectInvite(i) \/ AcceptInvite(i) \/ Recheck(i)
                \/ CreateBotMatch(i) \/ AttachBot(i)

Injector == \/ TakeSnapshot \/ StartDriver \/ EndInject
            \/ \E e \in snapshot : Pick(e)
            \/ \E u \in Human, b \in Bot : ForceMatch(u, b)

BotNext ==
    \/ HumanPlay
    \/ (Cycle \/ \E u \in Human : Ask(u) \/ Continue(u)) /\ UNCHANGED botVars
    \/ Injector
    \/ \E b \in Bot : Lifecycle(b) \/ \E m \in MatchId : Detach(m, b)
    \/ \E i \in InviteId : Responder(i)

BotSpec == BotInit /\ [][BotNext]_allVars

\* Threads and timers run and handlers finish; no human owes anything.
BotFairSpec ==
    /\ BotSpec
    /\ WF_allVars(Injector \/ (Cycle /\ UNCHANGED botVars))
    /\ \A u \in Human : WF_allVars(Continue(u) /\ UNCHANGED botVars)
    /\ \A b \in Bot : WF_allVars(Lifecycle(b))
    /\ \A i \in InviteId : WF_allVars(Responder(i))

------------------------------------------------------------------------------
(* Properties that hold.                                                     *)

\* The bot of every match that is made takes its seat in it, whoever made the
\* match and whether or not the human was faster: no human is left alone in a
\* match with a bot nobody drives.
BotTakesSeat ==
    \A m \in MatchId, b \in Bot : (b \in players[m]) ~> (b \in sat[m])

------------------------------------------------------------------------------
(* What the documentation says and the code does not do.                     *)

InMatch(b) == \E m \in MatchId : b \in sat[m] \ gone[m]

\* queue_injector.py, module comment: the guard on the status excludes a bot that
\* has just accepted an invite, so that no bot is given to two humans.
BotNotShared ==
    [][\A b \in Bot : loop = "force" /\ loop' = "create" /\ b \in pair.users
          => ~InMatch(b)]_allVars
==============================================================================

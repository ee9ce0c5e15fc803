------------------------- MODULE MatchmakingProofs -------------------------
(***************************************************************************)
(* Matchmaking, for any users, ratings, ranges and bounds: a match id is   *)
(* told to the two players of the match only and is never forgotten, and   *)
(* the matching thread leaves no pair waiting that it could have formed.   *)
(***************************************************************************)
EXTENDS Matchmaking, FiniteSetTheorems, WellFoundedInduction, TLAPS

-----------------------------------------------------------------------------
(* The inductive invariant.                                                *)

\* Invite i was accepted and got match m.
AcceptedAs(i, m) ==
    invites[i] # None /\ invites[i].state = "accepted" /\ invites[i].match = m

\* What the handler of u under way knows about the request it serves.
RequestSound(u) ==
    /\ At(u, "consume") => request[u].match \in MatchId
    /\ request[u].at \in {"seek", "reverse", "takeout", "offer"}
           => request[u].other \in User \ {u}
    /\ request[u].at \in {"reverse", "takeout", "quit", "create"}
           => /\ request[u].invite \in InviteId /\ invites[request[u].invite] # None
              /\ invites[request[u].invite].to = u
    /\ request[u].at \in {"takeout", "quit", "create"}
           => \E m \in 1..drawn : AcceptedAs(request[u].invite, m)
RequestsSound == \A u \in Human : RequestSound(u)

\* Accepted invites have match ids of their own, and nobody invites himself.
InvitesSound ==
    /\ \A i \in InviteId : invites[i] # None => invites[i].from # invites[i].to
    /\ \A i \in InviteId : invites[i] # None /\ invites[i].state = "accepted"
          => invites[i].match \in 1..drawn
    /\ \A i, j \in InviteId, m \in MatchId : AcceptedAs(i, m) /\ AcceptedAs(j, m) => i = j

\* The pair at hand has two users and, until its match is created, an id that
\* no invite and no match has.
PairSound ==
    /\ \A p \in pairs : p \subseteq Human /\ Cardinality(p) = 2
    /\ loop \in {"create", "mark", "cancel"} =>
           pair.users \subseteq Human /\ Cardinality(pair.users) = 2
    /\ loop = "create" =>
           /\ pair.match \in 1..drawn /\ players[pair.match] = {}
           /\ \A i \in InviteId : ~AcceptedAs(i, pair.match)

\* A match has two players, and those of the invite it came from.
PlayersSound ==
    \A m \in MatchId : players[m] # {} =>
        /\ m \in 1..drawn /\ Cardinality(players[m]) = 2
        /\ \A i \in InviteId : AcceptedAs(i, m) => players[m] = {invites[i].from, invites[i].to}

\* If match m exists or is about to, u is one of its players.
Entitled(u, m) ==
    /\ m \in 1..drawn
    /\ players[m] # {} => u \in players[m]
    /\ loop = "create" /\ pair.match = m => u \in pair.users
    /\ \A i \in InviteId : AcceptedAs(i, m) => u \in {invites[i].from, invites[i].to}

\* Whoever knows a match id, is about to be told it or may ask for it.
OnlyPlayersKnow ==
    \A u \in Human :
        /\ \A m \in told[u] : Entitled(u, m)
        /\ queue[u] # None /\ queue[u].state = "matched" => Entitled(u, queue[u].match)
        /\ At(u, "consume") => Entitled(u, request[u].match)

\* In a cycle of the matching thread: the entries it saw are there; a pair still to
\* come waits and a pair dealt with does not, unless somebody of it left; and two
\* who wait and could be paired conflict with a pair that was found.
InCycle == {"pair", "create", "mark", "cancel"}
CycleSound ==
    /\ loop \notin InCycle => pairs = {} /\ seen = {}
    /\ \A u \in seen : queue[u] # None
    /\ pairs \subseteq found
    /\ loop \in InCycle =>
           /\ \A c, d \in found : c # d => c \cap d = {}
           /\ \A d \in found : d \subseteq seen =>
                 IF d \in pairs THEN \A u \in d : Waiting(u) ELSE \A u \in d : ~Waiting(u)
           /\ \A c \in Candidates({u \in seen : Waiting(u)}) :
                 \E d \in found : d \cap c # {}

MatchmakingInv ==
    /\ TypeOK /\ RequestsSound /\ InvitesSound /\ PairSound /\ PlayersSound
    /\ OnlyPlayersKnow /\ CycleSound /\ PromiseKept

-----------------------------------------------------------------------------
(* Types.                                                                  *)

LEMMA LeastInvite ==
    ASSUME NEW S, S \subseteq InviteId, S # {}
    PROVE  Min(S) \in S
  <1>1. S \subseteq Nat
    BY BoundAssumption DEF InviteId
  <1>2. \E x \in S : \A y \in S : ~(<<y, x>> \in OpToRel(<, Nat))
    BY <1>1, NatLessThanWellFounded, WFMin
  <1>3. \E x \in S : \A y \in S : x <= y
    <2>1. \A x, y \in Nat : y < x => <<y, x>> \in OpToRel(<, Nat)
      BY DEF OpToRel
    <2>2. PICK x \in S : \A y \in S : ~(<<y, x>> \in OpToRel(<, Nat))
      BY <1>2
    <2>3. \A y \in S : ~(y < x)
      BY <1>1, <2>1, <2>2
    <2>4. \A y \in S : x <= y
      BY <1>1, <2>3
    <2>5. QED
      BY <2>4
  <1>4. QED
    BY <1>3 DEF Min

\* The two users of a pair.
LEMMA PairUsers ==
    ASSUME NEW p, p \subseteq Human, Cardinality(p) = 2, NEW u \in p
    PROVE  /\ (CHOOSE o \in p : o # u) \in Human \ {u}
           /\ p = {u, CHOOSE o \in p : o # u}
  <1>1. IsFiniteSet(p)
    BY UserAssumption, FS_Subset DEF User
  <1>2. IsFiniteSet(p \ {u}) /\ Cardinality(p \ {u}) = 1
    BY <1>1, FS_RemoveElement
  <1>3. PICK o : p \ {u} = {o}
    BY <1>2, FS_Singleton
  <1>4. QED
    BY <1>3

LEMMA TwoUsers ==
    ASSUME NEW u, NEW v, u # v
    PROVE  Cardinality({u, v}) = 2
  <1>1. IsFiniteSet({u}) /\ Cardinality({u}) = 1
    BY FS_Singleton
  <1>2. Cardinality({u} \cup {v}) = 2
    BY <1>1, FS_AddElement
  <1>3. {u} \cup {v} = {u, v}
    OBVIOUS
  <1>4. QED
    BY <1>2, <1>3

LEMMA IdFacts == InviteId \subseteq Nat /\ MatchId \subseteq Nat /\ 0 \notin MatchId
                 /\ None \notin InviteId /\ None \notin MatchId
  BY BoundAssumption, NoneAssumption DEF InviteId, MatchId

LEMMA StatusType ==
    ASSUME TypeOK, NEW U, NEW x \in Status
    PROVE  WithStatus(U, x) \in [User -> Status]
  BY DEF TypeOK, WithStatus

LEMMA LeaveType ==
    ASSUME TypeOK, NEW U, Leave(U)
    PROVE  queue' \in [Human -> Entry \cup {None}] /\ seen' \subseteq Human
  BY DEF TypeOK, Leave, Entry

LEMMA CancelType ==
    ASSUME TypeOK, NEW U
    PROVE  Cancelled(U) \in [InviteId -> Invite \cup {None}]
  <1>1. \A i \in InviteId : Pending(i) => [invites[i] EXCEPT !.state = "cancelled"] \in Invite
    BY DEF TypeOK, Pending, Invite
  <1>2. QED
    BY <1>1 DEF TypeOK, Cancelled

LEMMA AcceptType ==
    ASSUME TypeOK, NEW i \in InviteId, Pending(i), drawn < MaxMatches
    PROVE  /\ Accepted(i) \in [InviteId -> Invite \cup {None}] /\ NewMatch \in MatchId
           /\ NewMatch \in 0..MaxMatches
           /\ Accepted(i)[i] = [state |-> "accepted", from |-> invites[i].from,
                                to |-> invites[i].to, match |-> NewMatch]
           /\ \A j \in InviteId \ {i} : Accepted(i)[j] = invites[j]
  <1>1. NewMatch \in MatchId /\ NewMatch \in 0..MaxMatches
    BY BoundAssumption DEF TypeOK, NewMatch, MatchId
  <1>2. Accepted(i)[i] = [state |-> "accepted", from |-> invites[i].from,
                          to |-> invites[i].to, match |-> NewMatch]
    BY DEF TypeOK, Pending, Invite, Accepted
  <1>3. Accepted(i)[i] \in Invite
    BY <1>1, <1>2 DEF TypeOK, Pending, Invite
  <1>4. \A j \in InviteId \ {i} : Accepted(i)[j] = invites[j]
    BY DEF TypeOK, Accepted
  <1>5. Accepted(i) = [j \in InviteId |-> Accepted(i)[j]]
    BY DEF TypeOK, Accepted
  <1>6. QED
    BY <1>1, <1>2, <1>3, <1>4, <1>5 DEF TypeOK

LEMMA TypeNext ==
    ASSUME TypeOK, RequestsSound, InvitesSound, PairSound, CycleSound, Next
    PROVE  TypeOK'
  <1>1. \A u \in Human, x \in {"idle", "rating", "marking", "unmarking", "consume", "seek",
                              "reverse", "takeout", "offer", "quit", "create"} :
           Step(u, x) \in Request
    <2>1. \A u \in Human : request[u] \in Request
      BY DEF TypeOK
    <2>2. QED
      BY <2>1 DEF Request, Step
  <1>2. Idle \in Request
    BY DEF Idle, Request
  <1>3. Human \subseteq User
    BY DEF User
  <1>4. ASSUME NEW u \in Human, Ask(u)
        PROVE  TypeOK'
    <2>1. asks' \in 0..MaxAsks
      BY <1>4, BoundAssumption DEF Ask, TypeOK
    <2>2. CASE FallSilent(u) \/ Heartbeat(u)
      BY <2>1, <2>2, <1>3 DEF FallSilent, Heartbeat, Touch, TypeOK, tracker, contact, stores, progress,
                              thread, play
    <2>3. CASE Join(u)
      BY <2>1, <2>3, <1>1, <1>3 DEF Join, Touch, Goto, TypeOK, stores, progress, thread, play
    <2>4. CASE LeaveQueue(u)
      BY <2>1, <2>4, <1>1, <1>3, LeaveType DEF LeaveQueue, Touch, Goto, TypeOK, progress, play
    <2>5. CASE ReadStatus(u)
      <3>1. [Step(u, "consume") EXCEPT !.match = queue[u].match] \in Request
        <4>1. queue[u].match \in MatchId \cup {None}
          BY <2>5 DEF ReadStatus, TypeOK, Entry
        <4>2. QED
          BY <4>1, <1>1 DEF Request
      <3>2. QED
        BY <2>1, <2>5, <1>3, <3>1 DEF ReadStatus, Touch, Goto, TypeOK, stores, progress, thread, play
    <2>6. ASSUME NEW t \in User, SendInvite(u, t)
          PROVE  TypeOK'
      <3>1. [Step(u, "seek") EXCEPT !.other = t] \in Request
        BY <1>1 DEF Request
      <3>2. QED
        BY <2>1, <2>6, <1>3, <3>1, LeaveType DEF SendInvite, Touch, Goto, TypeOK, progress, play
    <2>7. ASSUME NEW i \in InviteId, NEW accept \in BOOLEAN, Respond(u, i, accept)
          PROVE  TypeOK'
      <3>1. request' \in [Human -> Request]
        <4>1. [Step(u, "quit") EXCEPT !.invite = i] \in Request
          BY <1>1 DEF Request
        <4>2. QED
          BY <2>7, <4>1 DEF Respond, Goto, TypeOK
      <3>2. invites' \in [InviteId -> Invite \cup {None}] /\ drawn' \in 0..MaxMatches
        <4>1. [invites EXCEPT ![i].state = "rejected"] \in [InviteId -> Invite \cup {None}]
          BY <2>7 DEF Respond, Pending, TypeOK, Invite
        <4>2. QED
          BY <2>7, <4>1, AcceptType DEF Respond, TypeOK
      <3>3. QED
        BY <2>1, <2>7, <1>3, <3>1, <3>2 DEF Respond, Touch, TypeOK, progress, thread, play
    <2>8. ASSUME NEW i \in InviteId, PollInvites(u, i)
          PROVE  TypeOK'
      <3>1. invites[i].match \in MatchId
        <4>1. invites[i].match \in 1..drawn
          BY <2>8 DEF PollInvites, InvitesSound
        <4>2. QED
          BY <4>1, BoundAssumption DEF TypeOK, MatchId
      <3>2. QED
        BY <2>1, <2>8, <1>3, <3>1 DEF PollInvites, Touch, TypeOK, stores, progress, thread, play
    <2>9. QED
      BY <1>4, <2>2, <2>3, <2>4, <2>5, <2>6, <2>7, <2>8 DEF Ask
  <1>5. ASSUME NEW u \in Human, Continue(u)
        PROVE  TypeOK'
    <2>1. asks' \in 0..MaxAsks
      BY <1>5 DEF Continue, TypeOK
    <2>2. CASE JoinEnter(u)
      <3>1. [state |-> "waiting", match |-> None, opponent |-> None, age |-> 0] \in Entry
        BY RangeAssumption DEF Entry
      <3>2. QED
        BY <2>1, <2>2, <1>1, <1>2, <3>1 DEF JoinEnter, Goto, TypeOK, tracker, contact, progress, thread, play
    <2>3. CASE JoinMark(u) \/ LeaveMark(u)
      <3>1. \A x \in {"queued", "online"} : WithStatus({u}, x) \in [User -> Status]
        BY StatusType DEF Status
      <3>2. status' \in [User -> Status] /\ request' \in [Human -> Request]
        <4>1. status' \in {WithStatus({u}, "queued"), WithStatus({u}, "online")}
          BY <2>3 DEF JoinMark, LeaveMark
        <4>2. request' = [request EXCEPT ![u] = Idle]
          BY <2>3 DEF JoinMark, LeaveMark, Goto
        <4>3. request' \in [Human -> Request]
          BY <4>2, <1>2 DEF TypeOK
        <4>4. QED
          BY <3>1, <4>1, <4>3
      <3>3. UNCHANGED <<contact, stores, thread, play, told>>
        BY <2>3 DEF JoinMark, LeaveMark
      <3>4. QED
        BY <2>1, <3>2, <3>3 DEF TypeOK, contact, stores, progress, thread, play
    <2>4. CASE ConsumeMatch(u)
      <3>1. request[u].match \in MatchId
        BY <2>4 DEF ConsumeMatch, RequestsSound, RequestSound
      <3>2. queue' \in [Human -> Entry \cup {None}] /\ seen' \subseteq Human
        BY <2>4, LeaveType DEF ConsumeMatch, TypeOK
      <3>3. QED
        BY <2>1, <2>4, <1>2, <3>1, <3>2 DEF ConsumeMatch, Goto, TypeOK, tracker, contact, progress, play
    <2>5. CASE SeekReverse(u)
      <3> DEFINE reverse == {i \in InviteId : /\ Pending(i)
                                              /\ invites[i].from = request[u].other
                                              /\ invites[i].to = u}
      <3>1. reverse # {} => [Step(u, "reverse") EXCEPT !.invite = Min(reverse)] \in Request
        BY <1>1, LeastInvite DEF Request
      <3>2. request' \in [Human -> Request]
        BY <2>5, <1>1, <3>1 DEF SeekReverse, Goto, TypeOK
      <3>3. QED
        BY <2>1, <2>5, <3>2 DEF SeekReverse, TypeOK, tracker, contact, stores, progress, thread, play
    <2>6. CASE AcceptReverse(u)
      <3>1. request[u].invite \in InviteId
        BY <2>6 DEF AcceptReverse, RequestsSound, RequestSound, At
      <3>2. invites' \in [InviteId -> Invite \cup {None}] /\ drawn' \in 0..MaxMatches
        BY <2>6, <3>1, AcceptType DEF AcceptReverse, TypeOK
      <3>3. QED
        BY <2>1, <2>6, <1>1, <3>2 DEF AcceptReverse, Goto, TypeOK, tracker, contact, progress, thread, play
    <2>7. CASE TakeOut(u) \/ Quit(u)
      BY <2>1, <2>7, <1>1, LeaveType DEF TakeOut, Quit, Goto, TypeOK, tracker, contact, progress, play
    <2>8. CASE Offer(u)
      <3>1. request[u].other \in User
        BY <2>8 DEF Offer, RequestsSound, RequestSound, At
      <3>2. [state |-> "pending", from |-> u, to |-> request[u].other, match |-> None] \in Invite
        BY <3>1 DEF Invite
      <3>3. invites' \in [InviteId -> Invite \cup {None}] /\ scheduled' \subseteq InviteId \X BOOLEAN
        BY <2>8, <3>2 DEF Offer, TypeOK
      <3>4. QED
        BY <2>1, <2>8, <1>2, <3>3 DEF Offer, Goto, TypeOK, tracker, contact, progress, thread, play
    <2>9. CASE CreateMatch(u)
      <3> DEFINE i == invites[request[u].invite]
      <3>1. i.match \in MatchId /\ {i.from, i.to} \subseteq User
        <4>1. PICK m \in 1..drawn : AcceptedAs(request[u].invite, m)
          BY <2>9 DEF CreateMatch, RequestsSound, RequestSound, At
        <4>2. request[u].invite \in InviteId
          BY <2>9 DEF CreateMatch, RequestsSound, RequestSound, At
        <4>3. QED
          BY <4>1, <4>2, <1>3, BoundAssumption DEF AcceptedAs, TypeOK, Invite, MatchId
      <3>2. QED
        BY <2>1, <2>9, <1>2, <3>1 DEF CreateMatch, Goto, TypeOK, tracker, contact, progress, thread, play
    <2>10. QED
      BY <1>5, <2>2, <2>3, <2>4, <2>5, <2>6, <2>7, <2>8, <2>9 DEF Continue
  <1>6. CASE Cycle
    <2>1. asks' \in 0..MaxAsks
      BY <1>6 DEF Cycle, TypeOK
    <2>2. CASE CleanUp
      <3>1. \A u \in Human : Waiting(u) /\ ~Stale(u)
                => [queue[u] EXCEPT !.age = @ + 1] \in Entry
        <4> TAKE u \in Human
        <4> HAVE Waiting(u) /\ ~Stale(u)
        <4>1. queue[u] \in Entry /\ queue[u] # None
          BY DEF TypeOK, Waiting
        <4>2. queue[u].age \in 0..MaxWait /\ queue[u].age # MaxWait
          BY <4>1 DEF Stale, Entry
        <4>3. queue[u].age + 1 \in 0..MaxWait
          BY <4>2, RangeAssumption
        <4>4. QED
          BY <4>1, <4>3 DEF Entry
      <3>2. queue' \in [Human -> Entry \cup {None}]
        BY <2>2, <3>1 DEF CleanUp, TypeOK, Entry
      <3>3. QED
        BY <2>1, <2>2, <3>2 DEF CleanUp, TypeOK, tracker, contact, history, play
    <2>3. CASE FindMatches
      <3>1. pairs' \subseteq SUBSET Human
        BY <2>3 DEF FindMatches, Pairings, Candidates, kSubset
      <3>2. QED
        BY <2>1, <2>3, <3>1 DEF FindMatches, TypeOK, tracker, contact, stores, play
    <2>4. CASE CreatePair
      BY <2>1, <2>4 DEF CreatePair, TypeOK, tracker, contact, history, play
    <2>5. CASE EndCycle
      BY <2>1, <2>5 DEF EndCycle, TypeOK, tracker, contact, stores, play
    <2>6. ASSUME NEW p \in SUBSET Human, FlipPair(p)
          PROVE  TypeOK'
      <3>1. p \subseteq Human /\ Cardinality(p) = 2
        BY <2>6 DEF FlipPair, PairSound
      <3>2. CASE StillWaiting(p)
        <4>1. NewMatch \in MatchId /\ drawn' \in 0..MaxMatches
          BY <2>6, <3>2, BoundAssumption DEF FlipPair, TypeOK, NewMatch, MatchId
        <4>2. \A u \in p : MatchedEntry(CHOOSE o \in p : o # u, NewMatch) \in Entry
          BY <3>1, <4>1, <1>3, PairUsers, RangeAssumption DEF MatchedEntry, Entry
        <4>3. queue' \in [Human -> Entry \cup {None}]
          <5> DEFINE entry(u) == MatchedEntry(CHOOSE o \in p : o # u, NewMatch)
          <5>1. queue' = [u \in Human |-> IF u \in p THEN entry(u) ELSE queue[u]]
            BY <2>6, <3>2 DEF FlipPair
          <5>2. \A u \in p : entry(u) \in Entry
            BY <4>2
          <5> HIDE DEF entry
          <5>3. QED
            BY <5>1, <5>2 DEF TypeOK
        <4>4. QED
          BY <2>1, <2>6, <3>1, <3>2, <4>1, <4>3, <1>3
             DEF FlipPair, TypeOK, tracker, contact, history, play
      <3>3. CASE ~StillWaiting(p)
        BY <2>1, <2>6, <3>3 DEF FlipPair, TypeOK, tracker, contact, history, play
      <3>4. QED
        BY <3>2, <3>3
    <2>7. ASSUME NEW u \in User, MarkPair(u)
          PROVE  TypeOK'
      <3>1. status' \in [User -> Status]
        BY <2>7, StatusType DEF MarkPair, Status
      <3>2. /\ pair' \in [match : MatchId \cup {None}, users : SUBSET User, left : SUBSET User]
            /\ loop' \in {"mark", "cancel"}
        BY <2>7 DEF MarkPair, TypeOK
      <3>3. QED
        BY <2>1, <2>7, <3>1, <3>2 DEF MarkPair, TypeOK, contact, stores, history, play
    <2>8. ASSUME NEW u \in User, CancelPair(u)
          PROVE  TypeOK'
      <3>1. invites' \in [InviteId -> Invite \cup {None}]
        BY <2>8, CancelType DEF CancelPair
      <3>2. /\ pair' \in [match : MatchId \cup {None}, users : SUBSET User, left : SUBSET User]
            /\ loop' \in {"cancel", "pair", "attach"}
        BY <2>8 DEF CancelPair, TypeOK, NoPair
      <3>3. QED
        BY <2>1, <2>8, <3>1, <3>2 DEF CancelPair, TypeOK, tracker, contact, history, play
    <2>9. QED
      BY <1>6, <2>2, <2>3, <2>4, <2>5, <2>6, <2>7, <2>8 DEF Cycle
  <1>7. CASE NoHooks /\ UNCHANGED asks
    BY <1>7 DEF NoHooks, TypeOK, tracker, contact, stores, history, play
  <1>8. CASE Play
    <2>1. ASSUME NEW m \in MatchId, BeginMatch(m)
          PROVE  TypeOK'
      <3>1. status' \in [User -> Status] /\ invites' \in [InviteId -> Invite \cup {None}]
        BY <2>1, StatusType, CancelType DEF BeginMatch, Status
      <3>2. QED
        BY <1>8, <2>1, <3>1 DEF Play, BeginMatch, TypeOK, contact, progress, thread
    <2>2. ASSUME NEW m \in MatchId, NEW u \in Human, TakeSeat(m, u) \/ LeaveSeat(m, u)
          PROVE  TypeOK'
      <3>1. status' \in [User -> Status]
        BY <2>2, StatusType DEF TakeSeat, LeaveSeat, tracker, contact, Status, TypeOK
      <3>2. {sat', gone'} \subseteq [MatchId -> SUBSET User]
        BY <2>2, <1>3 DEF TakeSeat, LeaveSeat, TypeOK
      <3>3. QED
        BY <1>8, <2>2, <3>1, <3>2 DEF Play, TakeSeat, LeaveSeat, TypeOK, tracker, contact, stores,
                                      progress, thread
    <2>3. QED
      BY <1>8, <2>1, <2>2 DEF Play
  <1>9. QED
    BY <1>4, <1>5, <1>6, <1>7, <1>8 DEF Next

-----------------------------------------------------------------------------
(* What most steps leave alone.                                            *)

\* The invites as far as the match ids and their players go.
SameInvites ==
    \A i \in InviteId :
        /\ invites[i] # None =>
               /\ invites'[i] # None
               /\ invites'[i].from = invites[i].from /\ invites'[i].to = invites[i].to
               /\ invites'[i].match = invites[i].match
               /\ invites'[i].state = "accepted" <=> invites[i].state = "accepted"
        /\ invites[i] = None /\ invites'[i] # None =>
               invites'[i].state = "pending" /\ invites'[i].from # invites'[i].to

\* Nothing accepted, created or drawn.
NothingDrawn == UNCHANGED <<players, drawn>> /\ SameInvites

\* The pair at hand stays, or its match has been created before.
PairStays ==
    \/ UNCHANGED <<loop, pairs, pair>>
    \/ /\ loop' # "create" /\ loop # "create" /\ pairs' \subseteq pairs
       /\ loop' \in InCycle \ {"pair"} => loop \in InCycle \ {"pair"} /\ pair'.users = pair.users

LEMMA CancelSame ==
    ASSUME TypeOK, NEW U, invites' = Cancelled(U)
    PROVE  SameInvites
  <1> SUFFICES ASSUME NEW i \in InviteId
               PROVE  /\ invites[i] = None => invites'[i] = None
                      /\ invites[i] # None =>
                           /\ invites'[i] # None
                           /\ invites'[i].from = invites[i].from /\ invites'[i].to = invites[i].to
                           /\ invites'[i].match = invites[i].match
                           /\ invites'[i].state = "accepted" <=> invites[i].state = "accepted"
    BY DEF SameInvites
  <1>1. CASE invites'[i] = invites[i]
    BY <1>1
  <1>2. CASE Pending(i) /\ invites'[i] = [invites[i] EXCEPT !.state = "cancelled"]
    <2>1. invites[i] \in [state : {"pending", "accepted", "rejected", "cancelled"},
                          from : Human, to : User, match : MatchId \cup {None}]
      BY <1>2 DEF TypeOK, Invite, Pending
    <2>2. invites'[i] # None
      <3>1. invites'[i] \in Invite
        BY <1>2, <2>1 DEF Invite
      <3>2. QED
        BY <3>1, NoneAssumption
    <2>3. QED
      BY <1>2, <2>1, <2>2 DEF Pending
  <1>3. QED
    BY <1>1, <1>2 DEF Cancelled

LEMMA AcceptedSame ==
    ASSUME SameInvites, NEW i \in InviteId, NEW m
    PROVE  AcceptedAs(i, m)' <=> AcceptedAs(i, m)
  BY DEF SameInvites, AcceptedAs

LEMMA InvitesStay ==
    ASSUME InvitesSound, NothingDrawn
    PROVE  InvitesSound'
  <1>1. \A i \in InviteId : invites'[i] # None => invites'[i].from # invites'[i].to
    BY DEF InvitesSound, NothingDrawn, SameInvites
  <1>2. \A i \in InviteId : invites'[i] # None /\ invites'[i].state = "accepted"
           => invites'[i].match \in 1..drawn'
    BY DEF InvitesSound, NothingDrawn, SameInvites
  <1>3. \A i, j \in InviteId, m \in MatchId : AcceptedAs(i, m)' /\ AcceptedAs(j, m)' => i = j
    BY AcceptedSame DEF InvitesSound, NothingDrawn
  <1>4. QED
    BY <1>1, <1>2, <1>3 DEF InvitesSound

LEMMA PlayersStay ==
    ASSUME PlayersSound, NothingDrawn
    PROVE  PlayersSound'
  <1> SUFFICES ASSUME NEW m \in MatchId, players'[m] # {}
               PROVE  /\ m \in 1..drawn' /\ Cardinality(players'[m]) = 2
                      /\ \A i \in InviteId : AcceptedAs(i, m)'
                             => players'[m] = {invites'[i].from, invites'[i].to}
    BY DEF PlayersSound
  <1>1. \A i \in InviteId : AcceptedAs(i, m)' => AcceptedAs(i, m)
                             /\ invites'[i].from = invites[i].from
                             /\ invites'[i].to = invites[i].to
    BY DEF NothingDrawn, SameInvites, AcceptedAs
  <1>2. QED
    BY <1>1 DEF PlayersSound, NothingDrawn

LEMMA PairStay ==
    ASSUME PairSound, NothingDrawn, PairStays
    PROVE  PairSound'
  <1>1. CASE UNCHANGED <<loop, pairs, pair>>
    <2>1. \A i \in InviteId : ~AcceptedAs(i, pair.match) => ~AcceptedAs(i, pair.match)'
      BY <1>1 DEF NothingDrawn, SameInvites, AcceptedAs
    <2>2. QED
      BY <1>1, <2>1 DEF PairSound, NothingDrawn
  <1>2. CASE /\ loop' # "create" /\ loop # "create" /\ pairs' \subseteq pairs
             /\ loop' \in InCycle \ {"pair"} =>
                    loop \in InCycle \ {"pair"} /\ pair'.users = pair.users
    BY <1>2 DEF PairSound, InCycle
  <1>3. QED
    BY <1>1, <1>2 DEF PairStays

LEMMA EntitledStays ==
    ASSUME NothingDrawn, PairStays, NEW u, NEW m, Entitled(u, m)
    PROVE  Entitled(u, m)'
  <1>1. m \in 1..drawn' /\ (players'[m] # {} => u \in players'[m])
    BY DEF NothingDrawn, Entitled
  <1>2. loop' = "create" /\ pair'.match = m => u \in pair'.users
    BY DEF PairStays, Entitled
  <1>3. \A i \in InviteId : AcceptedAs(i, m)' => u \in {invites'[i].from, invites'[i].to}
    BY DEF NothingDrawn, SameInvites, AcceptedAs, Entitled
  <1>4. QED
    BY <1>1, <1>2, <1>3 DEF Entitled

\* What somebody knows is what he was told, has in the queue or is to be told.
LEMMA KnowledgeStays ==
    ASSUME OnlyPlayersKnow,
           \A u \in Human, m \in MatchId : Entitled(u, m) => Entitled(u, m)',
           TypeOK,
           \A u \in Human : told'[u] = told[u],
           \A u \in Human : \/ queue'[u] = queue[u] \/ queue'[u] = None
                           \/ queue'[u].state = "waiting",
           \A u \in Human : At(u, "consume")' => request'[u] = request[u]
    PROVE  OnlyPlayersKnow'
  <1> SUFFICES ASSUME NEW u \in Human
               PROVE  /\ \A m \in told'[u] : Entitled(u, m)'
                      /\ queue'[u] # None /\ queue'[u].state = "matched"
                            => Entitled(u, queue[u].match)' /\ queue'[u] = queue[u]
                      /\ At(u, "consume")' => Entitled(u, request[u].match)'
                                              /\ request'[u] = request[u]
    BY DEF OnlyPlayersKnow
  <1>1. \A m \in told'[u] : Entitled(u, m)'
    BY DEF OnlyPlayersKnow, TypeOK
  <1>2. ASSUME NEW m, Entitled(u, m)
        PROVE  m \in MatchId
    BY <1>2, BoundAssumption DEF Entitled, TypeOK, MatchId
  <1>3. QED
    BY <1>1, <1>2 DEF OnlyPlayersKnow, At

\* The points of a handler that owes a match to an accepted invite.
Owing == {"takeout", "quit", "create"}

\* Each handler stays where it is, or goes on and knows what it has to.
RequestsAdvance ==
    \A u \in Human : \/ request'[u] = request[u]
                    \/ /\ RequestSound(u)'
                       /\ request[u].at \in Owing => /\ request'[u].at \in Owing
                                                     /\ request'[u].invite = request[u].invite

LEMMA RequestsStay ==
    ASSUME RequestsSound, NothingDrawn, RequestsAdvance
    PROVE  RequestsSound'
  <1> SUFFICES ASSUME NEW u \in Human, request'[u] = request[u]
               PROVE  RequestSound(u)'
    BY DEF RequestsSound, RequestsAdvance
  <1>1. RequestSound(u)
    BY DEF RequestsSound
  <1>2. request[u].at \in {"takeout", "quit", "create"}
          => \E m \in 1..drawn' : AcceptedAs(request[u].invite, m)'
    BY <1>1, AcceptedSame DEF RequestSound, NothingDrawn
  <1>3. request[u].at \in {"reverse", "takeout", "quit", "create"}
          => /\ request[u].invite \in InviteId /\ invites'[request[u].invite] # None
             /\ invites'[request[u].invite].to = u
    BY <1>1 DEF RequestSound, NothingDrawn, SameInvites
  <1>4. QED
    BY <1>1, <1>2, <1>3 DEF RequestSound, At, AcceptedAs

LEMMA PromiseStays ==
    ASSUME PromiseKept, RequestsSound, NothingDrawn, PairStays, RequestsAdvance
    PROVE  PromiseKept'
  <1> SUFFICES ASSUME NEW m \in 1..drawn'
               PROVE  \/ players'[m] # {}
                      \/ loop' = "create" /\ pair'.match = m
                      \/ \E u \in Human : /\ request'[u].at \in {"takeout", "quit", "create"}
                                          /\ invites'[request'[u].invite].match = m
    BY DEF PromiseKept
  <1>1. CASE players[m] # {} \/ (loop = "create" /\ pair.match = m)
    BY <1>1 DEF NothingDrawn, PairStays
  <1>2. ASSUME NEW u \in Human, request[u].at \in {"takeout", "quit", "create"},
               invites[request[u].invite].match = m
        PROVE  /\ request'[u].at \in {"takeout", "quit", "create"}
               /\ invites'[request'[u].invite].match = m
    <2>1. request'[u].at \in Owing /\ request'[u].invite = request[u].invite
      BY <1>2 DEF RequestsAdvance, Owing
    <2>2. request[u].invite \in InviteId /\ invites[request[u].invite] # None
      BY <1>2 DEF RequestsSound, RequestSound, AcceptedAs
    <2>3. QED
      BY <1>2, <2>1, <2>2 DEF NothingDrawn, SameInvites, Owing
  <1>3. QED
    BY <1>1, <1>2 DEF PromiseKept, NothingDrawn

LEMMA CycleStays ==
    ASSUME CycleSound, NEW W, W = seen', loop' \in InCycle <=> loop \in InCycle,
           UNCHANGED <<pairs, found>>, W \subseteq seen, \A u \in W : queue'[u] = queue[u]
    PROVE  CycleSound'
  <1>1. \A u \in W : Waiting(u)' <=> Waiting(u)
    BY DEF Waiting
  <1>2. \A c \in Candidates({u \in seen : Waiting(u)})' : c \in Candidates({u \in seen : Waiting(u)})
    <2> SUFFICES ASSUME NEW c \in SUBSET {u \in W : Waiting(u)'}, Cardinality(c) = 2,
                        \A u \in c : Gap(c) <= Allowed(u)'
                 PROVE  /\ c \in SUBSET {u \in seen : Waiting(u)}
                        /\ \A u \in c : Gap(c) <= Allowed(u)
      BY DEF Candidates, kSubset
    <2>1. \A u \in c : u \in W /\ Allowed(u)' = Allowed(u)
      BY DEF Allowed
    <2>2. QED
      BY <1>1, <2>1
  <1>3. loop' \notin InCycle => pairs' = {} /\ seen' = {}
    BY DEF CycleSound
  <1>4. (\A u \in seen' : queue'[u] # None) /\ pairs' \subseteq found'
    BY DEF CycleSound
  <1>5. ASSUME loop' \in InCycle
        PROVE  /\ \A c, d \in found' : c # d => c \cap d = {}
               /\ \A d \in found' : d \subseteq seen' =>
                     IF d \in pairs' THEN \A u \in d : Waiting(u)' ELSE \A u \in d : ~Waiting(u)'
               /\ \A c \in Candidates({u \in seen : Waiting(u)})' :
                     \E d \in found' : d \cap c # {}
    <2>1. \A d \in found : d \subseteq W => d \subseteq seen /\ \A u \in d : Waiting(u)' <=> Waiting(u)
      BY <1>1
    <2>2. loop \in InCycle
      BY <1>5
    <2>3. \A c, d \in found' : c # d => c \cap d = {}
      BY <2>2 DEF CycleSound
    <2>4. \A d \in found' : d \subseteq seen' =>
             IF d \in pairs' THEN \A u \in d : Waiting(u)' ELSE \A u \in d : ~Waiting(u)'
      BY <2>1, <2>2 DEF CycleSound
    <2>5. \A c \in Candidates({u \in seen : Waiting(u)})' : \E d \in found' : d \cap c # {}
      BY <1>2, <2>2 DEF CycleSound
    <2>6. QED
      BY <2>3, <2>4, <2>5
  <1>6. QED
    BY <1>3, <1>4, <1>5 DEF CycleSound

\* A step that accepts, creates and draws nothing.
LEMMA CalmStep ==
    ASSUME MatchmakingInv, TypeOK', NothingDrawn, PairStays, RequestsAdvance,
           OnlyPlayersKnow', CycleSound'
    PROVE  MatchmakingInv'
  BY InvitesStay, PlayersStay, PairStay, RequestsStay, PromiseStays DEF MatchmakingInv

-----------------------------------------------------------------------------
(* The steps of the handlers that draw no match id.                        *)

\* What a handler that tells nobody anything may do to the queue.
QueueLeft(U) ==
    /\ \A v \in Human : queue'[v] = IF v \in U THEN None ELSE queue[v]
    /\ seen' = seen \ U

\* u's handler goes on with request r, having taken U out of the queue.
LEMMA HandlerStep ==
    ASSUME MatchmakingInv, TypeOK', NEW u \in Human, NEW U,
           UNCHANGED <<players, drawn, loop, pairs, pair, found, told>>, SameInvites,
           \/ QueueLeft(U) \/ UNCHANGED <<queue, seen>>,
           \A v \in Human \ {u} : request'[v] = request[v],
           RequestSound(u)', ~At(u, "consume")',
           request[u].at \in Owing => /\ request'[u].at \in Owing
                                      /\ request'[u].invite = request[u].invite
    PROVE  MatchmakingInv'
  <1>1. NothingDrawn /\ PairStays /\ RequestsAdvance
    BY DEF NothingDrawn, PairStays, RequestsAdvance
  <1>2. \A v \in Human, m \in MatchId : Entitled(v, m) => Entitled(v, m)'
    BY <1>1, EntitledStays
  <1>3. OnlyPlayersKnow'
    <2>1. \A v \in Human : queue'[v] = queue[v] \/ queue'[v] = None
      BY DEF QueueLeft
    <2>2. \A v \in Human : At(v, "consume")' => request'[v] = request[v]
      OBVIOUS
    <2>3. QED
      BY <1>2, <2>1, <2>2, KnowledgeStays DEF MatchmakingInv
  <1>4. CycleSound'
    <2>1. seen \subseteq Human
      BY DEF MatchmakingInv, TypeOK
    <2>2. seen' \subseteq seen /\ \A v \in seen' : queue'[v] = queue[v]
      BY <2>1 DEF QueueLeft
    <2>3. QED
      BY <2>2, CycleStays DEF MatchmakingInv
  <1>5. QED
    BY <1>1, <1>3, <1>4, CalmStep

LEMMA LeaveLeft ==
    ASSUME NEW U, Leave(U)
    PROVE  QueueLeft(U)
  BY DEF Leave, QueueLeft

LEMMA UnchangedSame ==
    ASSUME UNCHANGED invites
    PROVE  SameInvites
  BY DEF SameInvites

\* A request that goes on: to another point, with another user, invite or match at
\* hand, or to its end.
LEMMA GotoFacts ==
    ASSUME TypeOK, NEW u \in Human
    PROVE  /\ \A r : Goto(u, r) => /\ request'[u] = r
                                  /\ \A v \in Human \ {u} : request'[v] = request[v]
           /\ \A x : Goto(u, Step(u, x)) =>
                 /\ request'[u].at = x /\ request'[u].other = request[u].other
                 /\ request'[u].invite = request[u].invite
           /\ \A x, y : Goto(u, [Step(u, x) EXCEPT !.other = y]) =>
                 request'[u].at = x /\ request'[u].other = y
           /\ \A x, y : Goto(u, [Step(u, x) EXCEPT !.invite = y]) =>
                 /\ request'[u].at = x /\ request'[u].other = request[u].other
                 /\ request'[u].invite = y
           /\ \A x, y : Goto(u, [Step(u, x) EXCEPT !.match = y]) =>
                 request'[u].at = x /\ request'[u].match = y
           /\ Goto(u, Idle) => request'[u].at = "idle"
  <1>1. \A r : Goto(u, r) => /\ request'[u] = r
                            /\ \A v \in Human \ {u} : request'[v] = request[v]
    BY DEF Goto, TypeOK
  <1>2. request[u] \in Request
    BY DEF TypeOK
  <1>3. \A x : Step(u, x) = [at |-> x, other |-> request[u].other, invite |-> request[u].invite,
                            match |-> request[u].match]
    BY <1>2 DEF Step, Request
  <1>4. ASSUME NEW x, Goto(u, Step(u, x))
        PROVE  /\ request'[u].at = x /\ request'[u].other = request[u].other
               /\ request'[u].invite = request[u].invite
    BY <1>1, <1>3, <1>4
  <1>5. ASSUME NEW x, NEW y, Goto(u, [Step(u, x) EXCEPT !.other = y])
        PROVE  request'[u].at = x /\ request'[u].other = y
    <2>1. request'[u] = [Step(u, x) EXCEPT !.other = y]
      BY <1>5 DEF Goto, TypeOK
    <2>2. QED
      BY <1>3, <2>1
  <1>6. ASSUME NEW x, NEW y, Goto(u, [Step(u, x) EXCEPT !.invite = y])
        PROVE  /\ request'[u].at = x /\ request'[u].other = request[u].other
               /\ request'[u].invite = y
    <2>1. request'[u] = [Step(u, x) EXCEPT !.invite = y]
      BY <1>6 DEF Goto, TypeOK
    <2>2. QED
      BY <1>3, <2>1
  <1>7. ASSUME NEW x, NEW y, Goto(u, [Step(u, x) EXCEPT !.match = y])
        PROVE  request'[u].at = x /\ request'[u].match = y
    <2>1. request'[u] = [Step(u, x) EXCEPT !.match = y]
      BY <1>7 DEF Goto, TypeOK
    <2>2. QED
      BY <1>3, <2>1
  <1>8. Goto(u, Idle) => request'[u].at = "idle"
    BY <1>1 DEF Idle
  <1>9. QED
    BY <1>1, <1>4, <1>5, <1>6, <1>7, <1>8, Zenon

\* Requests that begin, and those that only change the queue.
LEMMA AskStep ==
    ASSUME MatchmakingInv, TypeOK', NEW u \in Human,
           \/ FallSilent(u) \/ Heartbeat(u) \/ Join(u) \/ LeaveQueue(u)
           \/ \E t \in User : SendInvite(u, t)
    PROVE  MatchmakingInv'
  <1>1. TypeOK /\ SameInvites
    BY UnchangedSame DEF MatchmakingInv, FallSilent, Heartbeat, Join, LeaveQueue, SendInvite, stores
  <1>2. request[u].at = "idle"
    <2>1. request[u] = Idle
      BY DEF FallSilent, Heartbeat, Join, LeaveQueue, SendInvite
    <2>2. QED
      BY <2>1 DEF Idle
  <1>3. CASE FallSilent(u) \/ Heartbeat(u) \/ Join(u)
    <2>1. UNCHANGED <<players, drawn, loop, pairs, pair, found, told, queue, seen>>
      BY <1>3 DEF FallSilent, Heartbeat, Join, stores, thread, progress
    <2>2. request' = request \/ request' = [request EXCEPT ![u] = Step(u, "rating")]
      BY <1>3 DEF FallSilent, Heartbeat, Join, Goto
    <2>3. request'[u].at \in {"idle", "rating"} /\ \A v \in Human \ {u} : request'[v] = request[v]
      BY <1>1, <1>2, <2>2 DEF Step, TypeOK, Request
    <2>4. QED
      BY <1>1, <1>2, <2>1, <2>3, HandlerStep DEF RequestSound, At, Owing
  <1>4. CASE LeaveQueue(u)
    <2>1. UNCHANGED <<players, drawn, loop, pairs, pair, found, told>> /\ QueueLeft({u})
      BY <1>4, LeaveLeft DEF LeaveQueue, progress
    <2>2. request'[u].at = "unmarking" /\ \A v \in Human \ {u} : request'[v] = request[v]
      BY <1>1, <1>4, GotoFacts DEF LeaveQueue
    <2>3. QED
      BY <1>1, <1>2, <2>1, <2>2, HandlerStep DEF RequestSound, At, Owing
  <1>5. ASSUME NEW t \in User, SendInvite(u, t)
        PROVE  MatchmakingInv'
    <2>1. UNCHANGED <<players, drawn, loop, pairs, pair, found, told>> /\ QueueLeft({u})
      BY <1>5, LeaveLeft DEF SendInvite, progress
    <2>2. /\ request'[u].at = "seek" /\ request'[u].other = t /\ t # u
          /\ \A v \in Human \ {u} : request'[v] = request[v]
      BY <1>1, <1>5, GotoFacts DEF SendInvite
    <2>3. QED
      BY <1>1, <1>2, <2>1, <2>2, HandlerStep DEF RequestSound, At, Owing
  <1>6. QED
    BY <1>3, <1>4, <1>5

\* A request goes on without touching an invite that is accepted or a match.
LEMMA ContinueStep ==
    ASSUME MatchmakingInv, TypeOK', NEW u \in Human,
           \/ JoinEnter(u) \/ JoinMark(u) \/ LeaveMark(u) \/ SeekReverse(u) \/ TakeOut(u)
           \/ Offer(u) \/ Quit(u)
    PROVE  MatchmakingInv'
  <1>1. TypeOK /\ RequestSound(u)
    BY DEF MatchmakingInv, RequestsSound
  <1>2. CASE JoinEnter(u)
    <2>1. UNCHANGED <<players, drawn, loop, pairs, pair, found, told, seen>> /\ SameInvites
      BY <1>2, UnchangedSame DEF JoinEnter, thread, progress
    <2>2. NothingDrawn /\ PairStays
      BY <2>1 DEF NothingDrawn, PairStays
    <2>3. request'[u].at \in {"marking", "idle"} /\ \A v \in Human \ {u} : request'[v] = request[v]
      BY <1>1, <1>2, GotoFacts DEF JoinEnter, Idle
    <2>4. RequestsAdvance
      BY <1>2, <2>3 DEF JoinEnter, RequestsAdvance, RequestSound, At, Owing
    <2>5. \A v \in Human : queue'[v] = queue[v]
             \/ (v = u /\ queue[v] = None /\ queue'[v].state = "waiting")
      <3>1. CASE queue' = queue
        BY <3>1
      <3>2. CASE /\ queue[u] = None
                 /\ queue' = [queue EXCEPT ![u] = [state |-> "waiting", match |-> None,
                                                  opponent |-> None, age |-> 0]]
        <4>1. queue'[u] = [state |-> "waiting", match |-> None, opponent |-> None, age |-> 0]
          BY <1>1, <3>2 DEF TypeOK
        <4>2. \A v \in Human \ {u} : queue'[v] = queue[v]
          BY <1>1, <3>2 DEF TypeOK
        <4>3. queue'[u].state = "waiting"
          BY <4>1
        <4>4. QED
          BY <3>2, <4>2, <4>3
      <3>3. QED
        BY <1>2, <3>1, <3>2 DEF JoinEnter
    <2>6. \A v \in seen : queue'[v] = queue[v]
      BY <2>5 DEF MatchmakingInv, CycleSound, TypeOK
    <2>7. CycleSound'
      BY <2>1, <2>6, CycleStays DEF MatchmakingInv
    <2>8. OnlyPlayersKnow'
      <3>1. \A v \in Human, m \in MatchId : Entitled(v, m) => Entitled(v, m)'
        BY <2>2, EntitledStays
      <3>2. \A v \in Human : At(v, "consume")' => request'[v] = request[v]
        BY <2>3 DEF At
      <3>3. QED
        BY <2>1, <2>5, <3>1, <3>2, KnowledgeStays DEF MatchmakingInv
    <2>9. QED
      BY <2>2, <2>4, <2>7, <2>8, CalmStep
  <1>3. CASE JoinMark(u) \/ LeaveMark(u)
    <2>1. /\ UNCHANGED <<players, drawn, loop, pairs, pair, found, told, queue, seen>>
          /\ SameInvites
      BY <1>3, UnchangedSame DEF JoinMark, LeaveMark, stores, thread, progress
    <2>2. request'[u].at = "idle" /\ \A v \in Human \ {u} : request'[v] = request[v]
      BY <1>1, <1>3, GotoFacts DEF JoinMark, LeaveMark, Idle
    <2>3. request[u].at \in {"marking", "unmarking"}
      BY <1>3 DEF JoinMark, LeaveMark, At
    <2>4. QED
      BY <2>1, <2>2, <2>3, HandlerStep DEF RequestSound, At, Owing
  <1>4. CASE SeekReverse(u)
    <2> DEFINE reverse == {i \in InviteId : /\ Pending(i)
                                            /\ invites[i].from = request[u].other
                                            /\ invites[i].to = u}
    <2>1. /\ UNCHANGED <<players, drawn, loop, pairs, pair, found, told, queue, seen, invites>>
          /\ SameInvites
      BY <1>4, UnchangedSame DEF SeekReverse, stores, thread, progress
    <2>2. request[u].at = "seek" /\ request[u].other \in User \ {u}
      BY <1>1, <1>4 DEF SeekReverse, At, RequestSound
    <2>3. /\ \/ request'[u].at = "offer"
             \/ /\ request'[u].at = "reverse" /\ request'[u].invite \in InviteId
                /\ invites[request'[u].invite] # None /\ invites[request'[u].invite].to = u
          /\ request'[u].other = request[u].other
          /\ \A v \in Human \ {u} : request'[v] = request[v]
      <3>1. Goto(u, IF reverse = {} THEN Step(u, "offer")
                    ELSE [Step(u, "reverse") EXCEPT !.invite = Min(reverse)])
        BY <1>4 DEF SeekReverse
      <3>2. reverse # {} => /\ Min(reverse) \in InviteId /\ invites[Min(reverse)] # None
                            /\ invites[Min(reverse)].to = u
        <4>1. reverse # {} => Min(reverse) \in reverse
          BY LeastInvite
        <4>2. QED
          BY <4>1 DEF Pending
      <3> HIDE DEF reverse
      <3>3. QED
        <4>1. CASE reverse = {}
          BY <1>1, <3>1, <4>1, GotoFacts
        <4>2. CASE reverse # {}
          <5>1. Goto(u, [Step(u, "reverse") EXCEPT !.invite = Min(reverse)])
            BY <3>1, <4>2
          <5>2. /\ request'[u].at = "reverse" /\ request'[u].other = request[u].other
                /\ request'[u].invite = Min(reverse)
            BY <1>1, <5>1, GotoFacts, Zenon
          <5>3. \A v \in Human \ {u} : request'[v] = request[v]
            BY <1>1, <5>1, GotoFacts, Zenon
          <5>4. QED
            BY <3>2, <4>2, <5>2, <5>3
        <4>3. QED
          BY <4>1, <4>2
    <2>4. RequestSound(u)' /\ ~At(u, "consume")' /\ request[u].at \notin Owing
      BY <2>1, <2>2, <2>3 DEF RequestSound, At, Owing
    <2>5. QED
      BY <2>1, <2>3, <2>4, HandlerStep
  <1>5. CASE TakeOut(u) \/ Quit(u)
    <2>1. PICK U : QueueLeft(U)
      BY <1>5, LeaveLeft DEF TakeOut, Quit
    <2>2. UNCHANGED <<players, drawn, loop, pairs, pair, found, told, invites>> /\ SameInvites
      BY <1>5, UnchangedSame DEF TakeOut, Quit, progress
    <2>3. /\ request'[u].at = "create" /\ request'[u].invite = request[u].invite
          /\ \A v \in Human \ {u} : request'[v] = request[v]
      BY <1>1, <1>5, GotoFacts DEF TakeOut, Quit
    <2>4. request[u].at \in {"takeout", "quit"}
      BY <1>5 DEF TakeOut, Quit, At
    <2>5. RequestSound(u)'
      BY <1>1, <2>2, <2>3, <2>4 DEF RequestSound, At, AcceptedAs
    <2>6. QED
      BY <2>1, <2>2, <2>3, <2>4, <2>5, HandlerStep DEF At, Owing
  <1>6. CASE Offer(u)
    <2>1. UNCHANGED <<players, drawn, loop, pairs, pair, found, told, queue, seen>>
      BY <1>6 DEF Offer, thread, progress
    <2>2. request[u].at = "offer" /\ request[u].other \in User \ {u}
      BY <1>1, <1>6 DEF Offer, At, RequestSound
    <2>3. SameInvites
      <3>1. PICK i \in InviteId :
               /\ invites[i] = None
               /\ invites' = [invites EXCEPT ![i] = [state |-> "pending", from |-> u,
                                                    to |-> request[u].other, match |-> None]]
        BY <1>6 DEF Offer
      <3>2. /\ invites'[i].state = "pending" /\ invites'[i].from # invites'[i].to
            /\ \A j \in InviteId \ {i} : invites'[j] = invites[j]
        BY <1>1, <2>2, <3>1 DEF TypeOK
      <3>3. QED
        BY <3>1, <3>2 DEF SameInvites
    <2>4. request'[u].at = "idle" /\ \A v \in Human \ {u} : request'[v] = request[v]
      BY <1>1, <1>6, GotoFacts DEF Offer, Idle
    <2>5. QED
      BY <2>1, <2>2, <2>3, <2>4, HandlerStep DEF RequestSound, At, Owing
  <1>7. QED
    BY <1>2, <1>3, <1>4, <1>5, <1>6

-----------------------------------------------------------------------------
(* The steps that tell a match id.                                         *)

LEMMA InviteEntitles ==
    ASSUME MatchmakingInv, NEW i \in InviteId, NEW m, AcceptedAs(i, m)
    PROVE  /\ m \in MatchId /\ Entitled(invites[i].from, m) /\ Entitled(invites[i].to, m)
           /\ players[m] # {} => players[m] = {invites[i].from, invites[i].to}
  <1>1. m \in 1..drawn /\ m \in MatchId
    BY BoundAssumption DEF MatchmakingInv, InvitesSound, AcceptedAs, TypeOK, MatchId
  <1>2. players[m] # {} => players[m] = {invites[i].from, invites[i].to}
    BY <1>1 DEF MatchmakingInv, PlayersSound
  <1>3. ~(loop = "create" /\ pair.match = m)
    BY DEF MatchmakingInv, PairSound
  <1>4. \A j \in InviteId : AcceptedAs(j, m) => j = i
    BY <1>1 DEF MatchmakingInv, InvitesSound
  <1>5. QED
    BY <1>1, <1>2, <1>3, <1>4 DEF Entitled

\* u asks for or is told a match whose player it is.
LEMMA TellStep ==
    ASSUME MatchmakingInv, TypeOK', NEW u \in Human,
           ReadStatus(u) \/ ConsumeMatch(u) \/ \E i \in InviteId : PollInvites(u, i)
    PROVE  MatchmakingInv'
  <1>1. TypeOK /\ RequestSound(u) /\ OnlyPlayersKnow
    BY DEF MatchmakingInv, RequestsSound
  <1>2. UNCHANGED <<players, drawn, loop, pairs, pair, found, invites>> /\ SameInvites
    BY UnchangedSame DEF ReadStatus, ConsumeMatch, PollInvites, stores, thread, progress
  <1>3. NothingDrawn /\ PairStays
    BY <1>2 DEF NothingDrawn, PairStays
  <1>4. \A v, m : Entitled(v, m) => Entitled(v, m)' /\ m \in MatchId
    <2>1. \A v, m : Entitled(v, m) => m \in MatchId
      BY <1>1, BoundAssumption DEF Entitled, TypeOK, MatchId
    <2>2. QED
      BY <1>3, <2>1, EntitledStays
  <1>5. CASE ReadStatus(u)
    <2>1. Entitled(u, queue[u].match)
      BY <1>1, <1>5 DEF ReadStatus, OnlyPlayersKnow
    <2>2. /\ request'[u].at = "consume" /\ request'[u].match = queue[u].match
          /\ \A v \in Human \ {u} : request'[v] = request[v]
      <3>1. Goto(u, [Step(u, "consume") EXCEPT !.match = queue[u].match])
        BY <1>5 DEF ReadStatus
      <3>2. request'[u].at = "consume" /\ request'[u].match = queue[u].match
        BY <1>1, <3>1, GotoFacts, Zenon
      <3>3. \A v \in Human \ {u} : request'[v] = request[v]
        BY <1>1, <3>1, GotoFacts, Zenon
      <3>4. QED
        BY <3>2, <3>3
    <2>3. request[u].at = "idle"
      BY <1>5 DEF ReadStatus, Idle
    <2>4. RequestsAdvance
      BY <1>4, <2>1, <2>2, <2>3 DEF RequestsAdvance, RequestSound, At, Owing
    <2>5. UNCHANGED <<queue, seen, told>>
      BY <1>5 DEF ReadStatus, stores, thread
    <2>6. OnlyPlayersKnow'
      BY <1>1, <1>4, <2>1, <2>2, <2>5 DEF OnlyPlayersKnow, At
    <2>7. CycleSound'
      BY <1>2, <2>5, CycleStays DEF MatchmakingInv
    <2>8. QED
      BY <1>3, <2>4, <2>6, <2>7, CalmStep
  <1>6. CASE ConsumeMatch(u)
    <2>1. Entitled(u, request[u].match) /\ request[u].at = "consume"
      BY <1>1, <1>6 DEF ConsumeMatch, OnlyPlayersKnow, At
    <2>2. request'[u].at = "idle" /\ \A v \in Human \ {u} : request'[v] = request[v]
      BY <1>1, <1>6, GotoFacts DEF ConsumeMatch
    <2>3. RequestsAdvance
      BY <2>1, <2>2 DEF RequestsAdvance, RequestSound, At, Owing
    <2>4. QueueLeft({u}) \/ UNCHANGED <<queue, seen>>
      BY <1>6, LeaveLeft DEF ConsumeMatch
    <2>5. /\ told'[u] = told[u] \cup {request[u].match}
          /\ \A v \in Human \ {u} : told'[v] = told[v]
      BY <1>1, <1>6 DEF ConsumeMatch, TypeOK
    <2>6. \A v \in Human : queue'[v] = queue[v] \/ queue'[v] = None
      BY <2>4 DEF QueueLeft
    <2>7. OnlyPlayersKnow'
      BY <1>1, <1>4, <2>1, <2>2, <2>5, <2>6 DEF OnlyPlayersKnow, At
    <2>8. seen' \subseteq seen /\ \A v \in seen' : queue'[v] = queue[v]
      BY <1>1, <2>4 DEF QueueLeft, TypeOK
    <2>9. CycleSound'
      BY <1>2, <2>8, CycleStays DEF MatchmakingInv
    <2>10. QED
      BY <1>3, <2>3, <2>7, <2>9, CalmStep
  <1>7. ASSUME NEW i \in InviteId, PollInvites(u, i)
        PROVE  MatchmakingInv'
    <2>1. Entitled(u, invites[i].match)
      BY <1>7, InviteEntitles DEF PollInvites, AcceptedAs
    <2>2. UNCHANGED <<queue, seen, request>> /\ RequestsAdvance
      BY <1>7 DEF PollInvites, stores, thread, RequestsAdvance
    <2>3. /\ told'[u] = told[u] \cup {invites[i].match}
          /\ \A v \in Human \ {u} : told'[v] = told[v]
      BY <1>1, <1>7 DEF PollInvites, TypeOK
    <2>4. OnlyPlayersKnow'
      BY <1>1, <1>4, <2>1, <2>2, <2>3 DEF OnlyPlayersKnow, At
    <2>5. CycleSound'
      BY <1>2, <2>2, CycleStays DEF MatchmakingInv
    <2>6. QED
      BY <1>3, <2>2, <2>4, <2>5, CalmStep
  <1>8. QED
    BY <1>5, <1>6, <1>7

-----------------------------------------------------------------------------
(* The steps that draw a match id or create a match.                       *)

\* Invite i gets the new match id.
LEMMA AcceptStep ==
    ASSUME MatchmakingInv, TypeOK', NEW u \in Human, NEW i \in InviteId,
           Pending(i), drawn < MaxMatches, invites' = Accepted(i), drawn' = NewMatch,
           invites[i].to = u,
           request'[u].at \in {"takeout", "quit"}, request'[u].invite = i,
           request'[u].at = "takeout" => request'[u].other \in User \ {u},
           \A v \in Human \ {u} : request'[v] = request[v],
           request[u].at \notin Owing,
           UNCHANGED <<queue, players, loop, pairs, pair, found, seen, told>>
    PROVE  MatchmakingInv'
  <1>1. TypeOK /\ OnlyPlayersKnow
    BY DEF MatchmakingInv
  <1>2. /\ NewMatch \in MatchId /\ NewMatch \notin 1..drawn
        /\ 1..drawn' = 1..drawn \cup {NewMatch} /\ \A m \in 1..drawn : m # NewMatch
    <2>1. drawn \in Nat
      BY <1>1, BoundAssumption DEF TypeOK
    <2>2. NewMatch \in MatchId
      BY <1>1, AcceptType
    <2>3. QED
      BY <2>1, <2>2 DEF NewMatch
  <1>3. /\ invites'[i] = [state |-> "accepted", from |-> invites[i].from, to |-> invites[i].to,
                          match |-> NewMatch]
        /\ \A j \in InviteId \ {i} : invites'[j] = invites[j]
    BY <1>1, AcceptType
  <1>4. invites'[i] # None
    <2>1. invites'[i] \in Invite
      BY <1>1, <1>2, <1>3 DEF TypeOK, Pending, Invite
    <2>2. QED
      BY <2>1, NoneAssumption
  <1>5. \A m : AcceptedAs(i, m)' <=> m = NewMatch
    BY <1>3, <1>4 DEF AcceptedAs
  <1>6. \A j \in InviteId \ {i} : \A m : AcceptedAs(j, m)' <=> AcceptedAs(j, m)
    BY <1>3 DEF AcceptedAs
  <1>7. \A j \in InviteId : /\ invites'[j].from = invites[j].from
                            /\ invites'[j].to = invites[j].to
                            /\ invites'[j] # None <=> invites[j] # None
    BY <1>3, <1>4 DEF Pending
  <1>8. \A m : ~AcceptedAs(i, m)
    BY DEF AcceptedAs, Pending
  <1>9. \A j \in InviteId : \A m : AcceptedAs(j, m)' => AcceptedAs(j, m) \/ (j = i /\ m = NewMatch)
    BY <1>5, <1>6
  <1>10. InvitesSound'
    <2>1. \A j \in InviteId : invites'[j] # None => invites'[j].from # invites'[j].to
      BY <1>7 DEF MatchmakingInv, InvitesSound
    <2>2. \A j \in InviteId : invites'[j] # None /\ invites'[j].state = "accepted"
             => invites'[j].match \in 1..drawn'
      BY <1>2, <1>3 DEF MatchmakingInv, InvitesSound
    <2>3. ASSUME NEW j \in InviteId, NEW k \in InviteId, NEW m \in MatchId,
                 AcceptedAs(j, m)', AcceptedAs(k, m)'
          PROVE  j = k
      <3>1. \A l \in InviteId : ~AcceptedAs(l, NewMatch)
        BY <1>2 DEF MatchmakingInv, InvitesSound, AcceptedAs
      <3>2. QED
        BY <1>9, <2>3, <3>1 DEF MatchmakingInv, InvitesSound
    <2>4. QED
      BY <2>1, <2>2, <2>3 DEF InvitesSound
  <1>11. RequestsSound'
    <2>1. RequestSound(u)'
      BY <1>2, <1>4, <1>5, <1>7 DEF RequestSound, At
    <2>2. ASSUME NEW v \in Human \ {u}
          PROVE  RequestSound(v)'
      <3>1. RequestSound(v) /\ request'[v] = request[v]
        BY DEF MatchmakingInv, RequestsSound
      <3>2. request[v].at \in {"takeout", "quit", "create"}
               => \E m \in 1..drawn' : AcceptedAs(request[v].invite, m)'
        BY <1>2, <1>6, <1>8, <3>1 DEF RequestSound
      <3>3. request[v].at \in {"reverse", "takeout", "quit", "create"}
               => /\ request[v].invite \in InviteId /\ invites'[request[v].invite] # None
                  /\ invites'[request[v].invite].to = v
        BY <1>7, <3>1 DEF RequestSound
      <3>4. QED
        BY <3>1, <3>2, <3>3 DEF RequestSound, At, AcceptedAs
    <2>3. QED
      BY <2>1, <2>2 DEF RequestsSound
  <1>12. PairSound'
    BY <1>2, <1>9 DEF MatchmakingInv, PairSound
  <1>13. players[NewMatch] = {}
    BY <1>2 DEF MatchmakingInv, PlayersSound
  <1>14. PlayersSound'
    BY <1>2, <1>7, <1>9, <1>13 DEF MatchmakingInv, PlayersSound
  <1>15. OnlyPlayersKnow'
    <2>1. ASSUME NEW v, NEW m, Entitled(v, m)
          PROVE  Entitled(v, m)'
      BY <1>2, <1>7, <1>9, <2>1 DEF Entitled
    <2>2. ASSUME NEW v \in Human, At(v, "consume")'
          PROVE  Entitled(v, request[v].match)'
      <3>1. v # u /\ request'[v] = request[v]
        BY <2>2 DEF At
      <3>2. QED
        BY <1>1, <2>1, <2>2, <3>1 DEF OnlyPlayersKnow, At
    <2>3. QED
      BY <1>1, <2>1, <2>2 DEF OnlyPlayersKnow
  <1>16. CycleSound'
    BY CycleStays DEF MatchmakingInv
  <1>17. PromiseKept'
    <2>1. ASSUME NEW m \in 1..drawn
          PROVE  \/ players'[m] # {}
                 \/ loop' = "create" /\ pair'.match = m
                 \/ \E v \in Human : /\ request'[v].at \in {"takeout", "quit", "create"}
                                     /\ invites'[request'[v].invite].match = m
      <3>1. CASE players[m] # {} \/ (loop = "create" /\ pair.match = m)
        BY <3>1
      <3>2. ASSUME NEW v \in Human, request[v].at \in {"takeout", "quit", "create"},
                   invites[request[v].invite].match = m
            PROVE  /\ request'[v].at \in {"takeout", "quit", "create"}
                   /\ invites'[request'[v].invite].match = m
        <4>1. v # u /\ request'[v] = request[v]
          BY <3>2 DEF Owing
        <4>2. request[v].invite \in InviteId \ {i}
          BY <1>8, <3>2 DEF MatchmakingInv, RequestsSound, RequestSound
        <4>3. QED
          BY <1>3, <3>2, <4>1, <4>2
      <3>3. QED
        BY <3>1, <3>2 DEF MatchmakingInv, PromiseKept
    <2>2. /\ request'[u].at \in {"takeout", "quit", "create"}
          /\ invites'[request'[u].invite].match = NewMatch
      BY <1>3
    <2>3. QED
      BY <1>2, <2>1, <2>2 DEF PromiseKept
  <1>18. QED
    BY <1>10, <1>11, <1>12, <1>14, <1>15, <1>16, <1>17 DEF MatchmakingInv

LEMMA AnswerStep ==
    ASSUME MatchmakingInv, TypeOK', NEW u \in Human,
           \/ AcceptReverse(u)
           \/ \E i \in InviteId, accept \in BOOLEAN : Respond(u, i, accept)
    PROVE  MatchmakingInv'
  <1>1. TypeOK /\ RequestSound(u)
    BY DEF MatchmakingInv, RequestsSound
  <1>2. UNCHANGED <<queue, players, loop, pairs, pair, found, seen, told>>
    BY DEF AcceptReverse, Respond, thread, progress
  <1>3. CASE AcceptReverse(u)
    <2> DEFINE i == request[u].invite
    <2>1. /\ request[u].at = "reverse" /\ request[u].other \in User \ {u}
          /\ i \in InviteId /\ invites[i].to = u
      BY <1>1, <1>3 DEF AcceptReverse, At, RequestSound
    <2>2. CASE Pending(i)
      <3>1. drawn < MaxMatches /\ invites' = Accepted(i) /\ drawn' = NewMatch
        BY <1>3, <2>2 DEF AcceptReverse
      <3>2. Goto(u, Step(u, "takeout"))
        BY <1>3, <2>2 DEF AcceptReverse
      <3>3. /\ request'[u].at = "takeout" /\ request'[u].other = request[u].other
            /\ request'[u].invite = i
        BY <1>1, <3>2, GotoFacts, Zenon
      <3>4. \A v \in Human \ {u} : request'[v] = request[v]
        BY <1>1, <3>2, GotoFacts, Zenon
      <3> HIDE DEF i
      <3>5. QED
        BY <1>2, <2>1, <2>2, <3>1, <3>3, <3>4, AcceptStep DEF Owing
    <2>3. CASE ~Pending(i)
      <3>1. UNCHANGED <<invites, drawn>> /\ Goto(u, Step(u, "offer"))
        BY <1>3, <2>3 DEF AcceptReverse
      <3>2. request'[u].at = "offer" /\ request'[u].other = request[u].other
        BY <1>1, <3>1, GotoFacts, Zenon
      <3>3. \A v \in Human \ {u} : request'[v] = request[v]
        BY <1>1, <3>1, GotoFacts, Zenon
      <3>4. RequestSound(u)' /\ ~At(u, "consume")' /\ request[u].at \notin Owing
        BY <2>1, <3>2 DEF RequestSound, At, Owing
      <3>5. QED
        BY <1>2, <3>1, <3>3, <3>4, UnchangedSame, HandlerStep
    <2>4. QED
      BY <2>2, <2>3
  <1>4. ASSUME NEW i \in InviteId, Respond(u, i, TRUE)
        PROVE  MatchmakingInv'
    <2>1. /\ Pending(i) /\ invites[i].to = u /\ drawn < MaxMatches
          /\ invites' = Accepted(i) /\ drawn' = NewMatch
      BY <1>4 DEF Respond, Addressee
    <2>2. Goto(u, [Step(u, "quit") EXCEPT !.invite = i])
      BY <1>4 DEF Respond
    <2>3. /\ request'[u].at = "quit" /\ request'[u].other = request[u].other
          /\ request'[u].invite = i
      BY <1>1, <2>2, GotoFacts, Zenon
    <2>4. \A v \in Human \ {u} : request'[v] = request[v]
      BY <1>1, <2>2, GotoFacts, Zenon
    <2>5. request[u] = Idle
      BY <1>4 DEF Respond
    <2>6. QED
      BY <1>2, <2>1, <2>3, <2>4, <2>5, AcceptStep DEF Owing, Idle
  <1>5. ASSUME NEW i \in InviteId, Respond(u, i, FALSE)
        PROVE  MatchmakingInv'
    <2>1. SameInvites
      <3>1. invites[i] \in Invite /\ invites[i].state = "pending"
        BY <1>1, <1>5 DEF Respond, Pending, TypeOK
      <3>2. invites'[i] = [state |-> "rejected", from |-> invites[i].from, to |-> invites[i].to,
                           match |-> invites[i].match]
        BY <1>1, <1>5, <3>1 DEF Respond, TypeOK, Invite
      <3>3. invites'[i] \in Invite
        BY <3>1, <3>2 DEF Invite
      <3>4. \A j \in InviteId \ {i} : invites'[j] = invites[j]
        BY <1>1, <1>5 DEF Respond, TypeOK
      <3>5. invites[i] # None /\ invites'[i] # None
        BY <3>1, <3>3, NoneAssumption
      <3>6. QED
        BY <3>1, <3>2, <3>4, <3>5 DEF SameInvites
    <2>2. UNCHANGED <<drawn, request>> /\ request[u] = Idle
      BY <1>5 DEF Respond
    <2>3. RequestSound(u)' /\ ~At(u, "consume")'
      BY <2>2 DEF RequestSound, At, Idle
    <2>4. QED
      BY <1>2, <2>1, <2>2, <2>3, HandlerStep
  <1>6. QED
    BY <1>3, <1>4, <1>5

\* A step that gives match m to the users P, when nobody else can have it.
LEMMA PlayersStep ==
    ASSUME MatchmakingInv, NEW m \in 1..drawn, NEW P, Cardinality(P) = 2,
           players' = [players EXCEPT ![m] = P],
           UNCHANGED <<invites, drawn, pairs, pair>>,
           \A i \in InviteId : AcceptedAs(i, m) => P = {invites[i].from, invites[i].to},
           \/ loop = "create" /\ pair.match = m /\ loop' = "mark"
           \/ ~(loop = "create" /\ pair.match = m) /\ UNCHANGED loop
    PROVE  /\ InvitesSound' /\ PairSound' /\ PlayersSound'
           /\ \A n \in 1..drawn \ {m} : players'[n] = players[n]
           /\ players'[m] # {}
           /\ \A v, n : Entitled(v, n) /\ (n = m => v \in P) => Entitled(v, n)'
  <1>1. m \in MatchId /\ 1..drawn \subseteq MatchId
    BY BoundAssumption DEF MatchmakingInv, TypeOK, MatchId
  <1>2. players'[m] = P /\ \A n \in MatchId \ {m} : players'[n] = players[n]
    BY <1>1 DEF MatchmakingInv, TypeOK
  <1>3. P # {}
    BY FS_EmptySet
  <1>4. \A i \in InviteId : \A n : AcceptedAs(i, n)' <=> AcceptedAs(i, n)
    BY DEF AcceptedAs
  <1>5. InvitesSound'
    BY <1>4 DEF MatchmakingInv, InvitesSound
  <1>6. PairSound'
    <2>1. loop' = "create" => /\ pair.match \in 1..drawn /\ pair.match # m
                              /\ players[pair.match] = {}
                              /\ \A i \in InviteId : ~AcceptedAs(i, pair.match)
      BY DEF MatchmakingInv, PairSound
    <2>2. loop' \in {"create", "mark", "cancel"} =>
             pair.users \subseteq Human /\ Cardinality(pair.users) = 2
      BY DEF MatchmakingInv, PairSound
    <2>3. \A p \in pairs : p \subseteq Human /\ Cardinality(p) = 2
      BY DEF MatchmakingInv, PairSound
    <2>4. QED
      BY <1>1, <1>2, <1>4, <2>1, <2>2, <2>3 DEF PairSound
  <1>7. PlayersSound'
    BY <1>2, <1>4 DEF MatchmakingInv, PlayersSound
  <1>8. ASSUME NEW v, NEW n, Entitled(v, n), n = m => v \in P
        PROVE  Entitled(v, n)'
    <2>1. n \in 1..drawn' /\ (players'[n] # {} => v \in players'[n])
      BY <1>1, <1>2, <1>8 DEF Entitled
    <2>2. loop' = "create" /\ pair'.match = n => v \in pair'.users
      BY <1>8 DEF Entitled
    <2>3. \A i \in InviteId : AcceptedAs(i, n)' => v \in {invites'[i].from, invites'[i].to}
      BY <1>4, <1>8 DEF Entitled
    <2>4. QED
      BY <2>1, <2>2, <2>3 DEF Entitled
  <1>9. QED
    BY <1>1, <1>2, <1>3, <1>5, <1>6, <1>7, <1>8

LEMMA CreateStep ==
    ASSUME MatchmakingInv, TypeOK', NEW u \in Human, CreateMatch(u)
    PROVE  MatchmakingInv'
  <1> DEFINE i == request[u].invite
             P == {invites[i].from, invites[i].to}
  <1>1. TypeOK /\ RequestSound(u) /\ OnlyPlayersKnow
    BY DEF MatchmakingInv, RequestsSound
  <1>2. request[u].at = "create" /\ i \in InviteId /\ invites[i].to = u
    BY <1>1 DEF CreateMatch, At, RequestSound
  <1>3. PICK m \in 1..drawn : AcceptedAs(i, m)
    BY <1>1, <1>2 DEF RequestSound
  <1>4. invites[i].match = m /\ invites[i].from # invites[i].to
    BY <1>2, <1>3 DEF AcceptedAs, MatchmakingInv, InvitesSound
  <1>5. Cardinality(P) = 2
    BY <1>4, TwoUsers
  <1>6. \A j \in InviteId : AcceptedAs(j, m) => j = i
    <2>1. m \in MatchId
      BY <1>2, <1>3, InviteEntitles
    <2>2. QED
      BY <1>2, <1>3, <2>1 DEF MatchmakingInv, InvitesSound
  <1>7. ~(loop = "create" /\ pair.match = m)
    BY <1>2, <1>3 DEF MatchmakingInv, PairSound
  <1>8. /\ players' = [players EXCEPT ![m] = P]
        /\ UNCHANGED <<queue, invites, drawn, loop, pairs, pair, found, seen>>
    BY <1>4 DEF CreateMatch, thread, progress
  <1>9. /\ told'[u] = told[u] \cup {m}
        /\ \A v \in Human \ {u} : told'[v] = told[v]
    BY <1>1, <1>4 DEF CreateMatch, TypeOK
  <1>10. request'[u].at = "idle" /\ \A v \in Human \ {u} : request'[v] = request[v]
    BY <1>1, GotoFacts DEF CreateMatch
  <1>11. \A j \in InviteId : AcceptedAs(j, m) => P = {invites[j].from, invites[j].to}
    BY <1>6
  <1>12. Entitled(u, m)
    BY <1>2, <1>3, InviteEntitles
  <1>13. \A v, n : Entitled(v, n) => (n = m => v \in P)
    BY <1>2, <1>3 DEF Entitled
  <1> HIDE DEF P, i
  <1>14. /\ InvitesSound' /\ PairSound' /\ PlayersSound'
         /\ \A n \in 1..drawn \ {m} : players'[n] = players[n]
         /\ players'[m] # {}
         /\ \A v, n : Entitled(v, n) /\ (n = m => v \in P) => Entitled(v, n)'
    BY <1>5, <1>7, <1>8, <1>11, PlayersStep
  <1>15. \A v, n : Entitled(v, n) => Entitled(v, n)'
    BY <1>13, <1>14
  <1>16. OnlyPlayersKnow'
    <2>1. \A v \in Human : \A n \in told'[v] : Entitled(v, n)'
      BY <1>1, <1>9, <1>12, <1>15 DEF OnlyPlayersKnow
    <2>2. \A v \in Human : queue'[v] # None /\ queue'[v].state = "matched"
             => Entitled(v, queue[v].match)'
      BY <1>1, <1>8, <1>15 DEF OnlyPlayersKnow
    <2>3. \A v \in Human : At(v, "consume")' => Entitled(v, request[v].match)'
      BY <1>1, <1>10, <1>15 DEF OnlyPlayersKnow, At
    <2>4. QED
      BY <2>1, <2>2, <2>3 DEF OnlyPlayersKnow
  <1>17. RequestsSound'
    <2>1. \A v \in Human \ {u} : RequestSound(v)'
      BY <1>8, <1>10 DEF MatchmakingInv, RequestsSound, RequestSound, At, AcceptedAs
    <2>2. RequestSound(u)'
      BY <1>10 DEF RequestSound, At
    <2>3. QED
      BY <2>1, <2>2 DEF RequestsSound
  <1>18. CycleSound'
    BY <1>8, CycleStays DEF MatchmakingInv
  <1>19. PromiseKept'
    <2> SUFFICES ASSUME NEW n \in 1..drawn, n # m
                 PROVE  \/ players'[n] # {}
                        \/ loop' = "create" /\ pair'.match = n
                        \/ \E v \in Human : /\ request'[v].at \in {"takeout", "quit", "create"}
                                            /\ invites'[request'[v].invite].match = n
      BY <1>8, <1>14 DEF PromiseKept
    <2>1. \A v \in Human : invites[request[v].invite].match = n => v # u
      BY <1>4 DEF i
    <2>2. QED
      BY <1>8, <1>10, <1>14, <2>1 DEF MatchmakingInv, PromiseKept
  <1>20. QED
    BY <1>14, <1>16, <1>17, <1>18, <1>19 DEF MatchmakingInv

-----------------------------------------------------------------------------
(* The steps of the matching thread and of the seats.                      *)

\* A step after which queue, requests and who was told what are as before, and
\* the entries that were seen are still the ones that are seen.
LEMMA SameKnowledge ==
    ASSUME MatchmakingInv, TypeOK', NothingDrawn, PairStays, UNCHANGED <<request, told, queue>>,
           CycleSound'
    PROVE  MatchmakingInv'
  <1>1. RequestsAdvance
    BY DEF RequestsAdvance
  <1>2. \A v \in Human, m \in MatchId : Entitled(v, m) => Entitled(v, m)'
    BY EntitledStays
  <1>3. OnlyPlayersKnow'
    BY <1>2, KnowledgeStays DEF MatchmakingInv
  <1>4. QED
    BY <1>1, <1>3, CalmStep

LEMMA CleanUpStep ==
    ASSUME MatchmakingInv, TypeOK', CleanUp
    PROVE  MatchmakingInv'
  <1>1. TypeOK
    BY DEF MatchmakingInv
  <1>2. UNCHANGED <<players, drawn, invites, pairs, pair, found, seen, request, told>>
        /\ loop = "sleep" /\ loop' = "find"
    BY DEF CleanUp, history
  <1>3. NothingDrawn /\ PairStays /\ RequestsAdvance
    BY <1>2, UnchangedSame DEF NothingDrawn, PairStays, RequestsAdvance, InCycle
  <1>4. \A v \in Human : \/ queue'[v] = queue[v] \/ queue'[v] = None \/ queue'[v].state = "waiting"
    <2> SUFFICES ASSUME NEW v \in Human, Waiting(v), ~Stale(v)
                 PROVE  queue'[v].state = "waiting"
      BY DEF CleanUp
    <2>1. queue[v] \in Entry /\ queue[v].state = "waiting"
      BY <1>1 DEF TypeOK, Waiting
    <2>2. queue'[v] = [queue[v] EXCEPT !.age = @ + 1]
      BY DEF CleanUp
    <2>3. QED
      BY <2>1, <2>2 DEF Entry
  <1>5. \A v \in Human, m \in MatchId : Entitled(v, m) => Entitled(v, m)'
    BY <1>3, EntitledStays
  <1>6. OnlyPlayersKnow'
    BY <1>1, <1>2, <1>4, <1>5, KnowledgeStays DEF MatchmakingInv
  <1>7. seen = {}
    BY <1>2 DEF MatchmakingInv, CycleSound, InCycle
  <1>8. CycleSound'
    BY <1>2, <1>7, CycleStays DEF MatchmakingInv, InCycle
  <1>9. QED
    BY <1>3, <1>6, <1>8, CalmStep

LEMMA FindStep ==
    ASSUME MatchmakingInv, TypeOK', FindMatches
    PROVE  MatchmakingInv'
  <1> DEFINE W == {u \in Human : Waiting(u)}
  <1>1. UNCHANGED <<players, drawn, invites, queue, pair, request, told>>
        /\ loop = "find" /\ loop' = "pair" /\ seen' = W /\ found' = pairs'
        /\ pairs' \in Pairings(Candidates(W))
    BY DEF FindMatches, stores
  <1>2. pairs' \subseteq Candidates(W)
    BY <1>1 DEF Pairings
  <1>3. \A c \in Candidates(W) : c \subseteq Human /\ Cardinality(c) = 2 /\ c # {}
    BY FS_EmptySet DEF Candidates, kSubset
  <1>4. NothingDrawn /\ RequestsAdvance
    BY <1>1, UnchangedSame DEF NothingDrawn, RequestsAdvance
  <1>5. InvitesSound' /\ PlayersSound' /\ RequestsSound'
    BY <1>4, InvitesStay, PlayersStay, RequestsStay DEF MatchmakingInv
  <1>6. PairSound'
    BY <1>1, <1>2, <1>3 DEF PairSound
  <1>7. PromiseKept'
    BY <1>1 DEF MatchmakingInv, PromiseKept
  <1>8. OnlyPlayersKnow'
    <2>1. \A v, m : Entitled(v, m) => Entitled(v, m)'
      BY <1>1 DEF Entitled, AcceptedAs
    <2>2. QED
      BY <1>1, <2>1 DEF MatchmakingInv, OnlyPlayersKnow, At
  <1>9. CycleSound'
    <2>1. \A u \in Human : Waiting(u)' <=> Waiting(u)
      BY <1>1 DEF Waiting
    <2>2. \A u \in seen' : queue'[u] # None
      BY <1>1 DEF Waiting
    <2>3. \A c, d \in found' : c # d => c \cap d = {}
      BY <1>1 DEF Pairings
    <2>4. \A d \in found' : d \in pairs' /\ (d \subseteq seen' => \A u \in d : Waiting(u)')
      BY <1>1, <2>1
    <2>5. Candidates({u \in seen : Waiting(u)})' = Candidates(W)
      <3>1. {u \in seen' : Waiting(u)'} = W
        BY <1>1, <2>1
      <3>2. \A u : Allowed(u)' = Allowed(u)
        BY <1>1 DEF Allowed
      <3> HIDE DEF W
      <3>3. QED
        BY <3>1, <3>2 DEF Candidates
    <2>6. \A c \in Candidates(W) : \E d \in found' : d \cap c # {}
      BY <1>1, <1>3 DEF Pairings
    <2>7. QED
      BY <1>1, <2>2, <2>3, <2>4, <2>5, <2>6 DEF CycleSound, InCycle
  <1>10. QED
    BY <1>5, <1>6, <1>7, <1>8, <1>9 DEF MatchmakingInv

LEMMA FlipStep ==
    ASSUME MatchmakingInv, TypeOK', NEW p \in SUBSET Human, FlipPair(p)
    PROVE  MatchmakingInv'
  <1>1. TypeOK /\ OnlyPlayersKnow /\ CycleSound /\ PairSound
    BY DEF MatchmakingInv
  <1>2. p \in pairs /\ pairs' = pairs \ {p} /\ loop = "pair" /\ Cardinality(p) = 2
        /\ UNCHANGED <<invites, players, request, told, seen, found>>
    BY <1>1 DEF FlipPair, history, PairSound
  <1>3. CASE ~StillWaiting(p)
    <2>1. UNCHANGED <<queue, drawn, pair, loop>>
      BY <1>3 DEF FlipPair
    <2>2. NothingDrawn /\ PairStays
      BY <1>2, <2>1, UnchangedSame DEF NothingDrawn, PairStays
    <2>3. CycleSound'
      <3>1. \A u \in Human : Waiting(u)' <=> Waiting(u)
        BY <2>1 DEF Waiting
      <3>2. ~(p \subseteq seen)
        BY <1>1, <1>2, <1>3 DEF CycleSound, InCycle, StillWaiting
      <3>3. \A d \in found : d \subseteq seen =>
               IF d \in pairs' THEN \A u \in d : Waiting(u)' ELSE \A u \in d : ~Waiting(u)'
        BY <1>1, <1>2, <2>1, <3>2 DEF CycleSound, InCycle, Waiting
      <3>4. Candidates({u \in seen : Waiting(u)})' = Candidates({u \in seen : Waiting(u)})
        BY <1>2, <2>1 DEF Candidates, Allowed, Waiting
      <3>5. QED
        BY <1>1, <1>2, <2>1, <3>3, <3>4 DEF CycleSound, InCycle
    <2>4. QED
      BY <1>2, <2>1, <2>2, <2>3, SameKnowledge
  <1>4. CASE StillWaiting(p)
    <2> DEFINE entry(u) == MatchedEntry(CHOOSE o \in p : o # u, NewMatch)
    <2>1. /\ queue' = [u \in Human |-> IF u \in p THEN entry(u) ELSE queue[u]]
          /\ drawn' = NewMatch /\ drawn < MaxMatches /\ loop' = "create"
          /\ pair' = [match |-> NewMatch, users |-> p, left |-> p]
      BY <1>4 DEF FlipPair
    <2>2. \A u : entry(u).state = "matched" /\ entry(u).match = NewMatch
      BY DEF MatchedEntry
    <2> HIDE DEF entry
    <2>3. /\ NewMatch \notin 1..drawn /\ NewMatch \in 1..drawn'
          /\ 1..drawn' = 1..drawn \cup {NewMatch} /\ \A m \in 1..drawn : m # NewMatch
      <3>1. drawn \in Nat
        BY <1>1, BoundAssumption DEF TypeOK
      <3>2. QED
        BY <2>1, <3>1 DEF NewMatch
    <2>4. NewMatch \in MatchId
      BY <1>1, <2>1, BoundAssumption DEF TypeOK, NewMatch, MatchId
    <2>5. players[NewMatch] = {} /\ \A i \in InviteId : ~AcceptedAs(i, NewMatch)
      BY <2>3, <2>4 DEF MatchmakingInv, PlayersSound, InvitesSound, AcceptedAs
    <2>6. \A i \in InviteId : \A m : AcceptedAs(i, m)' <=> AcceptedAs(i, m)
      BY <1>2 DEF AcceptedAs
    <2>7. InvitesSound' /\ PlayersSound'
      BY <1>2, <2>3, <2>6 DEF MatchmakingInv, InvitesSound, PlayersSound
    <2>8. PairSound'
      BY <1>1, <1>2, <2>1, <2>3, <2>5, <2>6 DEF PairSound
    <2>9. RequestsSound'
      <3> SUFFICES ASSUME NEW v \in Human
                   PROVE  RequestSound(v)'
        BY DEF RequestsSound
      <3>1. RequestSound(v)
        BY DEF MatchmakingInv, RequestsSound
      <3>2. request[v].at \in {"takeout", "quit", "create"}
               => \E m \in 1..drawn' : AcceptedAs(request[v].invite, m)'
        <4> SUFFICES ASSUME request[v].at \in {"takeout", "quit", "create"}
                     PROVE  \E m \in 1..drawn' : AcceptedAs(request[v].invite, m)'
          OBVIOUS
        <4>1. request[v].invite \in InviteId
          BY <3>1 DEF RequestSound
        <4>2. PICK m \in 1..drawn : AcceptedAs(request[v].invite, m)
          BY <3>1 DEF RequestSound
        <4>3. m \in 1..drawn' /\ AcceptedAs(request[v].invite, m)'
          BY <1>2, <2>3, <2>6, <4>1, <4>2
        <4>4. QED
          BY <4>3
      <3>3. QED
        BY <1>2, <3>1, <3>2 DEF RequestSound, At, AcceptedAs
    <2>10. OnlyPlayersKnow'
      <3>1. ASSUME NEW v, NEW m, Entitled(v, m)
            PROVE  Entitled(v, m)'
        BY <1>2, <2>1, <2>3, <2>6, <3>1 DEF Entitled
      <3>2. \A v \in Human : queue'[v] # None /\ queue'[v].state = "matched"
               => Entitled(v, queue[v].match)'
        <4>1. \A v \in p : queue'[v].match = NewMatch
          BY <2>1, <2>2
        <4>2. \A v \in Human \ p : queue'[v] = queue[v]
          BY <2>1
        <4>3. ASSUME NEW v \in p, NEW m, m = queue'[v].match
              PROVE  Entitled(v, m)'
          BY <1>2, <2>1, <2>3, <2>5, <2>6, <4>1, <4>3 DEF Entitled
        <4>4. ASSUME NEW v \in Human \ p, queue[v] # None, queue[v].state = "matched"
              PROVE  Entitled(v, queue[v].match)'
          BY <1>1, <3>1, <4>2, <4>4 DEF OnlyPlayersKnow
        <4>5. QED
          BY <4>2, <4>3, <4>4
      <3>3. QED
        BY <1>1, <1>2, <3>1, <3>2 DEF OnlyPlayersKnow, At
    <2>11. CycleSound'
      <3>1. \A u \in p : ~Waiting(u)'
        BY <2>1, <2>2 DEF Waiting
      <3>2. \A u \in Human \ p : queue'[u] = queue[u]
        BY <2>1
      <3>3. \A u \in Human \ p : Waiting(u)' <=> Waiting(u)
        BY <3>2 DEF Waiting
      <3>4. \A d \in found : d # p => d \cap p = {} /\ d \subseteq Human
        BY <1>1, <1>2 DEF CycleSound, InCycle, TypeOK
      <3>5. \A d \in found : d \subseteq seen =>
               IF d \in pairs' THEN \A u \in d : Waiting(u)' ELSE \A u \in d : ~Waiting(u)'
        <4> SUFFICES ASSUME NEW d \in found, d \subseteq seen, d # p
                     PROVE  IF d \in pairs THEN \A u \in d : Waiting(u)'
                                           ELSE \A u \in d : ~Waiting(u)'
          BY <1>2, <3>1
        <4>1. \A u \in d : Waiting(u)' <=> Waiting(u)
          BY <3>3, <3>4
        <4>2. IF d \in pairs THEN \A u \in d : Waiting(u) ELSE \A u \in d : ~Waiting(u)
          BY <1>1, <1>2 DEF CycleSound, InCycle
        <4>3. QED
          BY <4>1, <4>2
      <3>6. \A c \in Candidates({u \in seen : Waiting(u)})' :
               c \in Candidates({u \in seen : Waiting(u)})
        <4> SUFFICES ASSUME NEW c \in SUBSET {u \in seen : Waiting(u)'}, Cardinality(c) = 2,
                            \A u \in c : Gap(c) <= Allowed(u)'
                     PROVE  /\ c \in SUBSET {u \in seen : Waiting(u)}
                            /\ \A u \in c : Gap(c) <= Allowed(u)
          BY <1>2 DEF Candidates, kSubset
        <4>1. c \subseteq Human \ p
          BY <1>1, <3>1 DEF TypeOK
        <4>2. \A u \in c : Waiting(u) /\ Allowed(u)' = Allowed(u)
          BY <3>2, <3>3, <4>1 DEF Allowed
        <4>3. QED
          BY <4>2
      <3>7. \A u \in seen : queue'[u] # None
        <4>1. \A u \in p : queue'[u] # None
          <5>1. \A u \in p : queue'[u] \in Entry
            <6>1. \A u \in p : entry(u) \in Entry
              BY <1>2, <2>4, PairUsers, RangeAssumption DEF entry, MatchedEntry, Entry, User
            <6>2. QED
              BY <2>1, <6>1
          <5>2. QED
            BY <5>1, NoneAssumption
        <4>2. QED
          BY <1>1, <3>2, <4>1 DEF CycleSound, TypeOK
      <3>8. QED
        BY <1>1, <1>2, <2>1, <3>5, <3>6, <3>7 DEF CycleSound, InCycle
    <2>12. PromiseKept'
      <3>1. \A m \in 1..drawn : \/ players'[m] # {}
                                \/ \E v \in Human :
                                      /\ request'[v].at \in {"takeout", "quit", "create"}
                                      /\ invites'[request'[v].invite].match = m
        BY <1>2 DEF MatchmakingInv, PromiseKept
      <3>2. loop' = "create" /\ pair'.match = NewMatch
        BY <2>1
      <3>3. QED
        BY <2>3, <3>1, <3>2 DEF PromiseKept
    <2>13. QED
      BY <2>7, <2>8, <2>9, <2>10, <2>11, <2>12 DEF MatchmakingInv
  <1>5. QED
    BY <1>3, <1>4

LEMMA CreatePairStep ==
    ASSUME MatchmakingInv, TypeOK', CreatePair
    PROVE  MatchmakingInv'
  <1>1. /\ UNCHANGED <<invites, drawn, queue, pairs, pair, seen, found, request, told>>
        /\ players' = [players EXCEPT ![pair.match] = pair.users]
        /\ loop = "create" /\ loop' = "mark"
    BY DEF CreatePair, history
  <1>2. /\ pair.match \in 1..drawn /\ Cardinality(pair.users) = 2
        /\ \A i \in InviteId : ~AcceptedAs(i, pair.match)
    BY <1>1 DEF MatchmakingInv, PairSound
  <1>3. /\ InvitesSound' /\ PairSound' /\ PlayersSound'
        /\ \A n \in 1..drawn \ {pair.match} : players'[n] = players[n]
        /\ players'[pair.match] # {}
        /\ \A v, n : Entitled(v, n) /\ (n = pair.match => v \in pair.users) => Entitled(v, n)'
    BY <1>1, <1>2, PlayersStep
  <1>4. \A v, n : Entitled(v, n) => Entitled(v, n)'
    BY <1>1, <1>3 DEF Entitled
  <1>5. OnlyPlayersKnow'
    BY <1>1, <1>4 DEF MatchmakingInv, OnlyPlayersKnow, At
  <1>6. RequestsSound'
    BY <1>1 DEF MatchmakingInv, RequestsSound, RequestSound, At, AcceptedAs
  <1>7. CycleSound'
    BY <1>1, CycleStays DEF MatchmakingInv, InCycle
  <1>8. PromiseKept'
    BY <1>1, <1>3 DEF MatchmakingInv, PromiseKept
  <1>9. QED
    BY <1>3, <1>5, <1>6, <1>7, <1>8 DEF MatchmakingInv

\* The rest of a cycle: marking, cancelling, and its end.
LEMMA LoopStep ==
    ASSUME MatchmakingInv, TypeOK',
           \/ EndCycle \/ NoHooks
           \/ \E u \in User : MarkPair(u) \/ CancelPair(u)
    PROVE  MatchmakingInv'
  <1>1. TypeOK /\ PairSound /\ CycleSound
    BY DEF MatchmakingInv
  <1>2. CASE EndCycle
    <2>1. UNCHANGED <<players, drawn, invites, queue, request, told>>
          /\ loop = "pair" /\ loop' = "hooks" /\ pairs = {} /\ pairs' = {} /\ seen' = {} /\ found' = {}
      BY <1>2 DEF EndCycle, stores
    <2>2. NothingDrawn /\ PairStays
      BY <2>1, UnchangedSame DEF NothingDrawn, PairStays, InCycle
    <2>3. CycleSound'
      BY <2>1 DEF CycleSound, InCycle
    <2>4. QED
      BY <2>1, <2>2, <2>3, SameKnowledge
  <1>3. CASE NoHooks
    <2>1. UNCHANGED <<players, drawn, invites, queue, request, told, pairs, seen, found>>
          /\ loop = "hooks" /\ loop' = "sleep"
      BY <1>3 DEF NoHooks, stores, history
    <2>2. NothingDrawn /\ PairStays
      BY <2>1, UnchangedSame DEF NothingDrawn, PairStays, InCycle
    <2>3. CycleSound'
      BY <1>1, <2>1, CycleStays DEF InCycle
    <2>4. QED
      BY <2>1, <2>2, <2>3, SameKnowledge
  <1>4. ASSUME NEW u \in User, MarkPair(u)
        PROVE  MatchmakingInv'
    <2>1. UNCHANGED <<players, drawn, invites, queue, request, told, pairs, seen, found>>
          /\ loop = "mark" /\ loop' \in {"mark", "cancel"}
      BY <1>4 DEF MarkPair, stores, history
    <2>2. pair'.users = pair.users
      BY <1>1, <1>4 DEF MarkPair, TypeOK
    <2>3. NothingDrawn /\ PairStays
      BY <2>1, <2>2, UnchangedSame DEF NothingDrawn, PairStays, InCycle
    <2>4. CycleSound'
      BY <1>1, <2>1, CycleStays DEF InCycle
    <2>5. QED
      BY <2>1, <2>3, <2>4, SameKnowledge
  <1>5. ASSUME NEW u \in User, CancelPair(u)
        PROVE  MatchmakingInv'
    <2>1. UNCHANGED <<players, drawn, queue, request, told, pairs, seen, found>>
          /\ loop = "cancel" /\ invites' = Cancelled({u})
      BY <1>5 DEF CancelPair, history
    <2>2. loop' = "pair" \/ (loop' = "cancel" /\ pair'.users = pair.users)
      BY <1>1, <1>5 DEF CancelPair, PairSound, TypeOK
    <2>3. NothingDrawn /\ PairStays
      BY <1>1, <2>1, <2>2, CancelSame DEF NothingDrawn, PairStays, InCycle
    <2>4. CycleSound'
      BY <1>1, <2>1, <2>2, CycleStays DEF InCycle
    <2>5. QED
      BY <2>1, <2>3, <2>4, SameKnowledge
  <1>6. QED
    BY <1>2, <1>3, <1>4, <1>5

LEMMA PlayStep ==
    ASSUME MatchmakingInv, TypeOK', Play
    PROVE  MatchmakingInv'
  <1>1. TypeOK /\ CycleSound
    BY DEF MatchmakingInv
  <1>2. UNCHANGED <<players, drawn, queue, request, told, loop, pairs, pair, seen, found>>
        /\ (UNCHANGED invites \/ \E U : invites' = Cancelled(U))
    BY DEF Play, BeginMatch, TakeSeat, LeaveSeat, stores, thread, progress
  <1>3. NothingDrawn /\ PairStays
    BY <1>1, <1>2, UnchangedSame, CancelSame DEF NothingDrawn, PairStays
  <1>4. CycleSound'
    BY <1>1, <1>2, CycleStays
  <1>5. QED
    BY <1>2, <1>3, <1>4, SameKnowledge

-----------------------------------------------------------------------------
(* The theorems.                                                           *)

LEMMA MatchmakingStep ==
    ASSUME MatchmakingInv, [Next]_vars
    PROVE  MatchmakingInv'
  <1>1. CASE Next
    <2>1. TypeOK'
      BY <1>1, TypeNext DEF MatchmakingInv
    <2>2. ASSUME NEW u \in Human, Ask(u)
          PROVE  MatchmakingInv'
      BY <2>1, <2>2, AskStep, TellStep, AnswerStep DEF Ask
    <2>3. ASSUME NEW u \in Human, Continue(u)
          PROVE  MatchmakingInv'
      BY <2>1, <2>3, ContinueStep, TellStep, AnswerStep, CreateStep DEF Continue
    <2>4. CASE Cycle
      BY <2>1, <2>4, CleanUpStep, FindStep, FlipStep, CreatePairStep, LoopStep DEF Cycle
    <2>5. CASE NoHooks
      BY <2>1, <2>5, LoopStep
    <2>6. CASE Play
      BY <2>1, <2>6, PlayStep
    <2>7. QED
      BY <1>1, <2>2, <2>3, <2>4, <2>5, <2>6 DEF Next
  <1>2. CASE UNCHANGED vars
    <2>1. UNCHANGED <<players, drawn, queue, request, told, loop, pairs, pair, seen, found, invites>>
      BY <1>2 DEF vars, stores, thread, progress
    <2>2. TypeOK'
      BY <1>2 DEF MatchmakingInv, TypeOK, vars, tracker, contact, stores, thread, progress, play
    <2>3. NothingDrawn /\ PairStays /\ CycleSound'
      BY <2>1, UnchangedSame, CycleStays DEF NothingDrawn, PairStays, MatchmakingInv
    <2>4. QED
      BY <2>1, <2>2, <2>3, SameKnowledge
  <1>3. QED
    BY <1>1, <1>2

LEMMA MatchmakingInit == Init => MatchmakingInv
  <1> SUFFICES ASSUME Init PROVE MatchmakingInv
    OBVIOUS
  <1>1. TypeOK
    <2>1. Idle \in Request /\ NoPair \in [match : MatchId \cup {None}, users : SUBSET User,
                                         left : SUBSET User]
      BY DEF Idle, Request, NoPair
    <2>2. status \in [User -> Status] /\ fresh \in [User -> BOOLEAN] /\ heard \subseteq User
      BY DEF Init, Status, User
    <2>3. drawn \in 0..MaxMatches /\ asks \in 0..MaxAsks
      BY BoundAssumption DEF Init
    <2>4. QED
      BY <2>1, <2>2, <2>3 DEF Init, TypeOK
  <1>2. \A u \in Human : request[u].at = "idle" /\ queue[u] = None /\ told[u] = {}
    BY DEF Init, Idle
  <1>3. /\ \A i \in InviteId : invites[i] = None
        /\ \A m \in MatchId : players[m] = {}
    BY DEF Init
  <1>4. loop = "sleep" /\ pairs = {} /\ seen = {} /\ found = {}
    BY DEF Init
  <1>5. RequestsSound /\ OnlyPlayersKnow
    BY <1>2 DEF RequestsSound, RequestSound, OnlyPlayersKnow, At
  <1>6. InvitesSound
    BY <1>3 DEF InvitesSound, AcceptedAs
  <1>7. PairSound /\ CycleSound
    BY <1>4 DEF PairSound, CycleSound, InCycle
  <1>8. PlayersSound /\ PromiseKept
    <2>1. PlayersSound
      BY <1>3 DEF PlayersSound
    <2>2. drawn = 0
      BY DEF Init
    <2>3. PromiseKept
      BY <2>2 DEF PromiseKept
    <2>4. QED
      BY <2>1, <2>3
  <1>9. QED
    BY <1>1, <1>5, <1>6, <1>7, <1>8 DEF MatchmakingInv

\* Every variable keeps its type, and the invariant holds, whatever the handlers,
\* the matching thread and the matches do between any two lock sections.
THEOREM MatchmakingInvariant == Spec => []MatchmakingInv
  <1>1. MatchmakingInv /\ [Next]_vars => MatchmakingInv'
    BY MatchmakingStep
  <1>2. QED
    BY MatchmakingInit, <1>1, PTL DEF Spec

\* ToldIsPlayer: queue_status, respond_invite, send_invite and get_invites tell a
\* match id to none but the two players of that match.
THEOREM OnlyPlayersTold == Spec => []ToldIsPlayer
  <1>1. MatchmakingInv => ToldIsPlayer
    <2> SUFFICES ASSUME MatchmakingInv, NEW u \in Human, NEW m \in told[u], players[m] # {}
                 PROVE  u \in players[m] /\ Cardinality(players[m]) = 2
      BY DEF ToldIsPlayer
    <2>1. Entitled(u, m) /\ m \in MatchId
      BY DEF MatchmakingInv, OnlyPlayersKnow, TypeOK
    <2>2. QED
      BY <2>1 DEF Entitled, MatchmakingInv, PlayersSound
  <1>2. QED
    BY <1>1, MatchmakingInvariant, PTL

\* PromiseKept: between the lock section that draws a match id and create_match,
\* a handler or the matching thread is always on its way to create it.
THEOREM NoIdForgotten == Spec => []PromiseKept
  <1>1. MatchmakingInv => PromiseKept
    BY DEF MatchmakingInv
  <1>2. QED
    BY <1>1, MatchmakingInvariant, PTL

\* NoMissedPair: after a cycle of the matching thread, two users who waited when it
\* looked and could be paired still wait only if a user who was to be paired with
\* one of them left meanwhile.
THEOREM PairsNotMissed == Spec => []NoMissedPair
  <1>1. MatchmakingInv => NoMissedPair
    <2> SUFFICES ASSUME MatchmakingInv, loop = "pair", pairs = {},
                        NEW c \in Candidates({u \in seen : Waiting(u)})
                 PROVE  \E d \in found : d \cap c # {} /\ ~(d \subseteq seen)
      BY DEF NoMissedPair
    <2>1. CycleSound
      BY DEF MatchmakingInv
    <2>2. PICK d \in found : d \cap c # {}
      BY <2>1 DEF CycleSound, InCycle
    <2>3. \A u \in c : Waiting(u)
      BY DEF Candidates, kSubset
    <2>4. ~(d \subseteq seen)
      BY <2>1, <2>2, <2>3 DEF CycleSound, InCycle
    <2>5. QED
      BY <2>2, <2>4
  <1>2. QED
    BY <1>1, MatchmakingInvariant, PTL

LEMMA WaitingToMatched ==
    ASSUME MatchmakingInv, Next, NEW u \in Human,
           queue'[u] # None, queue'[u].state = "matched", queue'[u] # queue[u]
    PROVE  Waiting(u)
  <1>1. TypeOK
    BY DEF MatchmakingInv
  <1>2. ASSUME NEW v \in Human, Ask(v) \/ Continue(v)
        PROVE  FALSE
    <2>1. \A U : Leave(U) => queue'[u] \in {None, queue[u]}
      BY DEF Leave
    <2>2. CASE JoinEnter(v)
      <3>1. v = u /\ queue'[u] = [state |-> "waiting", match |-> None, opponent |-> None, age |-> 0]
        BY <1>1, <2>2 DEF JoinEnter, TypeOK
      <3>2. QED
        BY <3>1
    <2>3. ASSUME NEW U, Leave(U)
          PROVE  FALSE
      BY <2>1, <2>3
    <2>4. queue' # queue
      OBVIOUS
    <2>5. QED
      BY <1>2, <2>2, <2>3, <2>4 DEF Ask, Continue, FallSilent, Heartbeat, Join, LeaveQueue,
           ReadStatus, SendInvite, Respond, PollInvites, JoinMark, LeaveMark, ConsumeMatch,
           SeekReverse, AcceptReverse, TakeOut, Offer, Quit, CreateMatch, stores
  <1>3. CASE CleanUp
    <2>1. Waiting(u) /\ ~Stale(u) => queue'[u] = [queue[u] EXCEPT !.age = @ + 1]
      BY <1>3 DEF CleanUp
    <2>2. ~Waiting(u) => queue'[u] \in {None, queue[u]}
      BY <1>3 DEF CleanUp
    <2>3. QED
      BY <2>2
  <1>4. ASSUME NEW p \in SUBSET Human, FlipPair(p)
        PROVE  Waiting(u)
    BY <1>4 DEF FlipPair, StillWaiting
  <1>5. queue' # queue
    OBVIOUS
  <1>6. CASE Cycle
    BY <1>3, <1>4, <1>5, <1>6 DEF Cycle, FindMatches, CreatePair, EndCycle, MarkPair, CancelPair, stores
  <1>7. CASE Play \/ NoHooks
    BY <1>5, <1>7 DEF Play, NoHooks, BeginMatch, TakeSeat, LeaveSeat, stores
  <1>8. QED
    BY <1>2, <1>6, <1>7 DEF Next

\* A user with a request under way is fresh, a fresh user was heard of, and from the
\* cleanup to the end of the cycle so was whoever waits.
HeardInv ==
    /\ \A u \in Human : request[u] # Idle => fresh[u]
    /\ \A u \in Human : fresh[u] => u \in heard
    /\ loop # "sleep" => \A u \in Human : Waiting(u) => u \in heard

\* Steps that leave entries and the loop alone, or only take entries away.
LEMMA HeardStays ==
    ASSUME HeardInv, heard \subseteq heard', loop' = loop \/ loop' = "sleep" \/ loop # "sleep",
           \A u \in Human : queue'[u] # None /\ queue'[u].state = "waiting" => Waiting(u) \/ u \in heard',
           \A u \in Human : request'[u] # Idle => fresh'[u],
           \A u \in Human : fresh'[u] => fresh[u] \/ u \in heard'
    PROVE  HeardInv'
  BY DEF HeardInv, Waiting, Idle

LEMMA HeardAsk ==
    ASSUME TypeOK, HeardInv, NEW u \in Human, Ask(u)
    PROVE  HeardInv'
  <1>1. loop' = loop
    BY DEF Ask, FallSilent, Heartbeat, Join, LeaveQueue, ReadStatus, SendInvite, Respond,
           PollInvites, thread, progress
  <1>2. \A v \in Human : queue'[v] # None => queue'[v] = queue[v]
    BY DEF Ask, FallSilent, Heartbeat, Join, LeaveQueue, ReadStatus, SendInvite, Respond,
           PollInvites, stores, Leave
  <1>3. \/ FallSilent(u)
        \/ Touch(u) /\ \A v \in Human \ {u} : request'[v] = request[v]
    BY DEF Ask, Heartbeat, Join, LeaveQueue, ReadStatus, SendInvite, Respond, PollInvites,
           Goto, TypeOK
  <1>4. CASE FallSilent(u)
    <2>1. heard' = heard /\ request' = request /\ request[u] = Idle
      BY <1>4 DEF FallSilent
    <2>2. \A v \in Human \ {u} : fresh'[v] = fresh[v]
      BY <1>4 DEF FallSilent, TypeOK
    <2>3. fresh'[u] = FALSE
      BY <1>4 DEF FallSilent, TypeOK, User
    <2>4. QED
      BY <1>1, <1>2, <2>1, <2>2, <2>3, HeardStays DEF HeardInv, Waiting
  <1>5. CASE Touch(u) /\ \A v \in Human \ {u} : request'[v] = request[v]
    <2>1. fresh'[u] /\ heard' = heard \cup {u}
      BY <1>5 DEF Touch, TypeOK, User
    <2>2. \A v \in Human \ {u} : fresh'[v] = fresh[v]
      BY <1>5 DEF Touch, TypeOK
    <2>3. QED
      BY <1>1, <1>2, <1>5, <2>1, <2>2, HeardStays DEF HeardInv, Waiting
  <1>6. QED
    BY <1>3, <1>4, <1>5

LEMMA HeardContinue ==
    ASSUME TypeOK, HeardInv, NEW u \in Human, Continue(u)
    PROVE  HeardInv'
  <1>1. loop' = loop /\ fresh' = fresh /\ heard' = heard
    BY DEF Continue, JoinEnter, JoinMark, LeaveMark, ConsumeMatch, SeekReverse, AcceptReverse,
           TakeOut, Offer, Quit, CreateMatch, thread, progress, tracker, contact
  <1>2. request[u] # Idle /\ \A v \in Human \ {u} : request'[v] = request[v]
    BY DEF Continue, JoinEnter, JoinMark, LeaveMark, ConsumeMatch, SeekReverse, AcceptReverse,
           TakeOut, Offer, Quit, CreateMatch, At, Goto, Idle, TypeOK
  <1>3. fresh[u] /\ u \in heard
    BY <1>2 DEF HeardInv
  <1>4. \A v \in Human \ {u} : queue'[v] # None => queue'[v] = queue[v]
    BY DEF Continue, JoinEnter, JoinMark, LeaveMark, ConsumeMatch, SeekReverse, AcceptReverse,
           TakeOut, Offer, Quit, CreateMatch, Leave, stores, TypeOK
  <1>5. QED
    BY <1>1, <1>2, <1>3, <1>4, HeardStays DEF HeardInv, Waiting

LEMMA HeardCycle ==
    ASSUME TypeOK, HeardInv, Cycle \/ NoHooks \/ Play
    PROVE  HeardInv'
  <1>1. CASE CleanUp
    <2>1. heard' = {u \in User : fresh[u]} /\ UNCHANGED <<fresh, request>>
      BY <1>1 DEF CleanUp
    <2>2. \A u \in Human : queue'[u] # None /\ queue'[u].state = "waiting" => fresh[u]
      <3>1. \A u \in Human : ~Waiting(u) => queue'[u] = queue[u]
        BY <1>1 DEF CleanUp, Stale
      <3>2. \A u \in Human : Stale(u) => queue'[u] = None
        BY <1>1 DEF CleanUp
      <3>3. QED
        BY <3>1, <3>2 DEF Stale, Active, Waiting
    <2>3. QED
      BY <2>1, <2>2 DEF HeardInv, Waiting, User, Idle
  <1>2. ASSUME NEW p \in SUBSET Human, FlipPair(p)
        PROVE  HeardInv'
    <2>1. /\ UNCHANGED <<fresh, heard, request>> /\ loop # "sleep"
          /\ \A u \in Human : queue'[u] # None /\ queue'[u].state = "waiting" => queue'[u] = queue[u]
      BY <1>2 DEF FlipPair, MatchedEntry, tracker, contact
    <2>2. QED
      BY <2>1, HeardStays DEF HeardInv, Waiting
  <1>3. CASE ~CleanUp /\ ~\E p \in SUBSET Human : FlipPair(p)
    <2>1. /\ UNCHANGED <<queue, fresh, heard, request>>
          /\ loop' = loop \/ loop' = "sleep" \/ loop # "sleep"
      BY <1>3 DEF Cycle, FindMatches, CreatePair, EndCycle, NoHooks, MarkPair, CancelPair,
                  Play, BeginMatch, TakeSeat, LeaveSeat, stores, thread, progress, tracker,
                  contact
    <2>2. QED
      BY <2>1, HeardStays DEF HeardInv, Waiting
  <1>4. QED
    BY <1>1, <1>2, <1>3

LEMMA HeardAlways == Spec => []HeardInv
  <1>1. Init => HeardInv
    BY DEF Init, HeardInv, Waiting, User
  <1>2. MatchmakingInv /\ HeardInv /\ [Next]_vars => HeardInv'
    <2> SUFFICES ASSUME MatchmakingInv, HeardInv, [Next]_vars PROVE HeardInv'
      OBVIOUS
    <2>1. TypeOK
      BY DEF MatchmakingInv
    <2>2. CASE Next
      BY <2>1, <2>2, HeardAsk, HeardContinue, HeardCycle DEF Next
    <2>3. CASE UNCHANGED vars
      BY <2>3 DEF vars, tracker, contact, stores, thread, progress, HeardInv, Waiting, Idle
    <2>4. QED
      BY <2>2, <2>3
  <1>3. QED
    BY <1>1, <1>2, MatchmakingInvariant, PTL DEF Spec

LEMMA MatchedInCycle ==
    ASSUME MatchmakingInv, HeardInv, Next, NEW u \in Human,
           Waiting(u), queue'[u] # None, queue'[u].state = "matched"
    PROVE  u \in heard
  <1>1. queue'[u] # queue[u] /\ queue' # queue
    BY DEF Waiting
  <1>2. ASSUME NEW v \in Human, Ask(v) \/ Continue(v)
        PROVE  FALSE
    <2>1. TypeOK
      BY DEF MatchmakingInv
    <2>2. CASE JoinEnter(v)
      BY <1>1, <2>1, <2>2 DEF JoinEnter, TypeOK
    <2>3. ASSUME NEW U, Leave(U)
          PROVE  FALSE
      BY <1>1, <2>3 DEF Leave
    <2>4. QED
      BY <1>1, <1>2, <2>2, <2>3 DEF Ask, Continue, FallSilent, Heartbeat, Join, LeaveQueue,
           ReadStatus, SendInvite, Respond, PollInvites, JoinMark, LeaveMark, ConsumeMatch,
           SeekReverse, AcceptReverse, TakeOut, Offer, Quit, CreateMatch, stores
  <1>3. CASE CleanUp
    <2>1. queue'[u] \in {None, [queue[u] EXCEPT !.age = @ + 1]}
      BY <1>3 DEF CleanUp
    <2>2. queue[u] \in Entry /\ queue[u].state = "waiting"
      BY DEF MatchmakingInv, TypeOK, Waiting
    <2>3. QED
      BY <2>1, <2>2 DEF Entry
  <1>4. ASSUME NEW p \in SUBSET Human, FlipPair(p)
        PROVE  u \in heard
    <2>1. loop # "sleep"
      BY <1>4 DEF FlipPair
    <2>2. QED
      BY <2>1 DEF HeardInv
  <1>5. CASE Cycle
    BY <1>1, <1>3, <1>4, <1>5 DEF Cycle, FindMatches, CreatePair, EndCycle, MarkPair, CancelPair, stores
  <1>6. CASE Play \/ NoHooks
    BY <1>1, <1>6 DEF Play, NoHooks, BeginMatch, TakeSeat, LeaveSeat, stores
  <1>7. QED
    BY <1>2, <1>5, <1>6 DEF Next

\* MatchedArePresent: _create_match_for_pair flips only entries that still wait, whose
\* users the tracker had heard of within the timeout when _cleanup_stale ran, or since; and
\* no other step makes a matched entry of anything or gives one to another match.
THEOREM OnlyPresentMatched == Spec => MatchedArePresent
  <1>1. MatchmakingInv /\ HeardInv /\ [Next]_vars =>
           [\A u \in Human :
               queue'[u] # None /\ queue'[u].state = "matched" /\ queue'[u] # queue[u]
                  => Waiting(u) /\ u \in heard]_vars
    BY WaitingToMatched, MatchedInCycle
  <1>2. QED
    BY <1>1, MatchmakingInvariant, HeardAlways, PTL DEF Spec, MatchedArePresent

LEMMA AnswerStays ==
    ASSUME MatchmakingInv, Next, NEW i \in InviteId,
           invites[i] # None, invites[i].state # "pending"
    PROVE  invites'[i] = invites[i]
  <1>1. TypeOK
    BY DEF MatchmakingInv
  <1>2. ~Pending(i)
    BY DEF Pending
  <1>3. \A U : Cancelled(U)[i] = invites[i]
    BY <1>2 DEF Cancelled
  <1>4. \A j \in InviteId : Pending(j) => Accepted(j)[i] = invites[i]
    BY <1>1, <1>2 DEF Accepted, TypeOK
  <1>5. ASSUME NEW u \in Human, Ask(u) \/ Continue(u)
        PROVE  invites'[i] = invites[i]
    <2>1. CASE AcceptReverse(u)
      <3>1. request[u].invite \in InviteId
        BY <2>1 DEF AcceptReverse, At, MatchmakingInv, RequestsSound, RequestSound
      <3>2. QED
        BY <1>4, <2>1, <3>1 DEF AcceptReverse
    <2>2. CASE Offer(u)
      BY <1>1, <2>2 DEF Offer, TypeOK
    <2>3. ASSUME NEW j \in InviteId, NEW accept \in BOOLEAN, Respond(u, j, accept)
          PROVE  invites'[i] = invites[i]
      <3>1. j # i
        BY <1>2, <2>3 DEF Respond
      <3>2. QED
        BY <1>1, <1>4, <2>3, <3>1 DEF Respond, TypeOK
    <2>4. QED
      BY <1>5, <2>1, <2>2, <2>3 DEF Ask, Continue, FallSilent, Heartbeat, Join, LeaveQueue,
           ReadStatus, SendInvite, PollInvites, JoinEnter, JoinMark, LeaveMark, ConsumeMatch,
           SeekReverse, TakeOut, Quit, CreateMatch, stores
  <1>6. CASE Cycle
    BY <1>3, <1>6 DEF Cycle, CleanUp, FindMatches, CreatePair, EndCycle, FlipPair, MarkPair,
                      CancelPair, stores
  <1>7. CASE Play \/ NoHooks
    BY <1>3, <1>7 DEF Play, NoHooks, BeginMatch, TakeSeat, LeaveSeat, stores
  <1>8. QED
    BY <1>5, <1>6, <1>7 DEF Next

\* AnswerIsFinal: of an acceptance, a rejection and the cancellations that race for
\* a pending invite, the first settles it for good.
THEOREM InvitesAnsweredOnce == Spec => AnswerIsFinal
  <1>1. MatchmakingInv /\ [Next]_vars =>
           [\A i \in InviteId : invites[i] # None /\ invites[i].state # "pending"
               => invites'[i] = invites[i]]_vars
    BY AnswerStays
  <1>2. QED
    BY <1>1, MatchmakingInvariant, PTL DEF Spec, AnswerIsFinal
=============================================================================

----------------------------- MODULE RatingProofs -----------------------------
(***************************************************************************)
(* For any players, games, bots, failures and restarts: the ratings are    *)
(* serial, a server knows its bots by their accounts, and the record of a  *)
(* pair has each counted game once.                                        *)
(*                                                                         *)
(* That every step of BotSeeding is a step of RatingLedger, or leaves its  *)
(* variables alone, rests on what the row locks are for: what a game has   *)
(* read is still in the table when it commits.                             *)
(***************************************************************************)
EXTENDS BotSeeding, FiniteSetTheorems, TLAPS

-----------------------------------------------------------------------------
(* elo.py.                                                                 *)

LEMMA GainRange ==
    ASSUME NEW lead \in Int
    PROVE  Gain(lead) \in 0..K_FACTOR
  <1> DEFINE S == {k \in 1..32 : lead <= Margins[k]}
  <1>1. 1 \in Int /\ 32 \in Int /\ ~(1 > 32) /\ 32 - 1 + 1 = 32
    OBVIOUS
  <1>2. IsFiniteSet(1..32) /\ Cardinality(1..32) = 32
    BY <1>1, FS_Interval
  <1>3. Cardinality(S) \in Nat /\ Cardinality(S) <= 32
    BY <1>2, FS_Subset, FS_CardinalityType
  <1>4. QED
    BY <1>3 DEF Gain, K_FACTOR

-----------------------------------------------------------------------------
(* The inductive invariant.                                                *)

\* What a handler has read is the row it holds.
Holds(g, side) == /\ locks[player[g][side]] = g
                  /\ seen[g][side] = Row(player[g][side]).rating
ReadsHeld(g) == /\ step[g] = "lock second" => Holds(g, first[g])
                /\ step[g] = "write" => \A side \in Side : Holds(g, side)

\* A handler that has yet to rate its game, or is at it, has not rated it.
Unrated(g) ==
    /\ step[g] \in Rating \cup {"play"} => applied[g] = None /\ rest[g] # "insert winner"
    /\ rest[g] = "insert winner" => applied[g] = None

HandlersInv == \A g \in Games : ReadsHeld(g) /\ Unrated(g)

\* A seeding without --force holds only rows it makes.
SeedHolds ==
    \A id \in Ids : locks[id] = Seeder =>
        /\ seed.pc \in {"ratings", "commit"}
        /\ \E b \in Bot : seed.ids[b] = id
        /\ seed.force \/ elo[id] = None

\* No handler is at work while the server is not, no seeding while the container
\* is down, and the server starts with the file the seeding wrote.
PhaseInv == /\ phase # "up" => \A g \in Games : step[g] \in {"play", "done"}
            /\ phase = "down" => seed.pc = "off"
            /\ phase = "starting" => mapping \in [Bot -> Ids \cup {None}]

SeedLeft == seed.pc \in {"accounts", "ratings"} => seed.left # <<>>

IInv == /\ TypeOK /\ HandlersInv /\ SeedHolds /\ PhaseInv /\ SeedLeft
        /\ ToldIsApplied

USE DEF Side, Tx, Step, Rating, Inserting, Locking, Rows

-----------------------------------------------------------------------------
(* Facts about rows and locks.                                             *)

LEMMA RowType ==
    ASSUME TypeOK, NEW id \in Ids
    PROVE  Row(id) \in Rows
  <1>1. elo[id] \in Rows \cup {None}
    BY DEF TypeOK
  <1>2. NewRow \in Rows
    BY DEF NewRow, DEFAULT_RATING
  <1>3. QED
    BY <1>1, <1>2 DEF Row

LEMMA CountedType ==
    ASSUME NEW row \in Rows, NEW r \in Int
    PROVE  /\ [row EXCEPT !.rating = r, !.wins = @ + 1] \in Rows
           /\ [row EXCEPT !.rating = r, !.losses = @ + 1] \in Rows
  <1>1. row.wins + 1 \in Nat /\ row.losses + 1 \in Nat
    OBVIOUS
  <1>2. \A n \in Nat : /\ [row EXCEPT !.rating = r, !.wins = n] \in Rows
                      /\ [row EXCEPT !.rating = r, !.losses = n] \in Rows
    OBVIOUS
  <1>3. QED
    BY <1>1, <1>2

LEMMA RatingsType ==
    ASSUME NEW w \in Int, NEW l \in Int
    PROVE  Raised(w, l) \in Int /\ Lowered(w, l) \in Int
  BY GainRange DEF Raised, Lowered, K_FACTOR

\* The row a handler seeks is that of a player.
LEMMA WantedType ==
    ASSUME TypeOK, NEW g \in Games, step[g] \in Inserting \cup Locking
    PROVE  WantedSide(g) \in Side /\ Wanted(g) \in Ids
  BY DEF TypeOK, WantedSide, Wanted, OtherSide

\* A handler that need not wait for a row it locks takes it from nobody.
LEMMA FreeToLock ==
    ASSUME NEW g \in Games, GameWaitsFor(g) = None, TypeOK,
           step[g] \in Inserting \cup Locking
    PROVE  /\ step[g] \in Locking => locks[Wanted(g)] \in {None, g}
           /\ step[g] \in Inserting /\ elo[Wanted(g)] = None
                => locks[Wanted(g)] \in {None, g}
  BY DEF GameWaitsFor, HeldByOther, Unsettled

LEMMA SeedFreeToLock ==
    ASSUME SeedWaitsFor = None, seed.pc = "ratings", Writes(seed.ids[Current])
    PROVE  locks[seed.ids[Current]] \in {None, Seeder}
  BY DEF SeedWaitsFor, HeldByOther, Writes

LEMMA ReleasedType ==
    ASSUME TypeOK, NEW t
    PROVE  /\ Released(t) \in [Ids -> Tx \cup {None}]
           /\ \A id \in Ids : /\ Released(t)[id] \in {locks[id], None}
                              /\ locks[id] # t => Released(t)[id] = locks[id]
                              /\ Released(t)[id] = t => t = None
  BY DEF Released, TypeOK

LEMMA BotOrderType == BotOrder \in Seq(Bot) /\ BotOrder # <<>>
  BY RatingsAssumption

\* One turn of a loop of seed().
LEMMA AdvanceType ==
    ASSUME NEW s \in Seeding, s.left # <<>>, NEW pc \in {"ratings", "commit"}
    PROVE  /\ Head(s.left) \in Bot
           /\ Advance(s, pc) \in Seeding
           /\ Advance(s, pc).left # <<>>
           /\ Advance(s, pc).ids = s.ids /\ Advance(s, pc).force = s.force
           /\ Advance(s, pc).pc \in {s.pc, pc}
  <1>1. Head(s.left) \in Bot /\ Tail(s.left) \in Seq(Bot)
    BY DEF Seeding
  <1>2. CASE Tail(s.left) # <<>>
    BY <1>1, <1>2 DEF Seeding, Advance
  <1>3. CASE Tail(s.left) = <<>>
    BY <1>1, <1>3, BotOrderType DEF Seeding, Advance
  <1>4. QED
    BY <1>2, <1>3

-----------------------------------------------------------------------------
(* Each action preserves the invariant.                                    *)

HandlersTyped ==
    /\ step \in [Games -> Step]
    /\ rest \in [Games -> {"score", "insert winner", "done"}]
    /\ player \in [Games -> [Side -> Ids] \cup {None}]
    /\ \A g \in Games : step[g] # "play" => player[g] \in [Side -> Ids]
    /\ first \in [Games -> Side]
    /\ seen \in [Games -> [Side -> Int \cup {None}]]
    /\ told \in [Games -> Answer \cup {None}]
    /\ applied \in [Games -> Answer \cup {None}]
    /\ locks \in [Ids -> Tx \cup {None}]
    /\ elo \in [Ids -> Rows \cup {None}]

LEMMA Typed == IInv => HandlersTyped /\ HandlersInv
  BY DEF IInv, TypeOK, HandlersTyped

\* A handler that does nothing and keeps its rows.
Still(k) == /\ step'[k] = step[k] /\ rest'[k] = rest[k] /\ player'[k] = player[k]
            /\ first'[k] = first[k] /\ seen'[k] = seen[k] /\ applied'[k] = applied[k]
            /\ \A id \in Ids : locks[id] = k => locks'[id] = k /\ elo'[id] = elo[id]

LEMMA StillInv ==
    ASSUME IInv, NEW k \in Games, Still(k)
    PROVE  ReadsHeld(k)' /\ Unrated(k)'
  <1>1. step[k] # "play" => \A side \in Side : player[k][side] \in Ids
    BY DEF IInv, TypeOK
  <1>2. ReadsHeld(k) /\ Unrated(k) /\ first[k] \in Side
    BY DEF IInv, HandlersInv, TypeOK
  <1>3. ASSUME NEW side \in Side, step[k] # "play", Holds(k, side)
        PROVE  Holds(k, side)'
    BY <1>1, <1>3 DEF Holds, Row, Still
  <1>4. QED
    BY <1>2, <1>3 DEF ReadsHeld, Unrated, Still

\* The handlers when the rows, the locks and their state stay.
LEMMA HandlersAlone ==
    ASSUME IInv, UNCHANGED <<elo, locks, handler, applied>>
    PROVE  HandlersInv' /\ ToldIsApplied'
  <1>1. ASSUME NEW k \in Games PROVE ReadsHeld(k)' /\ Unrated(k)'
    BY StillInv DEF Still, handler
  <1>2. QED
    BY <1>1 DEF IInv, HandlersInv, ToldIsApplied, handler

LEMMA InitInv == Init => IInv
  <1> SUFFICES ASSUME Init
               PROVE  IInv
    OBVIOUS
  <1>1. TypeOK
    <2>1. accounts \in [Name -> Ids \cup {None}]
      <3>1. /\ NoAccounts \in [Name -> Ids \cup {None}]
            /\ UsersOnly \in [Name -> Ids \cup {None}]
            /\ FirstIds \in [Name -> Ids \cup {None}]
        BY FirstIdsAssumption, NameAssumption DEF NoAccounts, UsersOnly
      <3>2. ASSUME NEW c \in Namesakes
            PROVE  UsersAnd(c[1], c[2]) \in [Name -> Ids \cup {None}]
        <4>1. c[1] \in Human /\ FirstIds[c[1]] \in Ids
          BY NamesakeAssumption, FirstIdsAssumption, NameAssumption
        <4>2. QED
          BY <3>1, <4>1 DEF UsersAnd
      <3>3. QED
        BY <3>1, <3>2 DEF Init
    <2>2. /\ elo \in [Ids -> Rows \cup {None}] /\ session \in [Human -> Ids]
      BY FirstIdsAssumption, NameAssumption DEF Init, NewRow, DEFAULT_RATING
    <2>3. mapping \in [Bot -> Ids \cup {None}] \cup {None}
      BY FirstIdsAssumption, NameAssumption DEF Init
    <2>4. seed \in Seeding
      BY DEF Init, Idle, Seeding, NoIds
    <2>5. h2h \in [Pairs -> [player1_wins : Nat, player2_wins : Nat]]
      BY DEF Init, RatingInit
    <2>6. seen \in [Games -> [Side -> Int \cup {None}]]
      BY DEF Init, RatingInit, NothingSeen
    <2>7. /\ locks \in [Ids -> Tx \cup {None}]
          /\ step \in [Games -> Step]
          /\ player \in [Games -> [Side -> Ids] \cup {None}]
          /\ \A g \in Games : step[g] # "play" => player[g] \in [Side -> Ids]
          /\ rest \in [Games -> {"score", "insert winner", "done"}]
          /\ first \in [Games -> Side]
          /\ told \in [Games -> Answer \cup {None}] /\ applied \in [Games -> Answer \cup {None}]
          /\ scored \subseteq Games
      BY DEF Init, RatingInit
    <2>8. /\ served \in [Bot -> Ids \cup {None}]
          /\ phase \in {"down", "seeding", "starting", "up"}
          /\ rare \in 0..MaxRare /\ epoch \in Nat
      BY BoundAssumption DEF Init, NoIds
    <2>9. schema \in BOOLEAN /\ rivals \in Pairings
      BY DEF Init
    <2>10. QED
      BY <2>1, <2>2, <2>3, <2>4, <2>5, <2>6, <2>7, <2>8, <2>9 DEF TypeOK
  <1>2. HandlersInv /\ ToldIsApplied
    BY DEF Init, RatingInit, HandlersInv, ReadsHeld, Unrated, ToldIsApplied
  <1>3. SeedHolds
    BY TxAssumption DEF Init, RatingInit, SeedHolds
  <1>4. PhaseInv /\ SeedLeft
    BY DEF Init, RatingInit, PhaseInv, SeedLeft, Idle
  <1>5. QED
    BY <1>1, <1>2, <1>3, <1>4 DEF IInv

LEMMA EndGameInv == ASSUME IInv, NEW g \in Games, EndGame(g) PROVE IInv'
  <1>1. PICK w \in Ids, l \in Ids, reason \in {"completed", "left"} :
            Finish(g, w, l, reason)
    BY DEF EndGame
  <1>2. /\ phase = "up" /\ UNCHANGED <<schema, mapping, phase, served, session, seed,
                                       rivals, epoch, rare>>
    BY DEF EndGame, OthersUnchanged
  <1>3. UNCHANGED <<accounts, elo, h2h, locks, first, seen, told, applied, scored>>
    BY <1>1 DEF Finish, tables
  <1>4. /\ step[g] = "play"
        /\ \/ /\ step' = [step EXCEPT ![g] = "insert winner"]
              /\ rest' = [rest EXCEPT ![g] = "score"]
           \/ /\ step' = [step EXCEPT ![g] = "score"]
              /\ rest' = [rest EXCEPT ![g] = "insert winner"]
    BY <1>1 DEF Finish
  <1>5. player' = [player EXCEPT ![g] = [winner |-> w, loser |-> l]]
    BY <1>1 DEF Finish
  <1>6. TypeOK'
    <2>1. /\ step' \in [Games -> Step]
          /\ rest' \in [Games -> {"score", "insert winner", "done"}]
      BY <1>4 DEF IInv, TypeOK
    <2>2. [winner |-> w, loser |-> l] \in [Side -> Ids]
      OBVIOUS
    <2>3. /\ player' \in [Games -> [Side -> Ids] \cup {None}]
          /\ \A k \in Games : step'[k] # "play" => player'[k] \in [Side -> Ids]
      BY <1>4, <1>5, <2>2 DEF IInv, TypeOK
    <2>4. QED
      BY <1>2, <1>3, <2>1, <2>3 DEF IInv, TypeOK
  <1>7. HandlersInv'
    <2>1. ReadsHeld(g)'
      BY <1>4, Typed DEF HandlersTyped, ReadsHeld
    <2>2. Unrated(g)'
      <3>1. applied[g] = None
        <4>1. Unrated(g)
          BY Typed DEF HandlersInv
        <4>2. step[g] = "play"
          BY <1>4
        <4>3. QED
          BY <4>1, <4>2 DEF Unrated
      <3>2. \/ step'[g] = "insert winner" /\ rest'[g] = "score"
            \/ step'[g] = "score" /\ rest'[g] = "insert winner"
        BY <1>4, Typed DEF HandlersTyped
      <3>3. applied'[g] = None
        BY <3>1, <1>3
      <3>4. QED
        BY <3>2, <3>3 DEF Unrated
    <2>3. ASSUME NEW k \in Games, k # g PROVE Still(k)
      BY <1>3, <1>4, <1>5, <2>3, Typed DEF HandlersTyped, Still
    <2>4. QED
      BY <2>1, <2>2, <2>3, StillInv DEF HandlersInv
  <1>8. SeedHolds' /\ PhaseInv' /\ SeedLeft' /\ ToldIsApplied'
    BY <1>2, <1>3 DEF IInv, SeedHolds, PhaseInv, SeedLeft, ToldIsApplied
  <1>9. QED
    BY <1>6, <1>7, <1>8 DEF IInv

\* What a step of the handler of game g leaves alone.
LEMMA HandlerInv ==
    ASSUME IInv, NEW g \in Games, step[g] \notin {"play", "done"}, TypeOK',
           UNCHANGED <<phase, seed, player>>,
           ReadsHeld(g)', Unrated(g)', told'[g] # None => told'[g] = applied'[g],
           \A k \in Games \ {g} :
                /\ step'[k] = step[k] /\ rest'[k] = rest[k] /\ first'[k] = first[k]
                /\ seen'[k] = seen[k] /\ told'[k] = told[k] /\ applied'[k] = applied[k],
           \A id \in Ids :
                /\ locks[id] \notin {None, g} => locks'[id] = locks[id] /\ elo'[id] = elo[id]
                /\ locks'[id] = Seeder => locks[id] = Seeder
    PROVE  IInv'
  <1>1. ASSUME NEW k \in Games \ {g} PROVE ReadsHeld(k)' /\ Unrated(k)'
    <2>1. Still(k)
      BY TxAssumption DEF Still
    <2>2. QED
      BY <2>1, StillInv
  <1>2. HandlersInv'
    BY <1>1 DEF HandlersInv
  <1>3. SeedHolds'
    BY TxAssumption DEF IInv, SeedHolds
  <1>4. phase = "up"
    BY DEF IInv, PhaseInv
  <1>5. PhaseInv' /\ SeedLeft'
    BY <1>4 DEF IInv, PhaseInv, SeedLeft
  <1>6. ToldIsApplied'
    BY DEF IInv, ToldIsApplied
  <1>7. QED
    BY <1>2, <1>3, <1>5, <1>6 DEF IInv

LEMMA RareType ==
    ASSUME IInv, UNCHANGED rare \/ Rare
    PROVE  rare' \in 0..MaxRare
  <1>1. rare \in 0..MaxRare
    BY DEF IInv, TypeOK
  <1>2. QED
    BY <1>1, BoundAssumption DEF Rare

\* The types, when a handler has moved.
LEMMA HandlerTypes ==
    ASSUME IInv, UNCHANGED <<accounts, player, schema, mapping, phase, served, session,
                             seed, rivals, epoch>>,
           rare' \in 0..MaxRare,
           elo' \in [Ids -> Rows \cup {None}],
           h2h' \in [Pairs -> [player1_wins : Nat, player2_wins : Nat]],
           locks' \in [Ids -> Tx \cup {None}], step' \in [Games -> Step],
           \A k \in Games : step[k] = "play" => step'[k] = "play",
           rest' \in [Games -> {"score", "insert winner", "done"}],
           first' \in [Games -> Side], seen' \in [Games -> [Side -> Int \cup {None}]],
           told' \in [Games -> Answer \cup {None}],
           applied' \in [Games -> Answer \cup {None}], scored' \subseteq Games
    PROVE  TypeOK'
  <1>1. \A k \in Games : step'[k] # "play" => player'[k] \in [Side -> Ids]
    BY DEF IInv, TypeOK
  <1>2. QED
    BY <1>1 DEF IInv, TypeOK

LEMMA InsertRowInv ==
    ASSUME IInv, NEW g \in Games, InsertRow(g), OthersUnchanged, UNCHANGED rare
    PROVE  IInv'
  <1> DEFINE id == Wanted(g)
  <1>1. /\ step[g] \in Inserting /\ GameWaitsFor(g) = None
        /\ UNCHANGED <<accounts, elo, h2h, rest, player, seen, told, applied, scored>>
    BY DEF InsertRow, tables
  <1>2. id \in Ids /\ (elo[id] = None => locks[id] \in {None, g})
    BY <1>1, WantedType, FreeToLock DEF IInv
  <1>3. locks' = IF elo[id] = None THEN [locks EXCEPT ![id] = g] ELSE locks
    BY DEF InsertRow
  <1>4. /\ step' \in {[step EXCEPT ![g] = "insert loser"], [step EXCEPT ![g] = "lock first"]}
        /\ \E side \in Side : first' = [first EXCEPT ![g] = side] \/ first' = first
    BY DEF InsertRow
  <1>5. /\ locks' \in [Ids -> Tx \cup {None}] /\ step' \in [Games -> Step]
        /\ first' \in [Games -> Side]
    <2>1. locks' \in [Ids -> Tx \cup {None}]
      BY <1>2, <1>3, Typed DEF HandlersTyped
    <2>2. step' \in [Games -> Step]
      BY <1>4, Typed DEF HandlersTyped
    <2>3. first' \in [Games -> Side]
      BY <1>4, Typed DEF HandlersTyped
    <2>4. QED
      BY <2>1, <2>2, <2>3
  <1>6. TypeOK'
    <2>1. step[g] # "play"
      BY <1>1
    <2>2. \A k \in Games : step[k] = "play" => step'[k] = "play"
      BY <2>1, <1>4, Typed DEF HandlersTyped
    <2>3. QED
      BY <1>1, <1>5, <2>2, HandlerTypes DEF OthersUnchanged, IInv, TypeOK
  <1>7. ReadsHeld(g)' /\ Unrated(g)'
    <2>1. step'[g] \in {"insert loser", "lock first"}
      BY <1>4, Typed DEF HandlersTyped
    <2>2. Unrated(g)
      BY Typed DEF HandlersInv
    <2>3. QED
      BY <1>1, <2>1, <2>2 DEF ReadsHeld, Unrated
  <1>8. \A k \in Games \ {g} : step'[k] = step[k] /\ first'[k] = first[k]
    BY <1>4, Typed DEF HandlersTyped
  <1>9. \A i \in Ids : /\ locks[i] \notin {None, g} => locks'[i] = locks[i]
                       /\ locks'[i] = Seeder => locks[i] = Seeder
    BY <1>2, <1>3, TxAssumption, Typed DEF HandlersTyped
  <1>10. told'[g] # None => told'[g] = applied'[g]
    BY <1>1 DEF IInv, ToldIsApplied
  <1>11. step[g] \notin {"play", "done"}
    BY <1>1
  <1>12. QED
    BY <1>1, <1>6, <1>7, <1>8, <1>9, <1>10, <1>11, HandlerInv DEF OthersUnchanged

LEMMA LockRowInv ==
    ASSUME IInv, NEW g \in Games, LockRow(g), OthersUnchanged, UNCHANGED rare
    PROVE  IInv'
  <1>0. PICK id \in Ids, side \in Side, read \in Int, next \in {"lock second", "write"} :
            /\ id = Wanted(g) /\ side = WantedSide(g) /\ read = Row(id).rating
            /\ next = IF step[g] = "lock first" THEN "lock second" ELSE "write"
    <2>1. step[g] \in Inserting \cup Locking
      BY DEF LockRow
    <2>2. Wanted(g) \in Ids /\ WantedSide(g) \in Side
      BY <2>1, WantedType DEF IInv
    <2>3. Row(Wanted(g)).rating \in Int
      BY <2>2, RowType DEF IInv
    <2>4. QED
      BY <2>2, <2>3
  <1>1. /\ step[g] \in Locking /\ GameWaitsFor(g) = None
        /\ UNCHANGED <<accounts, elo, h2h, rest, player, first, told, applied, scored>>
    BY DEF LockRow, tables
  <1>2. locks[id] \in {None, g}
    BY <1>0, <1>1, FreeToLock DEF IInv
  <1>3. read = IF elo[id] = None THEN DEFAULT_RATING ELSE elo[id].rating
    BY <1>0 DEF Row, NewRow
  <1>4. /\ locks' = [locks EXCEPT ![id] = g]
        /\ seen' = [seen EXCEPT ![g][side] = read]
        /\ step' = [step EXCEPT ![g] = next]
    BY <1>0, <1>3 DEF LockRow, ForUpdate
  <1>5. /\ locks' \in [Ids -> Tx \cup {None}] /\ step' \in [Games -> Step]
        /\ seen' \in [Games -> [Side -> Int \cup {None}]]
    <2>1. locks' \in [Ids -> Tx \cup {None}]
      BY <1>2, <1>4, Typed DEF HandlersTyped
    <2>2. step' \in [Games -> Step]
      BY <1>4, Typed DEF HandlersTyped
    <2>3. seen' \in [Games -> [Side -> Int \cup {None}]]
      BY <1>2, <1>3, <1>4, Typed DEF HandlersTyped
    <2>4. QED
      BY <2>1, <2>2, <2>3
  <1>6. TypeOK'
    <2>1. \A k \in Games : step[k] = "play" => step'[k] = "play"
      BY <1>1, <1>4, Typed DEF HandlersTyped
    <2>2. QED
      BY <1>1, <1>5, <2>1, HandlerTypes DEF OthersUnchanged, IInv, TypeOK
  <1>7. step'[g] = next /\ seen'[g] = [seen[g] EXCEPT ![side] = read]
    BY <1>4, Typed DEF HandlersTyped
  <1>8. Holds(g, side)'
    <2>1. locks'[id] = g /\ player'[g][side] = id
      BY <1>0, <1>1, <1>4, Typed DEF HandlersTyped, Wanted
    <2>2. seen'[g][side] = read
      BY <1>2, <1>7, Typed DEF HandlersTyped
    <2>3. Row(id)' = Row(id)
      BY <1>1 DEF Row
    <2>4. QED
      BY <1>0, <2>1, <2>2, <2>3 DEF Holds
  <1>9. ReadsHeld(g)'
    <2>1. CASE step[g] = "lock first"
      <3>1. step'[g] = "lock second" /\ side = first[g]
        BY <2>1, <1>0, <1>7 DEF WantedSide
      <3>2. QED
        BY <3>1, <1>1, <1>8 DEF ReadsHeld
    <2>2. CASE step[g] = "lock second"
      <3>1. step'[g] = "write" /\ side = OtherSide(first[g]) /\ first[g] \in Side
        BY <2>2, <1>0, <1>7, Typed DEF WantedSide, HandlersTyped
      <3>2. Holds(g, first[g])
        BY <2>2, Typed DEF HandlersInv, ReadsHeld
      <3>3. Holds(g, first[g])'
        <4>1. player[g][first[g]] \in Ids
          BY <2>2, <3>1, Typed DEF HandlersTyped
        <4>2. locks'[player[g][first[g]]] = g
          BY <3>2, <4>1, <1>2, <1>4, Typed DEF HandlersTyped, Holds
        <4>3. seen'[g][first[g]] = seen[g][first[g]]
          BY <3>1, <1>7, Typed DEF HandlersTyped, OtherSide
        <4>4. QED
          BY <4>2, <4>3, <3>2, <1>1 DEF Holds, Row
      <3>4. \A sd \in Side : sd \in {first[g], side}
        BY <3>1 DEF OtherSide
      <3>5. QED
        <4>1. \A sd \in Side : Holds(g, sd)'
          BY <3>3, <3>4, <1>1, <1>8
        <4>2. QED
          BY <3>1, <4>1 DEF ReadsHeld
    <2>3. QED
      BY <2>1, <2>2, <1>1
  <1>10. Unrated(g)'
    BY <1>1, <1>7, Typed DEF HandlersInv, Unrated
  <1>11. \A k \in Games \ {g} : step'[k] = step[k] /\ seen'[k] = seen[k]
    BY <1>4, Typed DEF HandlersTyped
  <1>12. \A i \in Ids : /\ locks[i] \notin {None, g} => locks'[i] = locks[i]
                        /\ locks'[i] = Seeder => locks[i] = Seeder
    BY <1>2, <1>4, TxAssumption, Typed DEF HandlersTyped
  <1>13. told'[g] # None => told'[g] = applied'[g]
    BY <1>1 DEF IInv, ToldIsApplied
  <1>14. step[g] \notin {"play", "done"}
    BY <1>1
  <1>15. QED
    BY <1>1, <1>6, <1>9, <1>10, <1>11, <1>12, <1>13, <1>14, HandlerInv DEF OthersUnchanged

LEMMA NothingSeenType == NothingSeen \in [Side -> Int \cup {None}]
  BY DEF NothingSeen

\* The end of a rating transaction, however it ends.
LEMMA EndRatingInv ==
    ASSUME IInv, NEW g \in Games, step[g] \in Rating, EndRating(g), OthersUnchanged,
           rare' \in 0..MaxRare, UNCHANGED <<accounts, h2h, player, scored>>,
           elo' \in [Ids -> Rows \cup {None}],
           \A id \in Ids : locks[id] \notin {None, g} => elo'[id] = elo[id],
           NEW t \in Answer \cup {None}, told' = [told EXCEPT ![g] = t],
           NEW a \in Answer \cup {None}, applied' = [applied EXCEPT ![g] = a],
           t # None => t = a
    PROVE  IInv'
  <1>1. /\ step' = [step EXCEPT ![g] = rest[g]] /\ rest' = [rest EXCEPT ![g] = "done"]
        /\ first' = [first EXCEPT ![g] = "winner"]
        /\ seen' = [seen EXCEPT ![g] = NothingSeen]
        /\ locks' = Released(g)
    BY DEF EndRating, Proceed
  <1>2. rest[g] \in {"score", "done"}
    BY Typed DEF HandlersTyped, HandlersInv, Unrated
  <1>3. /\ locks' \in [Ids -> Tx \cup {None}]
        /\ \A i \in Ids : /\ locks[i] \notin {None, g} => locks'[i] = locks[i]
                          /\ locks'[i] = Seeder => locks[i] = Seeder
    BY <1>1, ReleasedType, TxAssumption DEF IInv
  <1>4. TypeOK'
    <2>1. step' \in [Games -> Step] /\ rest' \in [Games -> {"score", "insert winner", "done"}]
      <3>1. step \in [Games -> Step] /\ rest \in [Games -> {"score", "insert winner", "done"}]
        BY Typed DEF HandlersTyped
      <3>2. rest[g] \in Step
        BY <1>2
      <3>3. QED
        BY <1>1, <3>1, <3>2
    <2>2. first' \in [Games -> Side] /\ seen' \in [Games -> [Side -> Int \cup {None}]]
      <3>1. NothingSeen \in [Side -> Int \cup {None}]
        BY NothingSeenType
      <3>2. first \in [Games -> Side] /\ seen \in [Games -> [Side -> Int \cup {None}]]
        BY Typed DEF HandlersTyped
      <3>3. QED
        BY <1>1, <3>1, <3>2
    <2>3. told' \in [Games -> Answer \cup {None}] /\ applied' \in [Games -> Answer \cup {None}]
      BY Typed DEF HandlersTyped
    <2>4. \A k \in Games : step[k] = "play" => step'[k] = "play"
      BY <1>1, Typed DEF HandlersTyped
    <2>5. h2h' \in [Pairs -> [player1_wins : Nat, player2_wins : Nat]] /\ scored' \subseteq Games
      BY DEF IInv, TypeOK
    <2>6. QED
      BY <1>3, <2>1, <2>2, <2>3, <2>4, <2>5, HandlerTypes DEF OthersUnchanged
  <1>5. step'[g] \in {"score", "done"} /\ rest'[g] = "done"
    BY <1>1, <1>2, Typed DEF HandlersTyped
  <1>6. ReadsHeld(g)' /\ Unrated(g)'
    BY <1>5 DEF ReadsHeld, Unrated
  <1>7. told'[g] # None => told'[g] = applied'[g]
    BY Typed DEF HandlersTyped
  <1>8. \A k \in Games \ {g} :
            /\ step'[k] = step[k] /\ rest'[k] = rest[k] /\ first'[k] = first[k]
            /\ seen'[k] = seen[k] /\ told'[k] = told[k] /\ applied'[k] = applied[k]
    BY <1>1, Typed DEF HandlersTyped
  <1>9. step[g] \notin {"play", "done"}
    OBVIOUS
  <1>10. QED
    BY <1>3, <1>4, <1>6, <1>7, <1>8, <1>9, HandlerInv DEF OthersUnchanged

\* Also UnknownUser, and a transaction that PostgreSQL aborts.
LEMMA AbortInv ==
    ASSUME IInv, NEW g \in Games, Abort(g), OthersUnchanged, rare' \in 0..MaxRare
    PROVE  IInv'
  <1>1. /\ step[g] \in Rating /\ EndRating(g) /\ told' = [told EXCEPT ![g] = None]
        /\ UNCHANGED <<accounts, elo, h2h, player, applied, scored>>
    BY DEF Abort, Nothing, tables
  <1>2. applied' = [applied EXCEPT ![g] = applied[g]] /\ applied[g] \in Answer \cup {None}
    BY <1>1, Typed DEF HandlersTyped
  <1>3. elo' \in [Ids -> Rows \cup {None}]
    BY <1>1, Typed DEF HandlersTyped
  <1>4. QED
    BY <1>1, <1>2, <1>3, EndRatingInv

\* The ledger counts as elo.py does.
LEMMA LedgerElo ==
    /\ \A w, l : Ledger!Raised(w, l) = Raised(w, l) /\ Ledger!Lowered(w, l) = Lowered(w, l)
    /\ \A id : Ledger!RowOf(id) = Row(id)
  <1>1. \A lead : Ledger!Gain(lead) = Gain(lead)
    BY DEF Ledger!Gain, Gain, Ledger!K_FACTOR, K_FACTOR, Ledger!Margins, Margins,
           Ledger!Cardinality, Cardinality
  <1>2. \A w, l : Ledger!Raised(w, l) = Raised(w, l) /\ Ledger!Lowered(w, l) = Lowered(w, l)
    BY <1>1 DEF Ledger!Raised, Raised, Ledger!Lowered, Lowered
  <1>3. Ledger!NewRow = NewRow
    BY DEF Ledger!NewRow, NewRow, Ledger!DEFAULT_RATING, DEFAULT_RATING
  <1>4. QED
    BY <1>2, <1>3 DEF Ledger!RowOf, Row

\* What a game writes is what the ledger enters: it read the rows it holds.
LEMMA UpdatedRows ==
    ASSUME IInv, NEW g \in Games, step[g] = "write"
    PROVE  \E w \in Ids, l \in Ids :
             /\ Updated(g) = Ledger!Entered(w, l)
             /\ Changes(g) = Ledger!Change(w, l)
             /\ Changes(g) \in Answer
             /\ Updated(g) \in [Ids -> Rows \cup {None}]
             /\ \A id \in Ids : locks[id] \notin {None, g} => Updated(g)[id] = elo[id]
  <1>0. player[g] \in [Side -> Ids]
    BY Typed DEF HandlersTyped
  <1>1. PICK w \in Ids, l \in Ids : w = player[g].winner /\ l = player[g].loser
    BY <1>0
  <1>2. /\ locks[w] = g /\ seen[g].winner = Row(w).rating
        /\ locks[l] = g /\ seen[g].loser = Row(l).rating
    BY <1>1, Typed DEF HandlersInv, ReadsHeld, Holds
  <1> DEFINE wr == Row(w).rating
             lr == Row(l).rating
  <1>3. Row(w) \in Rows /\ Row(l) \in Rows /\ wr \in Int /\ lr \in Int
    BY RowType DEF IInv
  <1>5. Updated(g) = Ledger!Entered(w, l)
    BY <1>1, <1>2, LedgerElo DEF Updated, Ledger!Entered
  <1>6. Changes(g) = Ledger!Change(w, l)
    BY <1>1, <1>2, LedgerElo DEF Changes, Ledger!Change
  <1>7. Raised(wr, lr) \in Int /\ Lowered(wr, lr) \in Int
    BY <1>3, RatingsType
  <1>8. Changes(g) \in Answer
    <2>1. Changes(g) = [winner |-> [old |-> wr, new |-> Raised(wr, lr)],
                        loser |-> [old |-> lr, new |-> Lowered(wr, lr)]]
      BY <1>2 DEF Changes
    <2>2. QED
      BY <2>1, <1>3, <1>7 DEF Answer
  <1> DEFINE wonRow == [Row(w) EXCEPT !.rating = Raised(wr, lr), !.wins = @ + 1]
             won == [elo EXCEPT ![w] = wonRow]
             losing == IF w = l THEN won[l] ELSE Row(l)
             lostRow == [losing EXCEPT !.rating = Lowered(wr, lr), !.losses = @ + 1]
  <1>9. Updated(g) = [won EXCEPT ![l] = lostRow]
    BY <1>1, <1>2 DEF Updated
  <1>10. elo \in [Ids -> Rows \cup {None}]
    BY Typed DEF HandlersTyped
  <1>11. wonRow \in Rows
    BY <1>3, <1>7, CountedType
  <1>12. losing \in Rows
    <2> HIDE DEF wonRow
    <2>1. QED
      BY <1>3, <1>10, <1>11
  <1>13. lostRow \in Rows
    <2> HIDE DEF losing
    <2>1. QED
      BY <1>7, <1>12, CountedType
  <1>14. /\ Updated(g) \in [Ids -> Rows \cup {None}]
         /\ \A id \in Ids : id \notin {w, l} => Updated(g)[id] = elo[id]
    <2> HIDE DEF wonRow, lostRow
    <2>1. QED
      BY <1>9, <1>10, <1>11, <1>13
  <1>15. QED
    BY <1>2, <1>5, <1>6, <1>8, <1>14

LEMMA CommitInv ==
    ASSUME IInv, NEW g \in Games, NEW t \in {Changes(g), None}, Commit(g, t),
           OthersUnchanged, rare' \in 0..MaxRare
    PROVE  IInv'
  <1>1. /\ step[g] = "write" /\ elo' = Updated(g) /\ EndRating(g)
        /\ applied' = [applied EXCEPT ![g] = Changes(g)]
        /\ told' = [told EXCEPT ![g] = t]
        /\ UNCHANGED <<accounts, h2h, player, scored>>
    BY DEF Commit
  <1>2. /\ Changes(g) \in Answer /\ elo' \in [Ids -> Rows \cup {None}]
        /\ \A id \in Ids : locks[id] \notin {None, g} => elo'[id] = elo[id]
    <2>1. /\ Changes(g) \in Answer /\ Updated(g) \in [Ids -> Rows \cup {None}]
          /\ \A id \in Ids : locks[id] \notin {None, g} => Updated(g)[id] = elo[id]
      BY <1>1, UpdatedRows
    <2>2. QED
      BY <1>1, <2>1
  <1>3. PICK a \in Answer : a = Changes(g)
    BY <1>2
  <1>4. t \in Answer \cup {None} /\ (t # None => t = a)
    BY <1>3
  <1>5. applied' = [applied EXCEPT ![g] = a]
    BY <1>1, <1>3
  <1>6. QED
    BY <1>1, <1>2, <1>4, <1>5, EndRatingInv

\* Score and ScoreFails.
LEMMA ScoreInv ==
    ASSUME IInv, NEW g \in Games, Score(g) \/ ScoreFails(g), OthersUnchanged,
           rare' \in 0..MaxRare
    PROVE  IInv'
  <1>1. /\ step[g] = "score" /\ UNCHANGED <<accounts, elo, locks, player, first, seen, told, applied>>
        /\ step' = [step EXCEPT ![g] = rest[g]] /\ rest' = [rest EXCEPT ![g] = "done"]
    BY DEF Score, ScoreFails, Proceed, tables
  <1>2. /\ h2h' \in [Pairs -> [player1_wins : Nat, player2_wins : Nat]]
        /\ scored' \subseteq Games
    <2>1. /\ h2h \in [Pairs -> [player1_wins : Nat, player2_wins : Nat]]
          /\ scored \subseteq Games /\ player[g] \in [Side -> Ids]
      BY <1>1 DEF IInv, TypeOK
    <2>2. CASE UNCHANGED <<h2h, scored>>
      BY <2>1, <2>2
    <2>3. CASE ~UNCHANGED <<h2h, scored>>
      <3>1. PICK w \in Ids, l \in Ids :
                /\ w # l
                /\ h2h' = [h2h EXCEPT ![Key(w, l)][Column(w, l)] = @ + 1]
                /\ scored' = scored \cup {g}
        BY <2>1, <2>3 DEF Score, ScoreFails, tables
      <3>2. Key(w, l) \in Pairs /\ Column(w, l) \in {"player1_wins", "player2_wins"}
        BY <3>1, IdAssumption DEF Key, Pairs, Column
      <3>3. QED
        BY <2>1, <3>1, <3>2
    <2>4. QED
      BY <2>2, <2>3
  <1>3. /\ step' \in [Games -> Step] /\ rest' \in [Games -> {"score", "insert winner", "done"}]
        /\ step'[g] = rest[g] /\ rest'[g] = "done"
        /\ \A k \in Games \ {g} : step'[k] = step[k] /\ rest'[k] = rest[k]
    <2>1. /\ step \in [Games -> Step] /\ rest \in [Games -> {"score", "insert winner", "done"}]
      BY Typed DEF HandlersTyped
    <2>2. rest[g] \in Step
      BY <2>1
    <2>3. QED
      BY <1>1, <2>1, <2>2
  <1>4. TypeOK'
    <2>1. \A k \in Games : step[k] = "play" => step'[k] = "play"
      BY <1>1, <1>3
    <2>2. QED
      BY <1>1, <1>2, <1>3, <2>1, Typed, HandlerTypes DEF HandlersTyped, OthersUnchanged
  <1>5. ReadsHeld(g)' /\ Unrated(g)'
    <2>1. rest[g] \in {"score", "insert winner", "done"} /\ Unrated(g)
      BY Typed DEF HandlersTyped, HandlersInv
    <2>2. QED
      BY <1>1, <1>3, <2>1 DEF ReadsHeld, Unrated
  <1>6. \A i \in Ids : /\ locks[i] \notin {None, g} => locks'[i] = locks[i] /\ elo'[i] = elo[i]
                       /\ locks'[i] = Seeder => locks[i] = Seeder
    BY <1>1
  <1>7. told'[g] # None => told'[g] = applied'[g]
    BY <1>1 DEF IInv, ToldIsApplied
  <1>8. step[g] \notin {"play", "done"}
    BY <1>1
  <1>9. QED
    BY <1>1, <1>3, <1>4, <1>5, <1>6, <1>7, <1>8, HandlerInv DEF OthersUnchanged

\* Steps that leave the handlers of the games and their rows alone.
LEMMA HandlersKept ==
    ASSUME IInv, UNCHANGED <<handler, applied>>,
           \A id \in Ids : locks[id] \in Games => locks'[id] = locks[id] /\ elo'[id] = elo[id]
    PROVE  HandlersInv' /\ ToldIsApplied'
  <1>1. ASSUME NEW k \in Games PROVE ReadsHeld(k)' /\ Unrated(k)'
    BY StillInv DEF Still, handler
  <1>2. QED
    BY <1>1 DEF IInv, HandlersInv, ToldIsApplied, handler

LEMMA SeedUsed ==
    ASSUME IInv
    PROVE  /\ seed \in Seeding
           /\ seed.pc \in {"accounts", "ratings"} => seed.left # <<>> /\ Current \in Bot
           /\ seed.pc = "accounts" => \A id \in Ids : locks[id] # Seeder
  <1>1. seed \in Seeding /\ SeedLeft /\ SeedHolds
    BY DEF IInv, TypeOK
  <1>2. QED
    BY <1>1, AdvanceType DEF SeedLeft, Current, SeedHolds

LEMMA StartSeedingInv ==
    ASSUME IInv, NEW force \in BOOLEAN, StartSeeding(force), seed.pc = "off",
           UNCHANGED <<ratingVars, mapping, served, session, schema, rivals, epoch>>,
           phase' \in {"seeding", "up"}, rare' \in 0..MaxRare,
           phase = "down" \/ phase' = phase
    PROVE  IInv'
  <1>1. UNCHANGED <<accounts, elo, h2h, locks, handler, applied, scored>>
    BY DEF ratingVars, tables
  <1>2. Loaded \in [Bot -> Ids \cup {None}]
    BY DEF IInv, TypeOK, Loaded, NoIds
  <1>3. seed' \in Seeding /\ seed'.pc = "accounts" /\ seed'.left # <<>>
    BY <1>2, BotOrderType DEF StartSeeding, Seeding
  <1>4. TypeOK'
    BY <1>1, <1>3 DEF IInv, TypeOK, handler
  <1>5. HandlersInv' /\ ToldIsApplied'
    BY <1>1, HandlersAlone
  <1>6. \A id \in Ids : locks[id] # Seeder
    BY DEF IInv, SeedHolds
  <1>7. SeedHolds'
    BY <1>1, <1>6 DEF SeedHolds
  <1>8. PhaseInv' /\ SeedLeft'
    BY <1>1, <1>3 DEF IInv, PhaseInv, SeedLeft, handler
  <1>9. QED
    BY <1>4, <1>5, <1>7, <1>8 DEF IInv

LEMMA BootInv == ASSUME IInv, Boot PROVE IInv'
  <1>1. phase = "down" /\ seed.pc = "off"
    BY DEF Boot, IInv, PhaseInv
  <1>2. rare' \in 0..MaxRare
    BY DEF Boot, IInv, TypeOK
  <1>3. UNCHANGED <<ratingVars, mapping, served, session, schema, rivals, epoch>>
    BY DEF Boot, SeedUnchanged, ratingVars, tables
  <1>4. QED
    BY <1>1, <1>2, <1>3, StartSeedingInv DEF Boot

LEMMA RunByHandInv == ASSUME IInv, NEW force \in ManualModes, RunByHand(force) PROVE IInv'
  <1>1. force \in BOOLEAN
    BY ModeAssumption
  <1>2. rare' \in 0..MaxRare
    BY RareType DEF RunByHand
  <1>3. QED
    BY <1>1, <1>2, StartSeedingInv DEF RunByHand

LEMMA FindAccountInv == ASSUME IInv, FindAccount PROVE IInv'
  <1>1. /\ seed.pc = "accounts"
        /\ UNCHANGED <<accounts, elo, h2h, locks, handler, applied, scored, schema, mapping,
                       phase, served, session, rivals, rare, epoch>>
    BY DEF FindAccount, SeedUnchanged
  <1>2. seed \in Seeding /\ seed.left # <<>> /\ Current \in Bot /\ accounts \in [Name -> Ids \cup {None}]
    BY <1>1, SeedUsed DEF IInv, TypeOK
  <1>3. PICK s \in Seeding : s.left # <<>> /\ s.pc = "accounts" /\ seed' = Advance(s, "ratings")
    <2> DEFINE b == Current
    <2>1. b \in Bot /\ accounts[b] \in Ids \cup {None}
      BY <1>2, NameAssumption
    <2>2. CASE Verified(b) /\ seed' = Advance(seed, "ratings")
      BY <1>1, <1>2, <2>2
    <2>3. CASE seed' = Advance([seed EXCEPT !.ids[b] = Recovered(b)], "ratings")
      <3>1. [seed EXCEPT !.ids[b] = Recovered(b)] \in Seeding
        BY <1>2, <2>1 DEF Seeding, Recovered
      <3>2. QED
        BY <1>1, <1>2, <2>3, <3>1 DEF Seeding
    <2>4. ASSUME NEW id \in Ids,
                 seed' = Advance([seed EXCEPT !.ids[b] = id, !.added = @ \cup {b}], "ratings")
          PROVE  \E s \in Seeding : s.left # <<>> /\ s.pc = "accounts"
                                   /\ seed' = Advance(s, "ratings")
      <3>1. [seed EXCEPT !.ids[b] = id, !.added = @ \cup {b}] \in Seeding
        BY <1>2, <2>1 DEF Seeding
      <3>2. QED
        BY <1>1, <1>2, <2>4, <3>1 DEF Seeding
    <2>5. QED
      BY <2>2, <2>3, <2>4 DEF FindAccount
  <1>4. seed' \in Seeding /\ seed'.left # <<>> /\ seed'.pc \in {"accounts", "ratings"}
    BY <1>3, AdvanceType
  <1>5. TypeOK'
    BY <1>1, <1>4 DEF IInv, TypeOK, handler
  <1>6. HandlersInv' /\ ToldIsApplied'
    BY <1>1, HandlersAlone
  <1>7. SeedHolds'
    BY <1>1, SeedUsed DEF SeedHolds
  <1>8. PhaseInv' /\ SeedLeft'
    BY <1>1, <1>4 DEF IInv, PhaseInv, SeedLeft, handler
  <1>9. QED
    BY <1>5, <1>6, <1>7, <1>8 DEF IInv

LEMMA WriteRatingInv == ASSUME IInv, WriteRating PROVE IInv'
  <1> DEFINE b == Current
  <1>0. PICK id : id = seed.ids[Current]
    OBVIOUS
  <1>1. /\ seed.pc = "ratings" /\ SeedWaitsFor = None
        /\ UNCHANGED <<accounts, elo, h2h, handler, applied, scored, schema, mapping,
                       phase, served, session, rivals, rare, epoch>>
        /\ locks' = (IF Writes(id) THEN [locks EXCEPT ![id] = Seeder] ELSE locks)
        /\ seed' = Advance(seed, "commit")
    BY <1>0 DEF WriteRating, SeedUnchanged
  <1>2. seed \in Seeding /\ seed.left # <<>> /\ b \in Bot
    BY <1>1, SeedUsed
  <1>3. /\ seed' \in Seeding /\ seed'.left # <<>> /\ seed'.pc \in {"ratings", "commit"}
        /\ seed'.ids = seed.ids /\ seed'.force = seed.force
    BY <1>1, <1>2, AdvanceType
  <1>4. Writes(id) => locks[id] \in {None, Seeder}
    BY <1>0, <1>1, SeedFreeToLock
  <1>5. locks \in [Ids -> Tx \cup {None}]
    BY Typed DEF HandlersTyped
  <1>6. /\ locks' \in [Ids -> Tx \cup {None}]
        /\ \A i \in Ids : \/ locks'[i] = locks[i]
                          \/ i = id /\ Writes(id) /\ locks'[i] = Seeder
    <2>1. CASE Writes(id)
      <3>1. locks' = [locks EXCEPT ![id] = Seeder]
        BY <1>1, <2>1
      <3>2. QED
        BY <1>5, <2>1, <3>1
    <2>2. CASE ~Writes(id)
      <3>1. locks' = locks
        BY <1>1, <2>2
      <3>2. QED
        BY <1>5, <3>1
    <2>3. QED
      BY <2>1, <2>2
  <1>7. TypeOK'
    BY <1>1, <1>3, <1>6 DEF IInv, TypeOK, handler
  <1>8. HandlersInv' /\ ToldIsApplied'
    <2>1. \A i \in Ids : locks[i] \in Games => locks'[i] = locks[i] /\ elo'[i] = elo[i]
      BY <1>1, <1>4, <1>6, TxAssumption
    <2>2. QED
      BY <1>1, <2>1, HandlersKept
  <1>9. SeedHolds'
    <2> SUFFICES ASSUME NEW i \in Ids, locks'[i] = Seeder
                 PROVE  /\ \E c \in Bot : seed.ids[c] = i
                        /\ seed.force \/ elo[i] = None
      BY <1>1, <1>3 DEF SeedHolds
    <2>1. CASE locks[i] = Seeder
      BY <2>1 DEF IInv, SeedHolds
    <2>2. CASE i = id /\ Writes(id)
      BY <2>2, <1>0, <1>2 DEF Writes
    <2>3. QED
      BY <2>1, <2>2, <1>6
  <1>10. PhaseInv' /\ SeedLeft'
    BY <1>1, <1>3 DEF IInv, PhaseInv, SeedLeft, handler
  <1>11. QED
    BY <1>7, <1>8, <1>9, <1>10 DEF IInv

LEMMA SeededRowType ==
    ASSUME NEW b \in Bot, NEW old \in Rows \cup {None}
    PROVE  SeededRow(b, old) \in Rows
  <1>1. Calibrated[b] \in Int /\ (Stats[b] = None \/ Stats[b] \in Nat \X Nat)
    BY RatingsAssumption
  <1>2. NewRow \in Rows
    BY DEF NewRow, DEFAULT_RATING
  <1>3. CASE Stats[b] # None
    <2>1. Stats[b][1] \in Nat /\ Stats[b][2] \in Nat
      BY <1>1, <1>3
    <2>2. QED
      BY <1>1, <1>3, <2>1 DEF SeededRow
  <1>4. CASE Stats[b] = None /\ old = None
    BY <1>1, <1>2, <1>4 DEF SeededRow
  <1>5. CASE Stats[b] = None /\ old # None
    BY <1>1, <1>5 DEF SeededRow
  <1>6. QED
    BY <1>3, <1>4, <1>5

LEMMA SeedCommitInv == ASSUME IInv, SeedCommit PROVE IInv'
  <1>1. /\ seed.pc = "commit"
        /\ UNCHANGED <<h2h, handler, applied, scored, schema, mapping, phase, served, session,
                       rivals, rare>>
        /\ seed' = [seed EXCEPT !.pc = "save"] /\ locks' = Released(Seeder)
        /\ epoch' = IF seed.force THEN epoch + 1 ELSE epoch
    BY DEF SeedCommit, SeedUnchanged
  <1>2. seed \in Seeding /\ epoch \in Nat /\ accounts \in [Name -> Ids \cup {None}]
    BY DEF IInv, TypeOK
  <1>3. seed' \in Seeding /\ seed'.pc = "save"
    BY <1>1, <1>2 DEF Seeding
  <1>4. accounts' \in [Name -> Ids \cup {None}]
    <2>1. \A n \in seed.added : seed.ids[n] \in Ids \cup {None}
      BY <1>2 DEF Seeding
    <2>2. accounts' = [n \in Name |-> IF n \in seed.added THEN seed.ids[n] ELSE accounts[n]]
      BY DEF SeedCommit
    <2>3. QED
      BY <1>2, <2>1, <2>2
  <1>5. /\ elo' \in [Ids -> Rows \cup {None}]
        /\ \A id \in Ids : locks[id] # Seeder => elo'[id] = elo[id]
    <2>1. elo' = [id \in Ids |-> IF locks[id] = Seeder
                                THEN SeededRow(CHOOSE b \in Bot : seed.ids[b] = id, elo[id])
                                ELSE elo[id]]
      BY DEF SeedCommit
    <2>2. elo \in [Ids -> Rows \cup {None}]
      BY Typed DEF HandlersTyped
    <2>3. ASSUME NEW id \in Ids, locks[id] = Seeder
          PROVE  SeededRow(CHOOSE b \in Bot : seed.ids[b] = id, elo[id]) \in Rows
      <3>1. \E b \in Bot : seed.ids[b] = id
        BY <2>3 DEF IInv, SeedHolds
      <3>2. (CHOOSE b \in Bot : seed.ids[b] = id) \in Bot
        BY <3>1
      <3>3. QED
        BY <3>2, <2>2, SeededRowType
    <2>4. QED
      BY <2>1, <2>2, <2>3
  <1>6. /\ locks' \in [Ids -> Tx \cup {None}]
        /\ \A id \in Ids : /\ locks[id] # Seeder => locks'[id] = locks[id]
                           /\ locks'[id] # Seeder
    BY <1>1, ReleasedType, TxAssumption DEF IInv
  <1>7. TypeOK'
    <2>1. epoch' \in Nat
      BY <1>1, <1>2
    <2>2. QED
      BY <1>1, <1>3, <1>4, <1>5, <1>6, <2>1 DEF IInv, TypeOK, handler
  <1>8. HandlersInv' /\ ToldIsApplied'
    <2>1. \A id \in Ids : locks[id] \in Games => locks'[id] = locks[id] /\ elo'[id] = elo[id]
      BY <1>5, <1>6, TxAssumption
    <2>2. QED
      BY <1>1, <2>1, HandlersKept
  <1>9. SeedHolds'
    BY <1>6 DEF SeedHolds
  <1>10. PhaseInv' /\ SeedLeft'
    BY <1>1, <1>3 DEF IInv, PhaseInv, SeedLeft, handler
  <1>11. QED
    BY <1>7, <1>8, <1>9, <1>10 DEF IInv

LEMMA IdleType == Idle \in Seeding
  BY DEF Idle, Seeding, NoIds

LEMMA SaveIdsInv == ASSUME IInv, SaveIds PROVE IInv'
  <1>1. /\ seed.pc = "save" /\ mapping' = seed.ids /\ seed' = Idle
        /\ phase' = (IF phase = "seeding" THEN "starting" ELSE phase)
        /\ UNCHANGED <<accounts, elo, h2h, locks, handler, applied, scored, schema, served,
                       session, rivals, rare, epoch>>
    BY DEF SaveIds, SeedUnchanged
  <1>2. seed \in Seeding /\ Idle \in Seeding
    BY IdleType DEF IInv, TypeOK
  <1>3. mapping' \in [Bot -> Ids \cup {None}]
    BY <1>1, <1>2 DEF Seeding
  <1>4. TypeOK'
    BY <1>1, <1>2, <1>3 DEF IInv, TypeOK, handler
  <1>5. HandlersInv' /\ ToldIsApplied'
    BY <1>1, HandlersAlone
  <1>6. \A id \in Ids : locks[id] # Seeder
    BY <1>1 DEF IInv, SeedHolds
  <1>7. SeedHolds' /\ PhaseInv' /\ SeedLeft'
    BY <1>1, <1>3, <1>6 DEF IInv, SeedHolds, PhaseInv, SeedLeft, Idle, handler
  <1>8. QED
    BY <1>4, <1>5, <1>7 DEF IInv

\* Also SeedRefused, SeedFault and a seeding that PostgreSQL aborts.
LEMMA SeedExitsInv == ASSUME IInv, SeedExits, rare' \in 0..MaxRare PROVE IInv'
  <1>1. /\ seed' = Idle /\ locks' = Released(Seeder)
        /\ phase' = (IF phase = "seeding" THEN "down" ELSE phase)
        /\ UNCHANGED <<accounts, elo, h2h, handler, applied, scored, schema, mapping, served,
                       session, rivals, epoch>>
    BY DEF SeedExits, SeedUnchanged
  <1>2. Idle \in Seeding
    BY IdleType
  <1>3. /\ locks' \in [Ids -> Tx \cup {None}]
        /\ \A id \in Ids : /\ locks[id] # Seeder => locks'[id] = locks[id]
                           /\ locks'[id] # Seeder
    BY <1>1, ReleasedType, TxAssumption DEF IInv
  <1>4. TypeOK'
    BY <1>1, <1>2, <1>3 DEF IInv, TypeOK, handler
  <1>5. HandlersInv' /\ ToldIsApplied'
    <2>1. \A id \in Ids : locks[id] \in Games => locks'[id] = locks[id] /\ elo'[id] = elo[id]
      BY <1>1, <1>3, TxAssumption
    <2>2. QED
      BY <1>1, <2>1, HandlersKept
  <1>6. SeedHolds' /\ PhaseInv' /\ SeedLeft'
    BY <1>1, <1>3 DEF IInv, SeedHolds, PhaseInv, SeedLeft, Idle, handler
  <1>7. QED
    BY <1>4, <1>5, <1>6 DEF IInv

LEMMA StartServerInv == ASSUME IInv, StartServer PROVE IInv'
  <1>1. /\ phase = "starting" /\ phase' = "up" /\ schema' = TRUE
        /\ served' = [b \in Bot |-> mapping[b]]
        /\ UNCHANGED <<accounts, elo, h2h, locks, handler, applied, scored, mapping, session,
                       seed, rivals, rare, epoch>>
    BY DEF StartServer, ratingVars, tables
  <1>2. served' \in [Bot -> Ids \cup {None}]
    BY <1>1 DEF IInv, PhaseInv
  <1>3. TypeOK'
    BY <1>1, <1>2 DEF IInv, TypeOK, handler
  <1>5. HandlersInv' /\ ToldIsApplied'
    BY <1>1, HandlersAlone
  <1>6. SeedHolds' /\ PhaseInv' /\ SeedLeft'
    BY <1>1 DEF IInv, SeedHolds, PhaseInv, SeedLeft, handler
  <1>7. QED
    BY <1>3, <1>5, <1>6 DEF IInv

LEMMA RegisterInv == ASSUME IInv, NEW h \in Human, Register(h) PROVE IInv'
  <1>1. PICK id \in Ids : /\ accounts' = [accounts EXCEPT ![h] = id]
                          /\ session' = [session EXCEPT ![h] = id]
    BY DEF Register
  <1>2. UNCHANGED <<elo, h2h, locks, handler, applied, scored, schema, mapping,
                    phase, served, seed, rivals, rare, epoch>>
    BY DEF Register
  <1>3. accounts' \in [Name -> Ids \cup {None}] /\ session' \in [Human -> Ids]
    BY <1>1 DEF IInv, TypeOK
  <1>4. TypeOK'
    BY <1>2, <1>3 DEF IInv, TypeOK, handler
  <1>5. HandlersInv' /\ ToldIsApplied'
    BY <1>2, HandlersAlone
  <1>6. SeedHolds' /\ PhaseInv' /\ SeedLeft'
    BY <1>2 DEF IInv, SeedHolds, PhaseInv, SeedLeft, handler
  <1>7. QED
    BY <1>4, <1>5, <1>6 DEF IInv

LEMMA CrashInv == ASSUME IInv, Crash PROVE IInv'
  <1>1. /\ phase' = "down" /\ seed' = Idle /\ served' = NoIds
        /\ UNCHANGED <<accounts, elo, h2h, player, told, applied, scored, schema, mapping,
                       session, rivals, epoch>>
        /\ step' = [g \in Games |-> IF step[g] = "play" THEN "play" ELSE "done"]
        /\ rest' = [g \in Games |-> "done"]
        /\ first' = [g \in Games |-> "winner"]
        /\ seen' = [g \in Games |-> NothingSeen]
        /\ locks' = [id \in Ids |-> None]
    BY DEF Crash, GamesDie, tables
  <1>2. rare' \in 0..MaxRare
    BY RareType DEF Crash
  <1>3. TypeOK'
    <2>1. Idle \in Seeding /\ NothingSeen \in [Side -> Int \cup {None}]
      BY IdleType, NothingSeenType
    <2>2. /\ step' \in [Games -> Step]
          /\ \A g \in Games : step'[g] # "play" => player'[g] \in [Side -> Ids]
      BY <1>1 DEF IInv, TypeOK
    <2>3. served' \in [Bot -> Ids \cup {None}]
      BY <1>1 DEF NoIds
    <2>4. QED
      BY <1>1, <1>2, <2>1, <2>2, <2>3 DEF IInv, TypeOK
  <1>4. HandlersInv'
    <2>1. ASSUME NEW g \in Games
          PROVE  ReadsHeld(g)' /\ Unrated(g)'
      <3>1. Unrated(g)
        BY DEF IInv, HandlersInv
      <3>2. step'[g] \in {"play", "done"} /\ (step'[g] = "play" => step[g] = "play")
            /\ rest'[g] = "done"
        BY <1>1
      <3>3. QED
        BY <1>1, <3>1, <3>2 DEF ReadsHeld, Unrated
    <2>2. QED
      BY <2>1 DEF HandlersInv
  <1>5. SeedHolds' /\ PhaseInv' /\ SeedLeft' /\ ToldIsApplied'
    BY <1>1, TxAssumption DEF IInv, SeedHolds, PhaseInv, SeedLeft, Idle, ToldIsApplied
  <1>6. QED
    BY <1>3, <1>4, <1>5 DEF IInv

LEMMA LoseMappingInv == ASSUME IInv, LoseMapping PROVE IInv'
  <1>1. /\ mapping' = None /\ phase = "down"
        /\ UNCHANGED <<accounts, elo, h2h, locks, handler, applied, scored, schema, phase,
                       served, session, seed, rivals, epoch>>
    BY DEF LoseMapping, ratingVars, tables
  <1>2. rare' \in 0..MaxRare
    BY RareType DEF LoseMapping
  <1>3. TypeOK'
    BY <1>1, <1>2 DEF IInv, TypeOK, handler
  <1>4. HandlersInv' /\ ToldIsApplied'
    BY <1>1, HandlersAlone
  <1>5. SeedHolds' /\ PhaseInv' /\ SeedLeft'
    BY <1>1 DEF IInv, SeedHolds, PhaseInv, SeedLeft, handler
  <1>6. QED
    BY <1>3, <1>4, <1>5 DEF IInv

LEMMA LoseRowsInv == ASSUME IInv, LoseRows PROVE IInv'
  <1>1. /\ phase = "down"
        /\ accounts' = NoAccounts /\ elo' = [id \in Ids |-> None]
        /\ h2h' = [p \in Pairs |-> [player1_wins |-> 0, player2_wins |-> 0]]
        /\ scored' = {} /\ epoch' = epoch + 1
        /\ UNCHANGED <<locks, handler, applied, schema, mapping, phase, served, session,
                       seed, rivals>>
    BY DEF LoseRows
  <1>2. rare' \in 0..MaxRare
    BY RareType DEF LoseRows
  <1>3. TypeOK'
    <2>1. epoch' \in Nat
      <3>1. epoch \in Nat
        BY DEF IInv, TypeOK
      <3>2. QED
        BY <1>1, <3>1
    <2>2. h2h' \in [Pairs -> [player1_wins : Nat, player2_wins : Nat]]
      BY <1>1
    <2>3. QED
      BY <1>1, <1>2, <2>1, <2>2 DEF IInv, TypeOK, NoAccounts, handler
  <1>4. \A g \in Games : step'[g] \in {"play", "done"} /\ seed'.pc = "off"
    BY <1>1 DEF IInv, PhaseInv, handler
  <1>5. HandlersInv'
    <2>1. ASSUME NEW g \in Games PROVE ReadsHeld(g)' /\ Unrated(g)'
      BY <1>1, <1>4 DEF IInv, HandlersInv, ReadsHeld, Unrated, handler
    <2>2. QED
      BY <2>1 DEF HandlersInv
  <1>6. seed.pc = "off" /\ \A id \in Ids : locks[id] # Seeder
    BY <1>1 DEF IInv, PhaseInv, SeedHolds
  <1>7. SeedHolds' /\ PhaseInv' /\ SeedLeft' /\ ToldIsApplied'
    BY <1>1, <1>4, <1>6 DEF IInv, SeedHolds, PhaseInv, SeedLeft, ToldIsApplied, handler
  <1>8. QED
    BY <1>3, <1>5, <1>7 DEF IInv

-----------------------------------------------------------------------------
(* A step of the system.                                                   *)

\* Every step keeps the invariant, whoever takes it.
LEMMA NextInv == ASSUME IInv, Next PROVE IInv'
  <1>1. CASE Progress
    <2>1. CASE Boot \/ StartServer
      BY <2>1, BootInv, StartServerInv
    <2>2. CASE SeedStep
      <3>1. CASE SeedRefused
        BY <3>1, SeedExitsInv, RareType DEF SeedRefused
      <3>2. QED
        BY <2>2, <3>1, FindAccountInv, WriteRatingInv, SeedCommitInv, SaveIdsInv DEF SeedStep
    <2>3. ASSUME NEW g \in Games, RecordGame(g) PROVE IInv'
      <3>1. GameStep(g) /\ OthersUnchanged /\ UNCHANGED rare /\ rare' \in 0..MaxRare
        BY <2>3, RareType DEF RecordGame
      <3>2. QED
        BY <3>1, InsertRowInv, AbortInv, LockRowInv, CommitInv, ScoreInv DEF GameStep, UnknownUser
    <2>4. CASE BreakDeadlock
      <3>1. PICK t \in Tx : /\ IF t = Seeder THEN SeedExits ELSE Abort(t) /\ OthersUnchanged
                            /\ UNCHANGED rare
        BY <2>4 DEF BreakDeadlock
      <3>2. rare' \in 0..MaxRare
        BY <3>1, RareType
      <3>3. CASE t = Seeder
        BY <3>1, <3>2, <3>3, SeedExitsInv
      <3>4. CASE t \in Games
        BY <3>1, <3>2, <3>4, AbortInv, TxAssumption
      <3>5. QED
        BY <3>3, <3>4
    <2>5. QED
      BY <1>1, <2>1, <2>2, <2>3, <2>4 DEF Progress
  <1>2. ASSUME NEW g \in Games, GameFault(g) PROVE IInv'
    <2>1. GameFails(g) /\ OthersUnchanged /\ rare' \in 0..MaxRare
      BY <1>2, RareType DEF GameFault
    <2>2. QED
      BY <2>1, AbortInv, CommitInv, ScoreInv DEF GameFails
  <1>3. CASE SeedFault
    BY <1>3, RareType, SeedExitsInv DEF SeedFault
  <1>4. QED
    BY <1>1, <1>2, <1>3, RunByHandInv, RegisterInv, EndGameInv, CrashInv, LoseMappingInv,
       LoseRowsInv DEF Next

LEMMA StutterInv == ASSUME IInv, UNCHANGED vars PROVE IInv'
  <1>1. UNCHANGED <<accounts, elo, h2h, locks, step, rest, player, first, seen, told, applied,
                    scored, schema, mapping, phase, served, session, seed, rivals, rare,
                    epoch>>
    BY DEF vars, ratingVars, tables, handler
  <1>2. TypeOK'
    BY <1>1 DEF IInv, TypeOK
  <1>3. HandlersInv' /\ ToldIsApplied'
    BY <1>1, HandlersAlone DEF handler
  <1>4. SeedHolds' /\ PhaseInv' /\ SeedLeft'
    BY <1>1 DEF IInv, SeedHolds, PhaseInv, SeedLeft
  <1>5. QED
    BY <1>2, <1>3, <1>4 DEF IInv

\* The invariant holds always.
LEMMA Inductive == Spec => []IInv
  <1>1. IInv /\ [Next]_vars => IInv'
    BY NextInv, StutterInv
  <1>2. QED
    BY InitInv, <1>1, PTL DEF Spec

\* Every variable keeps its type: TypeOK of BotSeeding.tla.
THEOREM TypesCorrect == Spec => []TypeOK
  <1>1. IInv => TypeOK
    BY DEF IInv
  <1>2. QED
    BY Inductive, <1>1, PTL

\* A change of rating that was told was committed: match.py answers with what
\* _update_elo_ratings returns after its commit.
THEOREM ToldAgrees == Spec => []ToldIsApplied
  <1>1. IInv => ToldIsApplied
    BY DEF IInv
  <1>2. QED
    BY Inductive, <1>1, PTL

-----------------------------------------------------------------------------
(* Every step is one of the ledger, or leaves its variables alone.          *)

LedgerKept == UNCHANGED <<elo, applied, epoch>>

LEMMA InitLedger == Init => Ledger!Init
  <1> SUFFICES ASSUME Init
               PROVE  Ledger!Init
    OBVIOUS
  <1>1. elo \in [Ids -> Rows \cup {None}]
    BY InitInv DEF IInv, TypeOK
  <1>2. applied = [g \in Games |-> None] /\ epoch = 0
    BY DEF Init, RatingInit
  <1>3. QED
    BY <1>1, <1>2 DEF Ledger!Init, Ledger!Rows

LEMMA CommitLedger ==
    ASSUME IInv, NEW g \in Games, NEW t, Commit(g, t), UNCHANGED epoch
    PROVE  Ledger!Play(g)
  <1>1. /\ step[g] = "write" /\ elo' = Updated(g)
        /\ applied' = [applied EXCEPT ![g] = Changes(g)]
    BY DEF Commit
  <1>2. applied[g] = None
    BY <1>1, Typed DEF HandlersInv, Unrated
  <1>3. PICK w \in Ids, l \in Ids :
            Updated(g) = Ledger!Entered(w, l) /\ Changes(g) = Ledger!Change(w, l)
    BY <1>1, UpdatedRows
  <1>4. QED
    BY <1>1, <1>2, <1>3 DEF Ledger!Play

LEMMA SeedLedger == ASSUME IInv, SeedCommit PROVE Ledger!Seed \/ Ledger!Overwrite
  <1>1. UNCHANGED applied /\ epoch' = (IF seed.force THEN epoch + 1 ELSE epoch)
    BY DEF SeedCommit, SeedUnchanged
  <1>2. CASE seed.force
    BY <1>1, <1>2 DEF Ledger!Overwrite
  <1>3. CASE ~seed.force
    <2>1. \A id \in Ids : elo[id] # None => locks[id] # Seeder
      BY <1>3 DEF IInv, SeedHolds
    <2>2. \A id \in Ids : elo[id] # None => elo'[id] = elo[id]
      BY <2>1 DEF SeedCommit
    <2>3. QED
      BY <1>1, <1>3, <2>2 DEF Ledger!Seed
  <1>4. QED
    BY <1>2, <1>3

LEMMA NextLedger == ASSUME IInv, Next PROVE Ledger!Next \/ LedgerKept
  <1>1. CASE Progress
    <2>1. CASE Boot \/ StartServer
      BY <2>1 DEF Boot, StartServer, SeedUnchanged, ratingVars, tables, LedgerKept
    <2>2. CASE SeedStep
      <3>1. CASE SeedCommit
        BY <3>1, SeedLedger DEF Ledger!Next
      <3>2. CASE FindAccount \/ WriteRating \/ SaveIds \/ SeedRefused
        BY <3>2 DEF FindAccount, WriteRating, SaveIds, SeedRefused, SeedExits, SeedUnchanged,
                    LedgerKept
      <3>3. QED
        BY <2>2, <3>1, <3>2 DEF SeedStep
    <2>3. ASSUME NEW g \in Games, RecordGame(g) PROVE Ledger!Next \/ LedgerKept
      <3>1. GameStep(g) /\ UNCHANGED epoch
        BY <2>3 DEF RecordGame, OthersUnchanged
      <3>2. CASE Commit(g, Changes(g))
        BY <3>1, <3>2, CommitLedger DEF Ledger!Next
      <3>3. CASE InsertRow(g) \/ UnknownUser(g) \/ LockRow(g) \/ Score(g)
        BY <3>1, <3>3 DEF InsertRow, UnknownUser, Abort, LockRow, Score, tables, LedgerKept
      <3>4. QED
        BY <3>1, <3>2, <3>3 DEF GameStep
    <2>4. CASE BreakDeadlock
      BY <2>4 DEF BreakDeadlock, SeedExits, SeedUnchanged, Abort, OthersUnchanged, tables,
                  LedgerKept
    <2>5. QED
      BY <1>1, <2>1, <2>2, <2>3, <2>4 DEF Progress
  <1>2. ASSUME NEW g \in Games, GameFault(g) PROVE Ledger!Next \/ LedgerKept
    <2>1. GameFails(g) /\ UNCHANGED epoch
      BY <1>2 DEF GameFault, OthersUnchanged
    <2>2. CASE Commit(g, None)
      BY <2>1, <2>2, CommitLedger DEF Ledger!Next
    <2>3. CASE Abort(g) \/ ScoreFails(g)
      BY <2>1, <2>3 DEF Abort, ScoreFails, tables, LedgerKept
    <2>4. QED
      BY <2>1, <2>2, <2>3 DEF GameFails
  <1>3. CASE LoseRows
    BY <1>3 DEF LoseRows, Ledger!Next, Ledger!Overwrite
  <1>4. CASE SeedFault \/ Crash \/ LoseMapping
    BY <1>4 DEF SeedFault, SeedExits, SeedUnchanged, Crash, GamesDie, LoseMapping, ratingVars,
                tables, LedgerKept
  <1>5. ASSUME NEW force \in ManualModes, RunByHand(force) PROVE LedgerKept
    BY <1>5 DEF RunByHand, ratingVars, tables, LedgerKept
  <1>6. ASSUME NEW h \in Human, Register(h) PROVE LedgerKept
    BY <1>6 DEF Register, LedgerKept
  <1>7. ASSUME NEW g \in Games, EndGame(g) PROVE LedgerKept
    BY <1>7 DEF EndGame, Finish, OthersUnchanged, tables, LedgerKept
  <1>8. QED
    BY <1>1, <1>2, <1>3, <1>4, <1>5, <1>6, <1>7 DEF Next

\* The ratings are serial, for any number of players, games, bots, failures and
\* restarts: _update_elo_ratings of match.py and seed() of bots/seed_elo.py.
THEOREM RatingsSerial == Spec => ImplementsLedger
  <1>1. IInv /\ [Next]_vars => [Ledger!Next]_(Ledger!vars)
    <2> SUFFICES ASSUME IInv, [Next]_vars
                 PROVE  Ledger!Next \/ LedgerKept
      BY DEF LedgerKept, Ledger!vars
    <2>1. CASE UNCHANGED vars
      BY <2>1 DEF vars, ratingVars, tables, LedgerKept
    <2>2. QED
      BY <2>1, NextLedger
  <1>2. Spec => Ledger!Spec
    BY InitLedger, Inductive, <1>1, PTL DEF Spec, Ledger!Spec
  <1>3. QED
    BY <1>2 DEF ImplementsLedger
-----------------------------------------------------------------------------
(* The bots a server knows.                                                *)

\* A known id that is an account is the account of that bot.
Own(ids) == \A b \in Bot : ids[b] # None /\ ids[b] \in Users => accounts[b] = ids[b]

\* The seeding has found the account of bot b.
Found(b) == seed.ids[b] # None /\ seed.ids[b] = accounts[b]

\* A bot it makes an account for has none, and no file has the id of that account.
AddedNew ==
    seed.pc \in {"accounts", "ratings", "commit"} =>
        \A b \in seed.added :
            /\ seed.ids[b] # None /\ seed.ids[b] \notin Users /\ accounts[b] = None
            /\ mapping # None => \A c \in Bot : mapping[c] # seed.ids[b]

\* The bots that the loop over the accounts has dealt with, and all of them when
\* it is over.
FoundOrAdded ==
    /\ seed.pc = "accounts" =>
          \A b \in Bot \ seed.added :
              (\A i \in 1..Len(seed.left) : seed.left[i] # b) => Found(b)
    /\ seed.pc \in {"ratings", "commit"} => \A b \in Bot \ seed.added : Found(b)
    /\ seed.pc = "save" => \A b \in Bot : Found(b)

\* The server starts with the accounts of the bots, and nobody seeds meanwhile.
ReadyToServe ==
    /\ phase \in {"down", "starting"} => seed.pc = "off"
    /\ phase = "starting" =>
          \A b \in Bot : mapping[b] # None /\ mapping[b] = accounts[b]

BotsInv ==
    /\ mapping # None => Own(mapping)
    /\ Own(seed.ids)
    /\ AddedNew /\ FoundOrAdded /\ ReadyToServe /\ ServedBotsExist

LEMMA UsersFacts ==
    ASSUME TypeOK
    PROVE  /\ None \notin Users
           /\ \A n \in Name : accounts[n] # None => accounts[n] \in Users
           /\ \A id \in Users : \E n \in Name : accounts[n] = id
  BY DEF Users

\* A new id is nobody's, in no file and in no seeding.
LEMMA NewIdFacts ==
    ASSUME IInv, NEW id \in Ids, NewId(id)
    PROVE  /\ id # None /\ id \notin Users
           /\ \A b \in Bot : seed.ids[b] # id
           /\ mapping # None => \A b \in Bot : mapping[b] # id
  <1>1. id \notin Users \cup {seed.ids[b] : b \in Bot}
            \cup (IF mapping = None THEN {} ELSE {mapping[b] : b \in Bot})
    BY DEF NewId, Referred
  <1>2. QED
    BY <1>1, IdAssumption

LEMMA BotsAlone ==
    ASSUME BotsInv, UNCHANGED <<accounts, mapping, seed, phase, served>>
    PROVE  BotsInv'
  BY DEF BotsInv, Own, AddedNew, FoundOrAdded, Found, ReadyToServe, ServedBotsExist, Users

\* No seeding is under way.
LEMMA NoSeeding ==
    ASSUME seed' = Idle
    PROVE  Own(seed.ids)' /\ AddedNew' /\ FoundOrAdded'
  BY DEF Idle, NoIds, Own, AddedNew, FoundOrAdded

LEMMA StartSeedingBots ==
    ASSUME IInv, BotsInv, NEW force \in BOOLEAN, StartSeeding(force),
           UNCHANGED <<accounts, mapping, served>>,
           (phase' = "seeding") \/ (phase = "up" /\ phase' = "up")
    PROVE  BotsInv'
  <1>1. /\ seed'.pc = "accounts" /\ seed'.ids = Loaded /\ seed'.left = BotOrder
        /\ seed'.added = {}
    BY DEF StartSeeding
  <1>2. Own(Loaded)
    BY DEF BotsInv, Own, Loaded, NoIds
  <1>3. Own(seed.ids)' /\ (mapping # None => Own(mapping))'
    BY <1>1, <1>2 DEF BotsInv, Own, Users
  <1>4. AddedNew'
    BY <1>1 DEF AddedNew
  <1>5. FoundOrAdded'
    <2>1. \A b \in Bot : \E i \in 1..Len(BotOrder) : BotOrder[i] = b
      <3>1. DOMAIN BotOrder = 1..Len(BotOrder)
        BY BotOrderType
      <3>2. QED
        BY <3>1, RatingsAssumption
    <2>2. QED
      BY <1>1, <2>1 DEF FoundOrAdded
  <1>6. ReadyToServe' /\ ServedBotsExist'
    BY DEF BotsInv, ReadyToServe, ServedBotsExist
  <1>7. QED
    BY <1>3, <1>4, <1>5, <1>6 DEF BotsInv

\* A turn of a loop of seed(): what is left is what was, without its head.
LEMMA AdvanceLeft ==
    ASSUME NEW s \in Seeding, s.left # <<>>, NEW pc \in {"ratings", "commit"}
    PROVE  /\ Advance(s, pc).added = s.added /\ Advance(s, pc).ids = s.ids
           /\ \/ /\ Advance(s, pc).pc = s.pc
                 /\ \A b \in Bot : (\A i \in 1..Len(Advance(s, pc).left) :
                                      Advance(s, pc).left[i] # b)
                        => b = Head(s.left) \/ \A i \in 1..Len(s.left) : s.left[i] # b
              \/ /\ Advance(s, pc).pc = pc
                 /\ \A b \in Bot : b = Head(s.left) \/ \A i \in 1..Len(s.left) : s.left[i] # b
  <1>1. s.left \in Seq(Bot) /\ s.left # <<>>
    BY DEF Seeding
  <1>2. PICK t \in Seq(Bot), h \in Bot :
            /\ h = Head(s.left) /\ t = Tail(s.left) /\ h = s.left[1]
            /\ Len(s.left) \in Nat /\ Len(t) = Len(s.left) - 1
            /\ \A i \in 1..Len(t) : t[i] = s.left[i + 1]
    <2>1. Tail(s.left) \in Seq(Bot) /\ Head(s.left) \in Bot /\ Head(s.left) = s.left[1]
      BY <1>1
    <2>2. Len(s.left) \in Nat /\ Len(Tail(s.left)) = Len(s.left) - 1
      BY <1>1
    <2>3. \A i \in 1..Len(Tail(s.left)) : Tail(s.left)[i] = s.left[i + 1]
      BY <1>1
    <2>4. QED
      BY <2>1, <2>2, <2>3
  <1>3. ASSUME NEW b \in Bot, \A i \in 1..Len(t) : t[i] # b
        PROVE  b = h \/ \A i \in 1..Len(s.left) : s.left[i] # b
    <2> SUFFICES ASSUME b # h, NEW i \in 1..Len(s.left), s.left[i] = b PROVE FALSE
      OBVIOUS
    <2>1. i # 1 /\ i - 1 \in 1..Len(t)
      BY <1>2
    <2>2. t[i - 1] = s.left[(i - 1) + 1]
      BY <1>2, <2>1
    <2>3. QED
      BY <2>1, <2>2, <1>3
  <1>4. CASE t # <<>>
    <2>1. Advance(s, pc) = [s EXCEPT !.left = t]
      BY <1>2, <1>4 DEF Advance
    <2>2. /\ Advance(s, pc).added = s.added /\ Advance(s, pc).ids = s.ids
          /\ Advance(s, pc).pc = s.pc /\ Advance(s, pc).left = t
      BY <2>1 DEF Seeding
    <2>3. QED
      BY <2>2, <1>2, <1>3
  <1>5. CASE t = <<>>
    <2>1. Advance(s, pc) = [s EXCEPT !.left = BotOrder, !.pc = pc]
      BY <1>2, <1>5 DEF Advance
    <2>2. /\ Advance(s, pc).added = s.added /\ Advance(s, pc).ids = s.ids
          /\ Advance(s, pc).pc = pc
      BY <2>1 DEF Seeding
    <2>3. \A i \in 1..Len(t) : FALSE
      BY <1>5
    <2>4. QED
      BY <2>2, <2>3, <1>2, <1>3
  <1>6. QED
    BY <1>4, <1>5

\* One turn of the loop over the accounts: bot b is dealt with.
LEMMA TurnBots ==
    ASSUME IInv, BotsInv, seed.pc = "accounts", NEW s \in Seeding, NEW b \in Bot,
           b = Current, s.pc = "accounts", s.left = seed.left,
           seed' = Advance(s, "ratings"),
           UNCHANGED <<accounts, mapping, served, phase>>,
           \A c \in Bot \ {b} : s.ids[c] = seed.ids[c],
           s.ids[b] # None, s.ids[b] \in Users => accounts[b] = s.ids[b],
           \/ s.added = seed.added /\ b \notin seed.added /\ s.ids[b] = accounts[b]
           \/ /\ s.added = seed.added \cup {b} /\ accounts[b] = None
              /\ s.ids[b] \notin Users
              /\ mapping # None => \A c \in Bot : mapping[c] # s.ids[b]
    PROVE  BotsInv'
  <1>1. seed.left # <<>> /\ b = Head(s.left) /\ UNCHANGED Users
    BY DEF IInv, SeedLeft, Current, Users
  <1>2. /\ seed'.added = s.added /\ seed'.ids = s.ids
        /\ \/ /\ seed'.pc = "accounts"
              /\ \A c \in Bot : (\A i \in 1..Len(seed'.left) : seed'.left[i] # c)
                     => c = b \/ \A i \in 1..Len(seed.left) : seed.left[i] # c
           \/ /\ seed'.pc = "ratings"
              /\ \A c \in Bot : c = b \/ \A i \in 1..Len(seed.left) : seed.left[i] # c
    BY <1>1, AdvanceLeft
  <1>3. Own(seed.ids)' /\ (mapping # None => Own(mapping))'
    BY <1>1, <1>2 DEF BotsInv, Own
  <1>4. AddedNew'
    <2>1. AddedNew /\ seed.added \subseteq Bot
      BY DEF BotsInv, IInv, TypeOK, Seeding
    <2>2. QED
      BY <1>1, <1>2, <2>1 DEF AddedNew
  <1>5. ASSUME NEW c \in Bot \ s.added,
               c = b \/ \A i \in 1..Len(seed.left) : seed.left[i] # c
        PROVE  Found(c)'
    <2>1. CASE c = b
      BY <2>1, <1>2, <1>5 DEF Found
    <2>2. CASE c # b
      <3>1. Found(c)
        BY <1>5, <2>2 DEF BotsInv, FoundOrAdded
      <3>2. QED
        BY <2>2, <3>1, <1>2 DEF Found
    <2>3. QED
      BY <2>1, <2>2
  <1>6. FoundOrAdded'
    BY <1>2, <1>5 DEF FoundOrAdded
  <1>7. ReadyToServe' /\ ServedBotsExist'
    BY <1>2 DEF BotsInv, ReadyToServe, ServedBotsExist
  <1>8. QED
    BY <1>3, <1>4, <1>6, <1>7 DEF BotsInv

LEMMA FindAccountBots == ASSUME IInv, BotsInv, FindAccount PROVE BotsInv'
  <1>1. /\ seed.pc = "accounts"
        /\ UNCHANGED <<accounts, mapping, phase, served>>
    BY DEF FindAccount, SeedUnchanged
  <1>2. PICK b \in Bot : b = Current /\ seed \in Seeding
                         /\ accounts[b] \in Ids \cup {None} /\ b \in Name
    BY <1>1, SeedUsed, NameAssumption DEF IInv, TypeOK
  <1>3. seed.added \subseteq Bot /\ seed.ids \in [Bot -> Ids \cup {None}]
    BY <1>2 DEF Seeding
  <1>4. b \in seed.added => seed.ids[b] \notin Users /\ accounts[b] = None
    BY <1>1 DEF BotsInv, AddedNew
  <1>5. CASE Verified(b) /\ seed' = Advance(seed, "ratings")
    <2>1. seed.ids[b] # None /\ seed.ids[b] \in Users /\ seed.ids[b] = accounts[b]
      BY <1>5 DEF Verified, BotsInv, Own
    <2>2. b \notin seed.added
      BY <1>4, <2>1
    <2>3. QED
      BY <1>1, <1>2, <1>5, <2>1, <2>2, TurnBots
  <1>6. CASE /\ Recovered(b) # None
             /\ seed' = Advance([seed EXCEPT !.ids[b] = Recovered(b)], "ratings")
    <2> DEFINE s == [seed EXCEPT !.ids[b] = accounts[b]]
    <2>1. accounts[b] # None /\ seed' = Advance(s, "ratings")
      BY <1>6 DEF Recovered
    <2>2. /\ s \in Seeding /\ s.pc = "accounts" /\ s.left = seed.left /\ s.added = seed.added
          /\ s.ids[b] = accounts[b] /\ \A c \in Bot \ {b} : s.ids[c] = seed.ids[c]
      BY <1>1, <1>2 DEF Seeding
    <2>3. b \notin seed.added
      BY <1>4, <2>1
    <2> HIDE DEF s
    <2>4. QED
      BY <1>1, <1>2, <2>1, <2>2, <2>3, TurnBots
  <1>7. ASSUME NEW id \in Ids, NewId(id), accounts[b] = None,
               seed' = Advance([seed EXCEPT !.ids[b] = id, !.added = @ \cup {b}], "ratings")
        PROVE  BotsInv'
    <2> DEFINE s == [seed EXCEPT !.ids[b] = id, !.added = @ \cup {b}]
    <2>1. seed' = Advance(s, "ratings")
      BY <1>7
    <2>2. /\ s \in Seeding /\ s.pc = "accounts" /\ s.left = seed.left
          /\ s.added = seed.added \cup {b}
          /\ s.ids[b] = id /\ \A c \in Bot \ {b} : s.ids[c] = seed.ids[c]
      BY <1>1, <1>2 DEF Seeding
    <2>3. /\ id # None /\ id \notin Users
          /\ mapping # None => \A c \in Bot : mapping[c] # id
      BY <1>7, NewIdFacts
    <2> HIDE DEF s
    <2>4. QED
      BY <1>1, <1>2, <1>7, <2>1, <2>2, <2>3, TurnBots
  <1>8. QED
    BY <1>2, <1>5, <1>6, <1>7 DEF FindAccount

LEMMA WriteRatingBots == ASSUME IInv, BotsInv, WriteRating PROVE BotsInv'
  <1>1. /\ seed.pc = "ratings" /\ seed' = Advance(seed, "commit")
        /\ UNCHANGED <<accounts, mapping, phase, served>>
    BY DEF WriteRating, SeedUnchanged
  <1>2. seed \in Seeding /\ seed.left # <<>>
    BY <1>1, SeedUsed
  <1>3. /\ seed'.added = seed.added /\ seed'.ids = seed.ids
        /\ seed'.pc \in {"ratings", "commit"}
    BY <1>1, <1>2, AdvanceLeft
  <1>4. Own(seed.ids)' /\ (mapping # None => Own(mapping))' /\ AddedNew'
    BY <1>1, <1>3 DEF BotsInv, Own, AddedNew, Users
  <1>5. FoundOrAdded'
    BY <1>1, <1>3 DEF BotsInv, FoundOrAdded, Found
  <1>6. ReadyToServe' /\ ServedBotsExist'
    BY <1>1, <1>3 DEF BotsInv, ReadyToServe, ServedBotsExist
  <1>7. QED
    BY <1>4, <1>5, <1>6 DEF BotsInv

LEMMA SeedCommitBots == ASSUME IInv, BotsInv, SeedCommit PROVE BotsInv'
  <1>1. /\ seed.pc = "commit" /\ seed' = [seed EXCEPT !.pc = "save"]
        /\ accounts' = [n \in Name |-> IF n \in seed.added THEN seed.ids[n] ELSE accounts[n]]
        /\ UNCHANGED <<mapping, phase, served>>
    BY DEF SeedCommit, SeedUnchanged
  <1>2. /\ seed \in Seeding /\ seed.added \subseteq Bot /\ Bot \subseteq Name
        /\ accounts \in [Name -> Ids \cup {None}]
    BY NameAssumption DEF IInv, TypeOK, Seeding
  <1>3. seed'.pc = "save" /\ seed'.ids = seed.ids
    BY <1>1, <1>2 DEF Seeding
  <1>4. /\ \A b \in Bot \ seed.added : Found(b)
        /\ \A b \in seed.added : /\ seed.ids[b] # None /\ accounts[b] = None
                                 /\ mapping # None => \A c \in Bot : mapping[c] # seed.ids[b]
    BY <1>1 DEF BotsInv, AddedNew, FoundOrAdded
  <1>5. \A b \in Bot : seed.ids[b] # None /\ accounts'[b] = seed.ids[b]
    BY <1>1, <1>2, <1>4 DEF Found
  <1>6. Own(seed.ids)' /\ AddedNew' /\ FoundOrAdded'
    BY <1>3, <1>5 DEF Own, AddedNew, FoundOrAdded, Found
  <1>7. ASSUME mapping # None, NEW b \in Bot, mapping[b] # None, mapping[b] \in Users'
        PROVE  accounts'[b] = mapping[b]
    <2>1. PICK n \in Name : accounts'[n] = mapping[b]
      BY <1>7 DEF Users
    <2>2. n \notin seed.added
      BY <1>1, <1>4, <1>7, <2>1
    <2>3. accounts[n] = mapping[b] /\ mapping[b] \in Users
      BY <1>1, <1>7, <2>1, <2>2 DEF Users
    <2>4. accounts[b] = mapping[b]
      BY <1>7, <2>3 DEF BotsInv, Own
    <2>5. b \notin seed.added
      BY <1>4, <1>7, <2>4
    <2>6. QED
      BY <1>1, <1>2, <2>4, <2>5
  <1>8. (mapping # None => Own(mapping))'
    BY <1>1, <1>7 DEF Own
  <1>9. ReadyToServe' /\ ServedBotsExist'
    <2>1. phase \notin {"down", "starting"}
      BY <1>1 DEF BotsInv, ReadyToServe
    <2>2. ASSUME phase = "up", NEW b \in Bot PROVE served[b] # None /\ served[b] = accounts'[b]
      <3>1. served[b] # None /\ served[b] = accounts[b]
        BY <2>2 DEF BotsInv, ServedBotsExist
      <3>2. b \notin seed.added
        BY <1>4, <3>1
      <3>3. QED
        BY <1>1, <1>2, <3>1, <3>2
    <2>3. QED
      BY <1>1, <2>1, <2>2 DEF ReadyToServe, ServedBotsExist
  <1>10. QED
    BY <1>6, <1>8, <1>9 DEF BotsInv

LEMMA SaveIdsBots == ASSUME IInv, BotsInv, SaveIds PROVE BotsInv'
  <1>1. /\ seed.pc = "save" /\ mapping' = seed.ids /\ seed' = Idle
        /\ phase' = (IF phase = "seeding" THEN "starting" ELSE phase)
        /\ UNCHANGED <<accounts, served>>
    BY DEF SaveIds, SeedUnchanged
  <1>2. \A b \in Bot : seed.ids[b] # None /\ seed.ids[b] = accounts[b]
    BY <1>1 DEF BotsInv, FoundOrAdded, Found
  <1>3. (mapping # None => Own(mapping))'
    BY <1>1 DEF BotsInv, Own, Users
  <1>4. ReadyToServe' /\ ServedBotsExist'
    BY <1>1, <1>2 DEF BotsInv, ReadyToServe, ServedBotsExist, Idle
  <1>5. QED
    BY <1>1, <1>3, <1>4, NoSeeding DEF BotsInv

\* The seeding, or the container with it, stops.
LEMMA StoppedBots ==
    ASSUME BotsInv, seed' = Idle, UNCHANGED <<accounts, mapping>>,
           phase' = "down" \/ UNCHANGED <<phase, served>>
    PROVE  BotsInv'
  <1>1. (mapping # None => Own(mapping))'
    BY DEF BotsInv, Own, Users
  <1>2. ReadyToServe' /\ ServedBotsExist'
    BY DEF BotsInv, ReadyToServe, ServedBotsExist, Idle
  <1>3. QED
    BY <1>1, <1>2, NoSeeding DEF BotsInv

LEMMA SeedExitsBots == ASSUME BotsInv, SeedExits PROVE BotsInv'
  BY StoppedBots DEF SeedExits, SeedUnchanged

LEMMA StartServerBots == ASSUME IInv, BotsInv, StartServer PROVE BotsInv'
  <1>1. /\ phase = "starting" /\ phase' = "up" /\ served' = [b \in Bot |-> mapping[b]]
        /\ UNCHANGED <<accounts, mapping, seed>>
    BY DEF StartServer, ratingVars, tables
  <1>2. /\ (mapping # None => Own(mapping))' /\ Own(seed.ids)'
        /\ AddedNew' /\ FoundOrAdded'
    BY <1>1 DEF BotsInv, Own, AddedNew, FoundOrAdded, Found, Users
  <1>3. ReadyToServe' /\ ServedBotsExist'
    BY <1>1 DEF BotsInv, ReadyToServe, ServedBotsExist
  <1>4. QED
    BY <1>2, <1>3 DEF BotsInv

LEMMA RegisterBots == ASSUME IInv, BotsInv, NEW h \in Human, Register(h) PROVE BotsInv'
  <1>1. PICK id \in Ids : /\ phase = "up" /\ NewId(id) /\ accounts[h] = None
                          /\ accounts' = [accounts EXCEPT ![h] = id]
                          /\ UNCHANGED <<mapping, phase, served, seed>>
    BY DEF Register
  <1>2. /\ accounts \in [Name -> Ids \cup {None}] /\ h \in Name /\ h \notin Bot
        /\ Bot \subseteq Name
    BY NameAssumption DEF IInv, TypeOK
  <1>3. /\ id # None /\ \A b \in Bot : seed.ids[b] # id
        /\ mapping # None => \A b \in Bot : mapping[b] # id
    BY <1>1, NewIdFacts
  <1>4. /\ \A b \in Bot : accounts'[b] = accounts[b]
        /\ Users' \subseteq Users \cup {id}
    BY <1>1, <1>2 DEF Users
  <1>5. (mapping # None => Own(mapping))' /\ Own(seed.ids)'
    BY <1>1, <1>3, <1>4 DEF BotsInv, Own
  <1>6. AddedNew' /\ FoundOrAdded'
    <2>1. seed.added \subseteq Bot
      BY DEF IInv, TypeOK, Seeding
    <2>2. QED
      BY <1>1, <1>3, <1>4, <2>1 DEF BotsInv, AddedNew, FoundOrAdded, Found
  <1>7. ReadyToServe' /\ ServedBotsExist'
    BY <1>1, <1>4 DEF BotsInv, ReadyToServe, ServedBotsExist
  <1>8. QED
    BY <1>5, <1>6, <1>7 DEF BotsInv

\* The container is down and the file, or the rows, are lost.
LEMMA LossBots == ASSUME IInv, BotsInv, LoseMapping \/ LoseRows PROVE BotsInv'
  <1>1. phase = "down" /\ seed.pc = "off" /\ UNCHANGED <<phase, seed>>
    BY DEF LoseMapping, LoseRows, BotsInv, ReadyToServe
  <1>2. \/ mapping' = None /\ accounts' = accounts
        \/ mapping' = mapping /\ accounts' = NoAccounts
    BY DEF LoseMapping, LoseRows, ratingVars, tables
  <1>3. CASE mapping' = None /\ accounts' = accounts
    BY <1>1, <1>3 DEF BotsInv, Own, AddedNew, FoundOrAdded, ReadyToServe, ServedBotsExist, Users
  <1>4. CASE mapping' = mapping /\ accounts' = NoAccounts
    <2>1. Users' = {}
      BY <1>4 DEF Users, NoAccounts
    <2>2. QED
      BY <1>1, <1>4, <2>1 DEF BotsInv, Own, AddedNew, FoundOrAdded, ReadyToServe, ServedBotsExist
  <1>5. QED
    BY <1>2, <1>3, <1>4

LEMMA InitBots == Init => BotsInv
  <1> SUFFICES ASSUME Init PROVE BotsInv
    OBVIOUS
  <1>1. seed = Idle /\ phase = "down"
    BY DEF Init
  <1>2. mapping = None \/ (accounts = FirstIds /\ mapping = [b \in Bot |-> FirstIds[b]])
    BY DEF Init
  <1>3. mapping # None => Own(mapping)
    BY <1>2 DEF Own
  <1>4. QED
    BY <1>1, <1>3 DEF BotsInv, Own, AddedNew, FoundOrAdded, ReadyToServe, ServedBotsExist,
                      Idle, NoIds

LEMMA NextBots == ASSUME IInv, BotsInv, Next PROVE BotsInv'
  <1>1. CASE Progress
    <2>1. CASE Boot
      <3>1. /\ phase' = "seeding" /\ StartSeeding(FALSE)
            /\ UNCHANGED <<accounts, mapping, served>>
        BY <2>1 DEF Boot, SeedUnchanged
      <3>2. QED
        BY <3>1, StartSeedingBots
    <2>2. CASE SeedStep
      BY <2>2, FindAccountBots, WriteRatingBots, SeedCommitBots, SaveIdsBots, SeedExitsBots
      DEF SeedStep, SeedRefused
    <2>3. ASSUME NEW g \in Games, RecordGame(g) PROVE BotsInv'
      <3>1. UNCHANGED <<accounts, mapping, seed, phase, served>>
        BY <2>3 DEF RecordGame, OthersUnchanged, GameStep, InsertRow, UnknownUser, Abort,
                    LockRow, Commit, Score, tables
      <3>2. QED
        BY <3>1, BotsAlone
    <2>4. CASE BreakDeadlock
      <3>1. SeedExits \/ \E t \in Tx : Abort(t) /\ OthersUnchanged
        BY <2>4 DEF BreakDeadlock
      <3>2. CASE \E t \in Tx : Abort(t) /\ OthersUnchanged
        BY <3>2, BotsAlone DEF OthersUnchanged, Abort, tables
      <3>3. QED
        BY <3>1, <3>2, SeedExitsBots
    <2>5. QED
      BY <1>1, <2>1, <2>2, <2>3, <2>4, StartServerBots DEF Progress
  <1>2. ASSUME NEW force \in ManualModes, RunByHand(force) PROVE BotsInv'
    <2>1. /\ phase = "up" /\ StartSeeding(force) /\ force \in BOOLEAN
          /\ UNCHANGED <<accounts, mapping, phase, served>>
      BY <1>2, ModeAssumption DEF RunByHand, ratingVars, tables
    <2>2. QED
      BY <2>1, StartSeedingBots
  <1>3. ASSUME NEW g \in Games, EndGame(g) \/ GameFault(g) PROVE BotsInv'
    <2>1. UNCHANGED <<accounts, mapping, seed, phase, served>>
      BY <1>3 DEF EndGame, GameFault, OthersUnchanged, Finish, GameFails, Abort, Commit,
                  ScoreFails, tables
    <2>2. QED
      BY <2>1, BotsAlone
  <1>4. CASE Crash
    BY <1>4, StoppedBots DEF Crash, tables
  <1>5. QED
    BY <1>1, <1>2, <1>3, <1>4, RegisterBots, SeedExitsBots, LossBots DEF Next, SeedFault

\* A running server knows each bot by the account that has its name, whatever
\* crashed or was lost before it started: seed() of bots/seed_elo.py, load() of
\* bots/registry.py.
THEOREM BotsAreServed == Spec => []ServedBotsExist
  <1>1. BotsInv => ServedBotsExist
    BY DEF BotsInv
  <1>2. IInv /\ BotsInv /\ [Next]_vars => BotsInv'
    <2> SUFFICES ASSUME IInv, BotsInv, [Next]_vars PROVE BotsInv'
      OBVIOUS
    <2>1. CASE UNCHANGED vars
      BY <2>1, BotsAlone DEF vars, ratingVars, tables
    <2>2. QED
      BY <2>1, NextBots
  <1>3. QED
    BY <1>1, <1>2, InitBots, Inductive, PTL DEF Spec

-----------------------------------------------------------------------------
(* The record of two players.                                              *)

\* The counted games that a won against b, and what a row says of them.
Won(a, b) == {g \in scored : player[g] = [winner |-> a, loser |-> b]}
Record(p) == [player1_wins |-> Cardinality(Won(p[1], p[2])),
              player2_wins |-> Cardinality(Won(p[2], p[1]))]

\* A game is counted once.
CountedOnce(g) ==
    /\ step[g] = "score" => rest[g] # "score"
    /\ g \in scored => step[g] \notin {"play", "score"} /\ rest[g] # "score"

RecordInv ==
    /\ IsFiniteSet(scored)
    /\ \A g \in Games : CountedOnce(g)
    /\ \A p \in Pairs : h2h[p] = Record(p)

\* The games counted, and their players, stay.
LEMMA RecordAlone ==
    ASSUME RecordInv, UNCHANGED <<h2h, scored>>,
           \A g \in scored : player'[g] = player[g],
           \A g \in Games : CountedOnce(g)'
    PROVE  RecordInv'
  <1>1. ASSUME NEW a, NEW b PROVE Won(a, b)' = Won(a, b)
    BY DEF Won
  <1>2. \A p \in Pairs : Record(p)' = Record(p)
    BY <1>1 DEF Record
  <1>3. QED
    BY <1>2 DEF RecordInv

\* How a handler may move without being counted.
Moves(g) ==
    \/ UNCHANGED <<step[g], rest[g]>>
    \/ step[g] \in Rating /\ step'[g] \in Rating /\ rest'[g] = rest[g]
    \/ step[g] # "play" /\ step'[g] = rest[g] /\ rest'[g] = "done"
    \/ /\ step[g] = "play" /\ step'[g] # "play"
       /\ rest'[g] # "done" /\ step'[g] # rest'[g]
    \/ /\ step'[g] = (IF step[g] = "play" THEN "play" ELSE "done")
       /\ rest'[g] = "done"

LEMMA MovesCounted ==
    ASSUME RecordInv, NEW g \in Games, Moves(g), UNCHANGED scored, TypeOK
    PROVE  CountedOnce(g)'
  <1>1. CountedOnce(g)
    BY DEF RecordInv
  <1>2. rest[g] \in {"score", "insert winner", "done"}
    BY DEF TypeOK
  <1>3. QED
    BY <1>1, <1>2 DEF CountedOnce, Moves

\* A handler that moves while the others stay.
LEMMA OneMoves ==
    ASSUME IInv, RecordInv, NEW g \in Games, UNCHANGED <<h2h, scored>>, Moves(g),
           \A k \in Games \ {g} : UNCHANGED <<step[k], rest[k]>>,
           \A k \in scored : player'[k] = player[k]
    PROVE  RecordInv'
  <1>1. \A k \in Games : Moves(k)
    BY DEF Moves
  <1>2. \A k \in Games : CountedOnce(k)'
    BY <1>1, MovesCounted DEF IInv
  <1>3. QED
    BY <1>2, RecordAlone

\* Proceed, of a handler that is at work.
LEMMA ProceedMoves ==
    ASSUME IInv, NEW g \in Games, Proceed(g), step[g] # "play"
    PROVE  Moves(g) /\ \A k \in Games \ {g} : UNCHANGED <<step[k], rest[k]>>
  BY Typed DEF HandlersTyped, Proceed, Moves

LEMMA StatementRecord ==
    ASSUME IInv, RecordInv, NEW g \in Games, InsertRow(g) \/ LockRow(g)
    PROVE  RecordInv'
  <1>1. /\ step[g] \in Rating /\ UNCHANGED <<h2h, scored, rest, player>>
        /\ \/ step' = [step EXCEPT ![g] = "insert loser"]
           \/ step' = [step EXCEPT ![g] = "lock first"]
           \/ step' = [step EXCEPT ![g] = "lock second"]
           \/ step' = [step EXCEPT ![g] = "write"]
    BY DEF InsertRow, LockRow, tables
  <1>2. /\ step'[g] \in {"insert loser", "lock first", "lock second", "write"}
        /\ \A k \in Games \ {g} : step'[k] = step[k]
    BY <1>1, Typed DEF HandlersTyped
  <1>3. Moves(g)
    BY <1>1, <1>2 DEF Moves
  <1>4. QED
    BY <1>1, <1>2, <1>3, OneMoves

\* A transaction that ends without counting its game: also UnknownUser.
LEMMA EndRecord ==
    ASSUME IInv, RecordInv, NEW g \in Games,
           Abort(g) \/ ScoreFails(g) \/ \E answer \in {Changes(g), None} : Commit(g, answer)
    PROVE  RecordInv'
  <1>1. step[g] # "play" /\ Proceed(g) /\ UNCHANGED <<h2h, scored, player>>
    BY DEF Abort, ScoreFails, Commit, EndRating, tables
  <1>2. QED
    BY <1>1, ProceedMoves, OneMoves

LEMMA FinishRecord ==
    ASSUME IInv, RecordInv, NEW g \in Games, NEW w, NEW l,
           NEW reason \in {"completed", "left"}, Finish(g, w, l, reason)
    PROVE  RecordInv'
  <1>1. /\ step[g] = "play" /\ UNCHANGED <<h2h, scored>>
        /\ player' = [player EXCEPT ![g] = [winner |-> w, loser |-> l]]
        /\ \/ /\ step' = [step EXCEPT ![g] = "insert winner"]
              /\ rest' = [rest EXCEPT ![g] = "score"]
           \/ /\ step' = [step EXCEPT ![g] = "score"]
              /\ rest' = [rest EXCEPT ![g] = "insert winner"]
    BY DEF Finish, tables
  <1>2. /\ \/ step'[g] = "insert winner" /\ rest'[g] = "score"
           \/ step'[g] = "score" /\ rest'[g] = "insert winner"
        /\ \A k \in Games \ {g} : UNCHANGED <<step[k], rest[k], player[k]>>
    BY <1>1, Typed DEF HandlersTyped
  <1>3. Moves(g)
    BY <1>1, <1>2 DEF Moves
  <1>4. g \notin scored /\ scored \subseteq Games
    BY <1>1 DEF RecordInv, CountedOnce, IInv, TypeOK
  <1>5. \A k \in scored : player'[k] = player[k]
    BY <1>2, <1>4
  <1>6. QED
    BY <1>1, <1>2, <1>3, <1>5, OneMoves

LEMMA WonFinite ==
    ASSUME RecordInv, NEW a, NEW b
    PROVE  IsFiniteSet(Won(a, b)) /\ Cardinality(Won(a, b)) \in Nat
  <1>1. Won(a, b) \subseteq scored
    BY DEF Won
  <1>2. QED
    BY <1>1, FS_Subset, FS_CardinalityType DEF RecordInv

LEMMA PairPlayers ==
    ASSUME NEW p \in Pairs
    PROVE  \E a \in Ids, b \in Ids : /\ p = <<a, b>> /\ p[1] = a /\ p[2] = b /\ a < b
                                     /\ a \in Int /\ b \in Int
  <1>1. p \in Ids \X Ids /\ p[1] < p[2]
    BY DEF Pairs
  <1>2. p[1] \in Ids /\ p[2] \in Ids /\ p = <<p[1], p[2]>>
    BY <1>1
  <1>3. \A a \in Ids : a \in Int
    BY IdAssumption
  <1>4. QED
    BY <1>1, <1>2, <1>3

\* A game that was not counted is.
LEMMA CountRecord ==
    ASSUME IInv, RecordInv, NEW g \in Games \ scored, NEW w \in Ids, NEW l \in Ids,
           w # l, player[g] = [winner |-> w, loser |-> l], UNCHANGED player,
           h2h' = [h2h EXCEPT ![Key(w, l)][Column(w, l)] = @ + 1],
           scored' = scored \cup {g}
    PROVE  \A p \in Pairs : h2h'[p] = Record(p)'
  <1>1. ASSUME NEW a, NEW b
        PROVE  Cardinality(Won(a, b)') = Cardinality(Won(a, b))
                                           + (IF a = w /\ b = l THEN 1 ELSE 0)
    <2>1. CASE a = w /\ b = l
      <3>1. Won(a, b)' = Won(a, b) \cup {g} /\ g \notin Won(a, b)
        BY <2>1 DEF Won
      <3>2. QED
        BY <2>1, <3>1, WonFinite, FS_AddElement
    <2>2. CASE ~(a = w /\ b = l)
      <3>1. player[g] # [winner |-> a, loser |-> b]
        BY <2>2
      <3>2. Won(a, b)' = Won(a, b)
        BY <3>1 DEF Won
      <3>3. QED
        BY <2>2, <3>2, WonFinite
    <2>3. QED
      BY <2>1, <2>2
  <1>2. h2h \in [Pairs -> [player1_wins : Nat, player2_wins : Nat]]
    BY DEF IInv, TypeOK
  <1> SUFFICES ASSUME NEW p \in Pairs PROVE h2h'[p] = Record(p)'
    OBVIOUS
  <1>3. PICK a \in Ids, b \in Ids : /\ p = <<a, b>> /\ p[1] = a /\ p[2] = b /\ a < b
                                    /\ a \in Int /\ b \in Int
    BY PairPlayers
  <1>4. /\ h2h[p] = [player1_wins |-> Cardinality(Won(a, b)),
                     player2_wins |-> Cardinality(Won(b, a))]
        /\ Record(p)' = [player1_wins |-> Cardinality(Won(a, b)'),
                         player2_wins |-> Cardinality(Won(b, a)')]
    BY <1>3 DEF RecordInv, Record
  <1>5. CASE a = w /\ b = l
    <2>1. Key(w, l) = p /\ Column(w, l) = "player1_wins" /\ ~(b = w /\ a = l)
      BY <1>3, <1>5 DEF Key, Column
    <2>2. h2h'[p] = [h2h[p] EXCEPT !.player1_wins = @ + 1]
      BY <1>2, <2>1
    <2>3. QED
      BY <1>1, <1>4, <1>5, <2>1, <2>2, WonFinite
  <1>6. CASE a = l /\ b = w
    <2>1. Key(w, l) = p /\ Column(w, l) = "player2_wins" /\ ~(a = w /\ b = l)
      BY <1>3, <1>6 DEF Key, Column
    <2>2. h2h'[p] = [h2h[p] EXCEPT !.player2_wins = @ + 1]
      BY <1>2, <2>1
    <2>3. QED
      BY <1>1, <1>4, <1>6, <2>1, <2>2, WonFinite
  <1>7. CASE ~(a = w /\ b = l) /\ ~(a = l /\ b = w)
    <2>1. Key(w, l) \in {<<w, l>>, <<l, w>>} /\ Key(w, l) # p
      BY <1>3, <1>7 DEF Key
    <2>2. h2h'[p] = h2h[p]
      BY <1>2, <2>1
    <2>3. QED
      BY <1>1, <1>4, <1>7, <2>2, WonFinite
  <1>8. QED
    BY <1>5, <1>6, <1>7

LEMMA ScoreRecord ==
    ASSUME IInv, RecordInv, NEW g \in Games, Score(g)
    PROVE  RecordInv'
  <1>1. step[g] = "score" /\ Proceed(g) /\ UNCHANGED player
    BY DEF Score
  <1>2. CASE UNCHANGED <<h2h, scored>>
    BY <1>1, <1>2, ProceedMoves, OneMoves
  <1>3. CASE ~UNCHANGED <<h2h, scored>>
    <2>1. g \notin scored /\ rest[g] # "score" /\ scored \subseteq Games
      BY <1>1 DEF RecordInv, CountedOnce, IInv, TypeOK
    <2>2. /\ step'[g] = rest[g] /\ rest'[g] = "done" /\ rest[g] \in {"insert winner", "done"}
          /\ \A k \in Games \ {g} : UNCHANGED <<step[k], rest[k]>>
      BY <1>1, <2>1, Typed DEF HandlersTyped, Proceed
    <2>3. player[g] \in [Side -> Ids]
      BY <1>1, Typed DEF HandlersTyped
    <2>4. PICK w \in Ids, l \in Ids : w = player[g].winner /\ l = player[g].loser
      BY <2>3
    <2>5. player[g] = [winner |-> w, loser |-> l]
      BY <2>3, <2>4
    <2>6. /\ w # l /\ h2h' = [h2h EXCEPT ![Key(w, l)][Column(w, l)] = @ + 1]
          /\ scored' = scored \cup {g}
      BY <1>3, <2>4 DEF Score
    <2>7. \A k \in Games : CountedOnce(k)'
      BY <2>1, <2>2, <2>6 DEF RecordInv, CountedOnce
    <2>8. IsFiniteSet(scored')
      BY <2>6, FS_AddElement DEF RecordInv
    <2>9. QED
      BY <1>1, <2>1, <2>5, <2>6, <2>7, <2>8, CountRecord DEF RecordInv
  <1>4. QED
    BY <1>2, <1>3

LEMMA CrashRecord == ASSUME IInv, RecordInv, Crash PROVE RecordInv'
  <1>1. /\ UNCHANGED <<h2h, scored, player>>
        /\ \A g \in Games : /\ step'[g] = (IF step[g] = "play" THEN "play" ELSE "done")
                            /\ rest'[g] = "done"
    BY DEF Crash, GamesDie, tables
  <1>2. \A g \in Games : Moves(g)
    BY <1>1 DEF Moves
  <1>3. \A g \in Games : CountedOnce(g)'
    BY <1>1, <1>2, MovesCounted DEF IInv
  <1>4. QED
    BY <1>1, <1>3, RecordAlone

\* An empty table is the record of no games.
LEMMA NoRecords ==
    ASSUME h2h = [p \in Pairs |-> [player1_wins |-> 0, player2_wins |-> 0]], scored = {}
    PROVE  IsFiniteSet(scored) /\ \A p \in Pairs : h2h[p] = Record(p)
  <1>1. ASSUME NEW a, NEW b PROVE Cardinality(Won(a, b)) = 0
    <2>1. Won(a, b) = {}
      BY DEF Won
    <2>2. QED
      BY <2>1, FS_EmptySet
  <1>2. QED
    BY <1>1, FS_EmptySet DEF Record

LEMMA LoseRowsRecord == ASSUME IInv, RecordInv, LoseRows PROVE RecordInv'
  <1>1. /\ h2h' = [p \in Pairs |-> [player1_wins |-> 0, player2_wins |-> 0]]
        /\ scored' = {} /\ UNCHANGED <<step, rest>>
    BY DEF LoseRows, handler
  <1>2. IsFiniteSet(scored') /\ \A p \in Pairs : h2h'[p] = Record(p)'
    <2>1. ASSUME NEW a, NEW b PROVE Cardinality(Won(a, b)') = 0
      <3>1. Won(a, b)' = {}
        BY <1>1 DEF Won
      <3>2. QED
        BY <3>1, FS_EmptySet
    <2>2. QED
      BY <1>1, <2>1, FS_EmptySet DEF Record
  <1>3. \A g \in Games : CountedOnce(g)'
    BY <1>1 DEF RecordInv, CountedOnce
  <1>4. QED
    BY <1>2, <1>3 DEF RecordInv

LEMMA QuietRecord ==
    ASSUME RecordInv, UNCHANGED <<h2h, scored, step, rest, player>>
    PROVE  RecordInv'
  BY RecordAlone DEF RecordInv, CountedOnce

LEMMA NextRecord == ASSUME IInv, RecordInv, Next PROVE RecordInv'
  <1>1. CASE Progress
    <2>1. CASE Boot \/ StartServer \/ SeedStep
      <3>1. UNCHANGED <<h2h, scored, step, rest, player>>
        BY <2>1 DEF Boot, StartServer, SeedStep, FindAccount, WriteRating, SeedCommit, SaveIds,
                    SeedRefused, SeedExits, SeedUnchanged, handler, ratingVars, tables
      <3>2. QED
        BY <3>1, QuietRecord
    <2>2. ASSUME NEW g \in Games, RecordGame(g) PROVE RecordInv'
      BY <2>2, StatementRecord, EndRecord, ScoreRecord DEF RecordGame, GameStep, UnknownUser
    <2>3. CASE BreakDeadlock
      <3>1. PICK t \in Tx : IF t = Seeder THEN SeedExits ELSE Abort(t)
        BY <2>3 DEF BreakDeadlock
      <3>2. CASE t = Seeder
        BY <3>1, <3>2, QuietRecord DEF SeedExits, SeedUnchanged, handler
      <3>3. CASE t # Seeder
        BY <3>1, <3>3, EndRecord
      <3>4. QED
        BY <3>2, <3>3
    <2>4. QED
      BY <1>1, <2>1, <2>2, <2>3 DEF Progress
  <1>2. ASSUME NEW g \in Games, EndGame(g) PROVE RecordInv'
    BY <1>2, FinishRecord DEF EndGame
  <1>3. ASSUME NEW g \in Games, GameFault(g) PROVE RecordInv'
    BY <1>3, EndRecord DEF GameFault, GameFails
  <1>4. CASE SeedFault \/ LoseMapping \/ \E force \in ManualModes : RunByHand(force)
    BY <1>4, QuietRecord DEF SeedFault, SeedExits, SeedUnchanged, LoseMapping, RunByHand,
                             handler, ratingVars, tables
  <1>5. CASE \E h \in Human : Register(h)
    BY <1>5, QuietRecord DEF Register, handler
  <1>6. QED
    BY <1>1, <1>2, <1>3, <1>4, <1>5, CrashRecord, LoseRowsRecord DEF Next

\* The record of two players has each counted game once, from either side, whatever
\* fails between the two transactions of a game: _record_h2h_result of match.py and
\* _get_single_record of head_to_head.py.
THEOREM RecordsAgree == Spec => []HeadToHeadAgrees
  <1>1. IInv /\ RecordInv => HeadToHeadAgrees
    <2> SUFFICES ASSUME IInv, RecordInv, NEW p \in Pairs
                 PROVE  /\ SingleRecord(p[1], p[2]) =
                              [wins |-> Cardinality(Won(p[1], p[2])),
                               losses |-> Cardinality(Won(p[2], p[1]))]
                        /\ SingleRecord(p[2], p[1]) =
                              [wins |-> Cardinality(Won(p[2], p[1])),
                               losses |-> Cardinality(Won(p[1], p[2]))]
      BY DEF HeadToHeadAgrees, Won
    <2>1. PICK a \in Ids, b \in Ids : /\ p = <<a, b>> /\ p[1] = a /\ p[2] = b /\ a < b
                                      /\ a \in Int /\ b \in Int
      BY PairPlayers
    <2>2. Key(a, b) = p /\ Key(b, a) = p /\ ~(b < a)
      BY <2>1 DEF Key
    <2>3. h2h[p] = Record(p)
      BY DEF RecordInv
    <2>4. QED
      BY <2>1, <2>2, <2>3 DEF SingleRecord, Record
  <1>2. Init => RecordInv
    BY NoRecords DEF Init, RatingInit, RecordInv, CountedOnce
  <1>3. IInv /\ RecordInv /\ [Next]_vars => RecordInv'
    <2> SUFFICES ASSUME IInv, RecordInv, [Next]_vars PROVE RecordInv'
      OBVIOUS
    <2>1. CASE UNCHANGED vars
      BY <2>1, QuietRecord DEF vars, ratingVars, tables, handler
    <2>2. QED
      BY <2>1, NextRecord
  <1>4. QED
    BY <1>1, <1>2, <1>3, Inductive, PTL DEF Spec
================================================================================

------------------------- MODULE SinglePlayerProofs -------------------------
(***************************************************************************)
(* SinglePlayer, for any users, requests, retries, window, leaderboard and *)
(* failures: no transaction trims or displaces a row that should stay, and *)
(* wins are counted once if no retry comes after its game was trimmed.     *)
(***************************************************************************)
EXTENDS SinglePlayer, FiniteSetTheorems, TLAPS

USE DEF Control

-----------------------------------------------------------------------------
(* The inductive invariant.                                                *)

\* What is visible was committed, and a request commits once.
CommittedOnce ==
    /\ \A t \in played : pc[t] = "done"
    /\ recent \subseteq played /\ board \subseteq played \cup OldScores

\* What a request found is empty before it looks and after it returned.
FoundInOrder ==
    \A t \in Request :
        /\ pc[t] \in {"new", "insert", "trim", "done", "failed"} => dropped[t] = {}
        /\ found[t] # {} => Won(t) /\ pc[t] \in {"lock", "place", "commit"}
        /\ drop[t] # None => Won(t) /\ pc[t] = "commit"
        /\ pc[t] \in {"stats", "start", "select", "lock", "place"} => Won(t)

\* The rows of the leaderboard that a request has locked are there, and nobody
\* else has locked them.
LocksHeld ==
    /\ \A t \in Request : LockedBy(t) \subseteq board
    /\ \A t, o \in Request : t # o => LockedBy(t) \cap LockedBy(o) = {}

\* A row makes room only for a faster time, on a full leaderboard, and is the
\* slowest of those its request holds.
DropsSlowest ==
    \A t \in Request : drop[t] # None =>
        /\ Qualifies(t) /\ Cardinality(found[t]) >= Limit
        /\ drop[t] \in Last(found[t])

\* The games of t's user, committed or t's own, that began after row r.
Newer(t, r) ==
    {q \in played \cup {t} : UserOf[q] = UserOf[r] /\ began[q] > began[r]}

\* A request trims only rows with a window of newer ones.
TrimsOld ==
    \A t \in Request : \A r \in dropped[t] :
        /\ r \in played \cup {t} /\ UserOf[r] = UserOf[t]
        /\ Cardinality(Newer(t, r)) >= Window

StoreInv ==
    /\ TypeOK /\ CommittedOnce /\ FoundInOrder /\ LocksHeld /\ DropsSlowest /\ TrimsOld
    /\ WindowKeepsNewest /\ BestTimesStand

\* No user has so many games that the window is trimmed past one that is retried.
RetriesInTime ==
    \A t, r \in Request :
        t # r /\ SameKey(t, r) => Cardinality(Games(UserOf[t], Request)) <= Window

\* A game is recorded, or about to be, by one request.
RecordedOnce ==
    \A t, r \in played \cup Running : SameKey(t, r) => t = r

\* The window of a user with few games is never trimmed.
NeverTrimmed ==
    \A t \in Request :
        Cardinality(Games(UserOf[t], Request)) <= Window =>
            dropped[t] = {} /\ (t \in played => t \in recent)

\* The wins of user u, and its best time.
WonBy(u) == {t \in played : UserOf[t] = u /\ Won(t)}
Counted ==
    \A u \in User :
        /\ wins[u] = Cardinality(Games(u, WonBy(u)))
        /\ WonBy(u) = {} => fastest[u] = 0
        /\ WonBy(u) # {} => /\ \E t \in WonBy(u) : fastest[u] = WinTime[t]
                            /\ \A t \in WonBy(u) : fastest[u] <= WinTime[t]

CountInv == StoreInv /\ RecordedOnce /\ NeverTrimmed /\ Counted

-----------------------------------------------------------------------------
(* Counting rows.                                                          *)

LEMMA RowsFinite ==
    ASSUME NEW S, S \subseteq Row
    PROVE  IsFiniteSet(S) /\ Cardinality(S) \in Nat
  <1>1. IsFiniteSet(Row)
    BY RowAssumption, FS_Union DEF Row
  <1>2. QED
    BY <1>1, FS_Subset, FS_CardinalityType

LEMMA MoreRows ==
    ASSUME NEW T, T \subseteq Row, NEW S, S \subseteq T
    PROVE  Cardinality(S) <= Cardinality(T)
  BY RowsFinite, FS_Subset

LEMMA RowFacts ==
    /\ None \notin Row
    /\ \A r \in Row : TimeOf(r) \in Nat
    /\ \A t \in Request : TimeOf(t) = WinTime[t] /\ WinTime[t] \in Nat /\ UserOf[t] \in User
    /\ \A t \in Request : Won(t) <=> WinTime[t] > 0
    /\ Window \in Nat \ {0} /\ Limit \in Nat \ {0}
  <1>1. /\ \A t \in Request : TimeOf(t) = WinTime[t] /\ WinTime[t] \in Nat
        /\ \A r \in OldScores : TimeOf(r) = r /\ r \in Nat
    BY TimeAssumption, RowAssumption DEF TimeOf
  <1>2. None \notin Row
    BY NoneAssumption, TimeAssumption DEF Row
  <1>3. \A t \in Request : Won(t) <=> WinTime[t] > 0
    BY <1>1 DEF Won
  <1>4. QED
    BY <1>1, <1>2, <1>3, UserAssumption, LimitAssumption DEF Row

-----------------------------------------------------------------------------
(* Types.                                                                  *)

LEMMA TypeStep ==
    ASSUME TypeOK, Next
    PROVE  TypeOK'
  <1> USE DEF TypeOK, Goto, Return, database, work
  <1>1. ASSUME NEW t \in Request, Ping(GameOf[t])
        PROVE  TypeOK'
    BY <1>1 DEF Ping
  <1>2. ASSUME NEW t \in Request, Begin(t)
        PROVE  TypeOK'
    <2>1. UserOf[t] \in User
      BY UserAssumption
    <2>2. clock[UserOf[t]] \in Nat
      BY <2>1
    <2>3. clock[UserOf[t]] + 1 \in Nat
      BY <2>2
    <2>4. clock' = [clock EXCEPT ![UserOf[t]] = clock[UserOf[t]] + 1]
      BY <1>2 DEF Begin
    <2>5. began' = [began EXCEPT ![t] = clock[UserOf[t]] + 1]
      BY <1>2 DEF Begin
    <2>6. clock' \in [User -> Nat] /\ began' \in [Request -> Nat]
      BY <2>3, <2>4, <2>5
    <2>7. QED
      BY <1>2, <2>6 DEF Begin
  <1>3. ASSUME NEW t \in Request,
               InsertRecent(t) \/ DeleteOld(t) \/ UpsertStats(t) \/ ReadStart(t)
        PROVE  TypeOK'
    BY <1>3 DEF InsertRecent, DeleteOld, UpsertStats, ReadStart
  <1>4. ASSUME NEW t \in Request, FindOld(t)
        PROVE  TypeOK'
    <2>1. Seen(t) \ Newest(Seen(t)) \in SUBSET Request
      BY DEF Seen
    <2>2. QED
      BY <1>4, <2>1 DEF FindOld
  <1>5. ASSUME NEW t \in Request, SelectScores(t) \/ LockScores(t)
        PROVE  TypeOK'
    <2>1. board \in SUBSET Row /\ StillThere(t) \in SUBSET Row
      BY DEF StillThere
    <2>2. QED
      BY <1>5, <2>1 DEF SelectScores, LockScores
  <1>6. ASSUME NEW t \in Request, Place(t)
        PROVE  TypeOK'
    <2>1. Displaced(found[t]) \subseteq Row
      BY DEF Displaced, Last
    <2>2. drop' \in [Request -> Row \cup {None}]
      BY <1>6, <2>1 DEF Place
    <2>3. QED
      BY <1>6, <2>2 DEF Place
  <1>7. ASSUME NEW t \in Request, Commit(t)
        PROVE  TypeOK'
    <2>1. /\ pc' \in [Request -> Control]
          /\ found' \in [Request -> SUBSET Row] /\ dropped' \in [Request -> SUBSET Request]
          /\ drop' \in [Request -> Row \cup {None}]
      BY <1>7 DEF Commit
    <2>2. wins' \in [User -> Nat]
      BY <1>7 DEF Commit
    <2>3. fastest' \in [User -> Nat]
      <3>1. ASSUME NEW b \in Nat
            PROVE  Lower(b, WinTime[t]) \in Nat
        <4>1. WinTime[t] \in Nat
          BY RowFacts
        <4>2. CASE b <= WinTime[t]
          BY <4>1, <4>2 DEF Lower, Min
        <4>3. CASE b > WinTime[t]
          BY <4>1, <4>3 DEF Lower, Min
        <4>4. QED
          BY <4>1, <4>2, <4>3
      <3>2. CASE ~Won(t)
        BY <1>7, <3>2 DEF Commit
      <3>3. CASE Won(t)
        <4>1. fastest' = [fastest EXCEPT ![UserOf[t]] = Lower(@, WinTime[t])]
          BY <1>7, <3>3 DEF Commit
        <4>2. QED
          BY <3>1, <4>1
      <3>4. QED
        BY <3>2, <3>3
    <2>4. board' \subseteq {r \in Row : TimeOf(r) > 0}
      <3>1. Won(t) => t \in {r \in Row : TimeOf(r) > 0}
        BY RowFacts DEF Row
      <3>2. QED
        BY <1>7, <3>1 DEF Commit
    <2>5. recent' \subseteq Request /\ played' \subseteq Request
      BY <1>7 DEF Commit
    <2>6. UNCHANGED <<pinged, began, plausible, clock>>
      BY <1>7 DEF Commit
    <2>7. QED
      BY <2>1, <2>2, <2>3, <2>4, <2>5, <2>6
  <1>8. ASSUME NEW t \in Request, Fail(t)
        PROVE  TypeOK'
    BY <1>8 DEF Fail
  <1>9. QED
    BY <1>1, <1>2, <1>3, <1>4, <1>5, <1>6, <1>7, <1>8 DEF Next, Post

LEMMA TypeInit == Init => TypeOK
  <1> SUFFICES ASSUME Init PROVE TypeOK
    OBVIOUS
  <1>1. OldScores \subseteq {r \in Row : TimeOf(r) > 0}
    BY TimeAssumption, RowAssumption DEF Row, TimeOf
  <1>2. QED
    BY <1>1 DEF Init, TypeOK

-----------------------------------------------------------------------------
(* Steps before the commit.                                                *)

\* What a step of t leaves of the others, and of what is committed.
Alone(t) ==
    /\ UNCHANGED <<recent, board, wins, fastest, played>>
    /\ \A o \in Request \ {t} :
          /\ pc'[o] = pc[o] /\ found'[o] = found[o] /\ dropped'[o] = dropped[o]
          /\ drop'[o] = drop[o] /\ plausible'[o] = plausible[o] /\ began'[o] = began[o]

\* A step of t that is not its commit has only to account for t.
LEMMA OwnStep ==
    ASSUME StoreInv, TypeOK', NEW t \in Request, Alone(t), pc[t] # "done",
           began'[t] = began[t] \/ dropped'[t] = {},
           pc'[t] \in {"new", "insert", "trim", "done", "failed"} => dropped'[t] = {},
           found'[t] # {} => Won(t) /\ pc'[t] \in {"lock", "place", "commit"},
           pc'[t] \in {"stats", "start", "select", "lock", "place"} => Won(t),
           drop'[t] # None => /\ Won(t) /\ pc'[t] = "commit"
                              /\ Qualifies(t)' /\ Cardinality(found'[t]) >= Limit
                              /\ drop'[t] \in Last(found'[t]),
           LockedBy(t)' \subseteq board,
           \A o \in Request \ {t} : LockedBy(t)' \cap LockedBy(o) = {},
           dropped'[t] # {} =>
                \/ dropped'[t] = dropped[t]
                \/ \A r \in dropped'[t] :
                      /\ r \in played \cup {t} /\ UserOf[r] = UserOf[t]
                      /\ Cardinality(Newer(t, r)) >= Window
    PROVE  StoreInv'
  <1> USE DEF StoreInv
  <1>1. t \notin played
    BY DEF CommittedOnce
  <1>2. CommittedOnce'
    BY <1>1 DEF CommittedOnce, Alone, TypeOK
  <1>3. FoundInOrder'
    BY DEF FoundInOrder, Alone, Won
  <1>4. \A o \in Request \ {t} : LockedBy(o)' = LockedBy(o)
    BY DEF LockedBy, Alone
  <1>5. LocksHeld'
    BY <1>4 DEF LocksHeld, Alone
  <1>6. DropsSlowest'
    BY DEF DropsSlowest, Alone, Qualifies
  <1>7. \A q \in played : began'[q] = began[q]
    BY <1>1 DEF Alone, TypeOK
  <1>8. WindowKeepsNewest'
    <2>1. \A r \in played \ recent :
             {q \in played : UserOf[q] = UserOf[r] /\ began'[q] > began'[r]}
                = {q \in played : UserOf[q] = UserOf[r] /\ began[q] > began[r]}
      BY <1>7
    <2>2. QED
      BY <2>1 DEF WindowKeepsNewest, Alone
  <1>9. TrimsOld'
    <2> SUFFICES ASSUME NEW o \in Request, NEW r \in dropped'[o]
                 PROVE  /\ r \in played \cup {o} /\ UserOf[r] = UserOf[o]
                        /\ Cardinality(Newer(o, r)') >= Window
      BY DEF TrimsOld, Alone
    <2>1. began'[o] = began[o]
      BY DEF Alone
    <2>2. CASE r \in dropped[o]
      <3>1. r \in played \cup {o} /\ UserOf[r] = UserOf[o] /\ Cardinality(Newer(o, r)) >= Window
        BY <2>2 DEF TrimsOld
      <3>2. Newer(o, r)' = Newer(o, r)
        BY <1>7, <2>1, <2>2, <3>1 DEF Newer, Alone
      <3>3. QED
        BY <3>1, <3>2
    <2>3. CASE r \notin dropped[o]
      <3>1. o = t /\ dropped'[t] # {} /\ dropped'[t] # dropped[t]
        BY <2>3 DEF Alone
      <3>2. began'[t] = began[t]
        BY <3>1
      <3>3. r \in played \cup {t} /\ UserOf[r] = UserOf[t] /\ Cardinality(Newer(t, r)) >= Window
        BY <3>1
      <3>4. Newer(t, r)' = Newer(t, r)
        BY <1>7, <3>2, <3>3 DEF Newer, Alone
      <3>5. QED
        BY <3>1, <3>3, <3>4
    <2>4. QED
      BY <2>2, <2>3
  <1>10. BestTimesStand'
    <2>1. {q \in played : Won(q) /\ plausible'[q]} = {q \in played : Won(q) /\ plausible[q]}
      BY <1>1 DEF Alone, TypeOK
    <2>2. board' = board /\ played' = played
      BY DEF Alone
    <2>3. QED
      BY <2>1, <2>2 DEF BestTimesStand, Won
  <1>11. QED
    BY <1>2, <1>3, <1>5, <1>6, <1>8, <1>9, <1>10

\* The statements that find no rows and drop none.
LEMMA PlainStep ==
    ASSUME StoreInv, TypeOK', NEW t \in Request,
           \/ Begin(t) \/ InsertRecent(t) \/ DeleteOld(t) \/ UpsertStats(t)
           \/ ReadStart(t) \/ Fail(t)
    PROVE  StoreInv'
  <1> USE DEF Goto, Return, database, work
  <1>1. TypeOK /\ FoundInOrder
    BY DEF StoreInv
  <1>2. Alone(t)
    BY <1>1 DEF Begin, InsertRecent, DeleteOld, UpsertStats, ReadStart, Fail, Alone, TypeOK
  <1>3. /\ found'[t] = {} /\ drop'[t] = None
        /\ pc'[t] \notin {"lock", "place", "commit"} \/ pc[t] = "delete"
    <2>1. CASE Fail(t)
      BY <1>1, <2>1 DEF Fail, TypeOK
    <2>2. CASE ~Fail(t)
      BY <1>1, <2>2 DEF Begin, InsertRecent, DeleteOld, UpsertStats, ReadStart, TypeOK,
                        FoundInOrder
    <2>3. QED
      BY <2>1, <2>2
  <1>4. LockedBy(t)' = {}
    BY <1>3 DEF LockedBy
  <1>5. began'[t] = began[t] \/ dropped'[t] = {}
    BY <1>1 DEF Begin, InsertRecent, DeleteOld, UpsertStats, ReadStart, Fail, TypeOK,
                FoundInOrder
  <1>6. dropped'[t] # {} => dropped'[t] = dropped[t]
    BY <1>1 DEF Begin, InsertRecent, DeleteOld, UpsertStats, ReadStart, Fail, TypeOK
  <1>7. pc[t] # "done" /\ (pc'[t] \in {"new", "insert", "trim", "done", "failed"}
                              => dropped'[t] = {})
    BY <1>1 DEF Begin, InsertRecent, DeleteOld, UpsertStats, ReadStart, Fail, TypeOK,
                FoundInOrder
  <1>8. pc'[t] \in {"stats", "start", "select", "lock", "place"} => Won(t)
    BY <1>1 DEF Begin, InsertRecent, DeleteOld, UpsertStats, ReadStart, Fail, TypeOK,
                FoundInOrder
  <1>9. QED
    BY <1>2, <1>3, <1>4, <1>5, <1>6, <1>7, <1>8, OwnStep

\* The rows to trim: each has a window of newer ones, all committed but t's own.
LEMMA FindOldStep ==
    ASSUME StoreInv, TypeOK', NEW t \in Request, FindOld(t)
    PROVE  StoreInv'
  <1> USE DEF Goto, database
  <1>1. TypeOK /\ FoundInOrder /\ CommittedOnce
    BY DEF StoreInv
  <1>2. /\ Alone(t) /\ pc[t] = "trim" /\ pc'[t] = "delete" /\ began' = began
        /\ dropped'[t] = Seen(t) \ Newest(Seen(t))
    BY <1>1 DEF FindOld, Alone, TypeOK
  <1>3. found'[t] = {} /\ drop'[t] = None /\ LockedBy(t)' = {}
    BY <1>1, <1>2 DEF FindOld, FoundInOrder, LockedBy
  <1>4. ASSUME NEW r \in dropped'[t]
        PROVE  /\ r \in played \cup {t} /\ UserOf[r] = UserOf[t]
               /\ Cardinality(Newer(t, r)) >= Window
    <2> DEFINE newer == {q \in Seen(t) : began[q] > began[r]}
    <2>1. r \in Seen(t) /\ ~(Cardinality(newer) < Window)
      BY <1>2 DEF Newest
    <2>2. r \in played \cup {t} /\ UserOf[r] = UserOf[t] /\ newer \subseteq Newer(t, r)
      BY <1>1, <2>1 DEF Seen, CommittedOnce, Newer
    <2>3. Newer(t, r) \subseteq Row
      BY <1>1 DEF Newer, Row, TypeOK
    <2>4. Cardinality(newer) <= Cardinality(Newer(t, r))
      BY <2>2, <2>3, MoreRows
    <2>5. Cardinality(newer) \in Nat /\ Cardinality(Newer(t, r)) \in Nat /\ Window \in Nat
      BY <2>2, <2>3, RowsFinite, RowFacts
    <2> HIDE DEF newer
    <2>6. QED
      BY <2>1, <2>2, <2>4, <2>5
  <1>5. QED
    BY <1>2, <1>3, <1>4, OwnStep

LEMMA SelectStep ==
    ASSUME StoreInv, TypeOK', NEW t \in Request, SelectScores(t)
    PROVE  StoreInv'
  <1> USE DEF Goto, database
  <1>1. TypeOK /\ FoundInOrder
    BY DEF StoreInv
  <1>2. /\ Alone(t) /\ pc[t] = "select" /\ pc'[t] = "lock" /\ began' = began
        /\ dropped' = dropped /\ drop' = drop
    BY <1>1 DEF SelectScores, Alone, TypeOK
  <1>3. drop'[t] = None /\ Won(t) /\ LockedBy(t)' = {}
    BY <1>1, <1>2 DEF FoundInOrder, LockedBy
  <1>4. QED
    BY <1>2, <1>3, OwnStep

\* The locks are granted on rows that are there and that nobody holds.
LEMMA LockStep ==
    ASSUME StoreInv, TypeOK', NEW t \in Request, LockScores(t)
    PROVE  StoreInv'
  <1> USE DEF Goto, database
  <1>1. TypeOK /\ FoundInOrder
    BY DEF StoreInv
  <1>2. /\ Alone(t) /\ pc[t] = "lock" /\ pc'[t] = "place" /\ began' = began
        /\ dropped' = dropped /\ drop' = drop /\ found'[t] = found[t] \cap board
    BY <1>1 DEF LockScores, StillThere, Alone, TypeOK
  <1>3. drop'[t] = None /\ Won(t) /\ LockedBy(t)' = found[t] \cap board
    BY <1>1, <1>2 DEF FoundInOrder, LockedBy
  <1>4. ASSUME NEW o \in Request \ {t}
        PROVE  LockedBy(t)' \cap LockedBy(o) = {}
    <2>1. CASE o \in Running
      BY <1>3, <2>1 DEF LockScores, Others
    <2>2. CASE o \notin Running
      BY <2>2 DEF Running, LockedBy
    <2>3. QED
      BY <2>1, <2>2
  <1>5. QED
    BY <1>2, <1>3, <1>4, OwnStep

LEMMA PlaceStep ==
    ASSUME StoreInv, TypeOK', NEW t \in Request, Place(t)
    PROVE  StoreInv'
  <1> USE DEF Goto, database
  <1>1. TypeOK /\ FoundInOrder /\ LocksHeld
    BY DEF StoreInv
  <1>2. /\ Alone(t) /\ pc[t] = "place" /\ pc'[t] = "commit" /\ began' = began
        /\ dropped' = dropped /\ found' = found /\ plausible' = plausible
    <2>1. \A o \in Request \ {t} : drop'[o] = drop[o]
      BY <1>1 DEF Place, TypeOK
    <2>2. QED
      BY <1>1, <2>1 DEF Place, Alone, TypeOK
  <1>3. Won(t) /\ drop[t] = None
    BY <1>1, <1>2 DEF FoundInOrder
  <1>4. drop'[t] # None => /\ Qualifies(t) /\ Cardinality(found[t]) >= Limit
                           /\ drop'[t] \in Last(found[t])
    BY <1>1, <1>3 DEF Place, Displaced, TypeOK
  <1>5. Qualifies(t)' = Qualifies(t) /\ LockedBy(t)' = LockedBy(t)
    BY <1>2 DEF Qualifies, LockedBy
  <1>6. LockedBy(t) \subseteq board /\ \A o \in Request \ {t} : LockedBy(t) \cap LockedBy(o) = {}
    BY <1>1 DEF LocksHeld
  <1>7. QED
    BY <1>2, <1>3, <1>4, <1>5, <1>6, OwnStep

-----------------------------------------------------------------------------
(* The commit.                                                             *)

\* What a commit does to the rows, and what the request held when it did.
LEMMA CommitFacts ==
    ASSUME StoreInv, NEW t \in Request, Commit(t)
    PROVE  /\ pc[t] = "commit" /\ t \notin played /\ t \notin board
           /\ recent' = (recent \cup {t}) \ dropped[t] /\ played' = played \cup {t}
           /\ ~Won(t) => board' = board
           /\ Won(t) => board' = (IF Qualifies(t) THEN board \cup {t} ELSE board) \ {drop[t]}
           /\ found[t] \subseteq board
           /\ drop[t] # None => /\ Won(t) /\ Qualifies(t) /\ Cardinality(found[t]) >= Limit
                                /\ drop[t] \in found[t] /\ drop[t] # t
                                /\ \A q \in found[t] : TimeOf(q) <= TimeOf(drop[t])
                                /\ WinTime[t] < TimeOf(drop[t])
           /\ \A o \in Request \ {t} :
                 /\ pc'[o] = pc[o] /\ found'[o] = found[o] /\ dropped'[o] = dropped[o]
                 /\ drop'[o] = drop[o]
           /\ pc'[t] = "done" /\ found'[t] = {} /\ dropped'[t] = {} /\ drop'[t] = None
           /\ began' = began /\ plausible' = plausible
  <1> USE DEF StoreInv
  <1>1. /\ pc[t] = "commit"
        /\ recent' = (recent \cup {t}) \ dropped[t] /\ played' = played \cup {t}
        /\ ~Won(t) => board' = board
        /\ Won(t) => board' = (IF Qualifies(t) THEN board \cup {t} ELSE board) \ {drop[t]}
        /\ began' = began /\ plausible' = plausible
    BY DEF Commit, Return
  <1>2. /\ \A o \in Request \ {t} :
              /\ pc'[o] = pc[o] /\ found'[o] = found[o] /\ dropped'[o] = dropped[o]
              /\ drop'[o] = drop[o]
        /\ pc'[t] = "done" /\ found'[t] = {} /\ dropped'[t] = {} /\ drop'[t] = None
    BY DEF Commit, Return, Goto, TypeOK
  <1>3. t \notin played /\ t \notin board
    BY <1>1, RowAssumption DEF CommittedOnce
  <1>4. found[t] \subseteq board
    BY <1>1 DEF LocksHeld, LockedBy
  <1>5. ASSUME drop[t] # None
        PROVE  /\ Won(t) /\ Qualifies(t) /\ Cardinality(found[t]) >= Limit
               /\ drop[t] \in found[t] /\ drop[t] # t
               /\ \A q \in found[t] : TimeOf(q) <= TimeOf(drop[t])
               /\ WinTime[t] < TimeOf(drop[t])
    <2>1. Won(t) /\ Qualifies(t) /\ Cardinality(found[t]) >= Limit /\ drop[t] \in Last(found[t])
      BY <1>5 DEF FoundInOrder, DropsSlowest
    <2>2. Cardinality(found[t]) \in Nat /\ Limit \in Nat
      BY RowsFinite, RowFacts DEF TypeOK
    <2>3. WinTime[t] < TimeOf(drop[t])
      BY <2>1, <2>2 DEF Qualifies
    <2>4. QED
      BY <1>3, <1>4, <2>1, <2>3 DEF Last
  <1>6. QED
    BY <1>1, <1>2, <1>3, <1>4, <1>5

\* Whoever is trimmed has a window of newer games; whoever was stays so.
LEMMA CommitKeepsNewest ==
    ASSUME StoreInv, NEW t \in Request, Commit(t)
    PROVE  WindowKeepsNewest'
  <1> SUFFICES ASSUME NEW r \in played' \ recent'
               PROVE  Cardinality({q \in played' : UserOf[q] = UserOf[r]
                                                   /\ began'[q] > began'[r]}) >= Window
    BY DEF WindowKeepsNewest
  <1> DEFINE before == {q \in played : UserOf[q] = UserOf[r] /\ began[q] > began[r]}
             after == {q \in played' : UserOf[q] = UserOf[r] /\ began'[q] > began'[r]}
  <1>1. /\ recent' = (recent \cup {t}) \ dropped[t] /\ played' = played \cup {t}
        /\ began' = began
    BY CommitFacts
  <1>2. CASE r \in played \ recent
    <2>1. before \subseteq after
      BY <1>1
    <2>2. after \subseteq Row
      BY <1>1 DEF StoreInv, TypeOK, Row
    <2>3. Cardinality(before) >= Window
      BY <1>2 DEF StoreInv, WindowKeepsNewest
    <2>4. Cardinality(before) <= Cardinality(after)
      BY <2>1, <2>2, MoreRows
    <2>5. Cardinality(before) \in Nat /\ Cardinality(after) \in Nat /\ Window \in Nat
      BY <2>1, <2>2, RowsFinite, RowFacts
    <2> HIDE DEF before, after
    <2>6. Cardinality(after) >= Window
      BY <2>3, <2>4, <2>5
    <2>7. QED
      BY <2>6 DEF after
  <1>3. CASE r \notin played \ recent
    <2>1. r \in dropped[t]
      BY <1>1, <1>3
    <2>2. after = Newer(t, r)
      BY <1>1 DEF Newer
    <2>3. QED
      BY <2>1, <2>2 DEF StoreInv, TrimsOld
  <1>4. QED
    BY <1>2, <1>3

\* A row is displaced only with Limit better ones on the leaderboard, the new one
\* among them.
LEMMA CommitKeepsBest ==
    ASSUME StoreInv, NEW t \in Request, Commit(t)
    PROVE  BestTimesStand'
  <1> DEFINE D == drop[t]
             better(r) == {q \in board : TimeOf(q) <= TimeOf(r)}
             still(r) == {q \in board' : TimeOf(q) <= TimeOf(r)}
  <1>1. /\ t \notin board /\ played' = played \cup {t} /\ found[t] \subseteq board
        /\ ~Won(t) => board' = board
        /\ Won(t) => board' = (IF Qualifies(t) THEN board \cup {t} ELSE board) \ {D}
        /\ D # None => /\ Won(t) /\ Qualifies(t) /\ Cardinality(found[t]) >= Limit
                       /\ D \in found[t] /\ D # t
                       /\ \A q \in found[t] : TimeOf(q) <= TimeOf(D)
                       /\ WinTime[t] < TimeOf(D)
        /\ plausible' = plausible
    BY CommitFacts
  <1>2. board \subseteq Row /\ board' \subseteq Row /\ None \notin board
    BY <1>1, RowFacts DEF StoreInv, TypeOK, Row
  <1>3. \A r \in Row : TimeOf(r) \in Nat
    BY RowFacts
  <1>4. /\ TimeOf(t) = WinTime[t] /\ t \in Row /\ t # None /\ WinTime[t] \in Nat /\ Limit \in Nat
        /\ played \cup OldScores \subseteq Row
    BY RowFacts DEF Row, StoreInv, TypeOK
  <1>5. ASSUME D # None
        PROVE  Cardinality(still(D)) >= Limit
    <2>1. (found[t] \ {D}) \cup {t} \subseteq still(D)
      BY <1>1, <1>2, <1>3, <1>4, <1>5
    <2>2. /\ IsFiniteSet(found[t]) /\ IsFiniteSet(found[t] \ {D})
          /\ Cardinality(found[t]) \in Nat
      BY <1>1, <1>2, RowsFinite
    <2>3. Cardinality(found[t] \ {D}) = Cardinality(found[t]) - 1
      BY <1>1, <1>5, <2>2, FS_RemoveElement
    <2>4. Cardinality((found[t] \ {D}) \cup {t}) = Cardinality(found[t])
      <3>1. t \notin found[t] \ {D}
        BY <1>1
      <3>2. QED
        BY <2>2, <2>3, <3>1, FS_AddElement
    <2>5. still(D) \subseteq Row
      BY <1>2
    <2>6. Cardinality(still(D)) \in Nat
      BY <2>5, RowsFinite
    <2>7. Cardinality((found[t] \ {D}) \cup {t}) <= Cardinality(still(D))
      BY <2>1, <2>5, MoreRows
    <2>8. Cardinality(found[t]) >= Limit
      BY <1>1, <1>5
    <2> HIDE DEF still, D
    <2>9. QED
      BY <1>4, <2>2, <2>4, <2>6, <2>7, <2>8
  <1>6. ASSUME NEW r \in Row, r \in board \/ Cardinality(better(r)) >= Limit
        PROVE  r \in board' \/ Cardinality(still(r)) >= Limit
    <2>1. CASE D # None /\ TimeOf(D) <= TimeOf(r)
      <3>1. D \in Row
        BY <1>1, <1>2, <2>1
      <3>2. still(D) \subseteq still(r) /\ still(r) \subseteq Row
        BY <1>2, <1>3, <2>1, <3>1
      <3>3. Cardinality(still(D)) <= Cardinality(still(r))
        BY <3>2, MoreRows
      <3>4. Cardinality(still(D)) \in Nat /\ Cardinality(still(r)) \in Nat
        BY <3>2, RowsFinite
      <3>5. Cardinality(still(D)) >= Limit
        BY <1>5, <2>1
      <3> HIDE DEF still, D
      <3>6. QED
        BY <1>4, <3>3, <3>4, <3>5
    <2>2. CASE ~(D # None /\ TimeOf(D) <= TimeOf(r))
      <3>1. \A q \in board : q \in board' \/ (D # None /\ q = D)
        BY <1>1, <1>2
      <3>2. CASE r \in board
        BY <1>3, <2>2, <3>1, <3>2
      <3>3. CASE Cardinality(better(r)) >= Limit
        <4>1. better(r) \subseteq still(r) /\ still(r) \subseteq Row
          BY <1>2, <2>2, <3>1
        <4>2. Cardinality(better(r)) <= Cardinality(still(r))
          BY <4>1, MoreRows
        <4>3. Cardinality(better(r)) \in Nat /\ Cardinality(still(r)) \in Nat
          BY <4>1, RowsFinite
        <4> HIDE DEF still, better
        <4>4. QED
          BY <1>4, <3>3, <4>2, <4>3
      <3>4. QED
        BY <1>6, <3>2, <3>3
    <2>3. QED
      BY <2>1, <2>2
  <1>7. ASSUME Won(t), plausible[t]
        PROVE  t \in board' \/ Cardinality(still(t)) >= Limit
    <2>1. CASE Qualifies(t)
      BY <1>1, <1>4, <1>7, <2>1
    <2>2. CASE ~Qualifies(t)
      <3>1. board' = board
        BY <1>1, <1>2, <1>7, <2>2
      <3>2. /\ ~(Cardinality(found[t]) < Limit)
            /\ \E r \in Last(found[t]) : ~(WinTime[t] < TimeOf(r))
        BY <1>7, <2>2 DEF Qualifies
      <3>3. \A q \in found[t] : TimeOf(q) <= TimeOf(t)
        <4>1. PICK r \in Last(found[t]) : ~(WinTime[t] < TimeOf(r))
          BY <3>2
        <4>2. r \in found[t] /\ \A q \in found[t] : TimeOf(q) <= TimeOf(r)
          BY <4>1 DEF Last
        <4>3. r \in Row /\ found[t] \subseteq Row
          BY <1>1, <1>2, <4>2
        <4>4. QED
          BY <1>3, <1>4, <4>1, <4>2, <4>3
      <3>4. found[t] \subseteq still(t) /\ still(t) \subseteq Row
        BY <1>1, <1>2, <3>1, <3>3
      <3>5. Cardinality(found[t]) <= Cardinality(still(t))
        BY <3>4, MoreRows
      <3>6. Cardinality(found[t]) \in Nat /\ Cardinality(still(t)) \in Nat
        BY <3>4, RowsFinite
      <3> HIDE DEF still
      <3>7. QED
        BY <1>4, <3>2, <3>5, <3>6
    <2>3. QED
      BY <2>1, <2>2
  <1>8. ASSUME NEW r \in OldScores \cup {q \in played' : Won(q) /\ plausible'[q]}
        PROVE  r \in board' \/ Cardinality(still(r)) >= Limit
    <2>1. CASE r = t /\ Won(t) /\ plausible[t]
      BY <1>7, <2>1
    <2>2. CASE ~(r = t /\ Won(t) /\ plausible[t])
      <3>1. r \in OldScores \cup {q \in played : Won(q) /\ plausible[q]}
        BY <1>1, <1>8, <2>2
      <3>2. r \in board \/ Cardinality(better(r)) >= Limit
        BY <3>1 DEF StoreInv, BestTimesStand
      <3>3. QED
        BY <1>4, <1>6, <3>1, <3>2
    <2>3. QED
      BY <2>1, <2>2
  <1>9. QED
    BY <1>8 DEF BestTimesStand, Won

LEMMA CommitStep ==
    ASSUME StoreInv, TypeOK', NEW t \in Request, Commit(t)
    PROVE  StoreInv'
  <1>1. TypeOK /\ CommittedOnce /\ FoundInOrder /\ LocksHeld /\ DropsSlowest /\ TrimsOld
    BY DEF StoreInv
  <1>2. CommittedOnce'
    <2>1. \A q \in played' : pc'[q] = "done"
      BY <1>1, CommitFacts DEF CommittedOnce, TypeOK
    <2>2. recent' \subseteq played'
      BY <1>1, CommitFacts DEF CommittedOnce
    <2>3. board' \subseteq played' \cup OldScores
      BY <1>1, CommitFacts DEF CommittedOnce
    <2>4. QED
      BY <2>1, <2>2, <2>3 DEF CommittedOnce
  <1>3. FoundInOrder'
    BY <1>1, CommitFacts DEF FoundInOrder, Won
  <1>4. LocksHeld'
    <2>1. LockedBy(t)' = {} /\ \A o \in Request \ {t} : LockedBy(o)' = LockedBy(o)
      BY CommitFacts DEF LockedBy
    <2>2. ASSUME NEW o \in Request \ {t}
          PROVE  LockedBy(o) \subseteq board'
      <3>1. LockedBy(o) \subseteq board /\ LockedBy(t) \cap LockedBy(o) = {}
        BY <1>1 DEF LocksHeld
      <3>2. LockedBy(t) = found[t]
        BY CommitFacts DEF LockedBy
      <3>3. None \notin board
        BY <1>1, RowFacts DEF TypeOK
      <3>4. drop[t] \notin LockedBy(o)
        BY <3>1, <3>2, <3>3, CommitFacts
      <3>5. QED
        BY <3>1, <3>4, CommitFacts
    <2>3. QED
      BY <1>1, <2>1, <2>2 DEF LocksHeld
  <1>5. DropsSlowest'
    BY <1>1, CommitFacts DEF DropsSlowest, Qualifies
  <1>6. TrimsOld'
    <2> SUFFICES ASSUME NEW o \in Request, NEW r \in dropped'[o]
                 PROVE  /\ r \in played' \cup {o} /\ UserOf[r] = UserOf[o]
                        /\ Cardinality(Newer(o, r)') >= Window
      BY DEF TrimsOld
    <2>1. o # t /\ r \in dropped[o] /\ played' = played \cup {t} /\ began' = began
      BY CommitFacts
    <2>2. r \in played \cup {o} /\ UserOf[r] = UserOf[o] /\ Cardinality(Newer(o, r)) >= Window
      BY <1>1, <2>1 DEF TrimsOld
    <2>3. Newer(o, r) \subseteq Newer(o, r)' /\ Newer(o, r)' \subseteq Row
      BY <1>1, <2>1 DEF Newer, TypeOK, Row
    <2>4. Cardinality(Newer(o, r)) <= Cardinality(Newer(o, r)')
      BY <2>3, MoreRows
    <2>5. Cardinality(Newer(o, r)) \in Nat /\ Cardinality(Newer(o, r)') \in Nat /\ Window \in Nat
      BY <2>3, RowsFinite, RowFacts
    <2>6. QED
      BY <2>1, <2>2, <2>4, <2>5
  <1>7. QED
    BY <1>2, <1>3, <1>4, <1>5, <1>6, CommitKeepsNewest, CommitKeepsBest DEF StoreInv

-----------------------------------------------------------------------------
(* The window and the leaderboard.                                         *)

LEMMA StoreInit == Init => StoreInv
  <1> SUFFICES ASSUME Init PROVE StoreInv
    OBVIOUS
  <1> USE DEF Init
  <1>1. CommittedOnce /\ FoundInOrder /\ LocksHeld /\ DropsSlowest /\ TrimsOld
    BY DEF CommittedOnce, FoundInOrder, LocksHeld, LockedBy, DropsSlowest, TrimsOld
  <1>2. WindowKeepsNewest /\ BestTimesStand
    BY DEF WindowKeepsNewest, BestTimesStand
  <1>3. QED
    BY <1>1, <1>2, TypeInit DEF StoreInv

LEMMA StoreStep == StoreInv /\ [Next]_vars => StoreInv'
  <1> SUFFICES ASSUME StoreInv, [Next]_vars PROVE StoreInv'
    OBVIOUS
  <1>1. ASSUME UNCHANGED <<recent, board, pc, work, played>>, TypeOK'
        PROVE  StoreInv'
    BY <1>1 DEF StoreInv, work, CommittedOnce, FoundInOrder, LocksHeld, LockedBy,
                DropsSlowest, Qualifies, TrimsOld, Newer, WindowKeepsNewest, BestTimesStand, Won
  <1>2. TypeOK'
    <2>1. CASE Next
      BY <2>1, TypeStep DEF StoreInv
    <2>2. CASE UNCHANGED vars
      BY <2>2 DEF StoreInv, TypeOK, vars, database, work
    <2>3. QED
      BY <2>1, <2>2
  <1>3. CASE Next
    <2>1. ASSUME NEW t \in Request, Ping(GameOf[t])
          PROVE  StoreInv'
      BY <1>1, <1>2, <2>1 DEF Ping
    <2>2. QED
      BY <1>2, <1>3, <2>1, PlainStep, FindOldStep, SelectStep, LockStep, PlaceStep, CommitStep
         DEF Next, Post
  <1>4. CASE UNCHANGED vars
    BY <1>1, <1>2, <1>4 DEF vars, database
  <1>5. QED
    BY <1>3, <1>4

\* The inductive invariant of the window and the leaderboard.
THEOREM StoreInvariant == Spec => []StoreInv
  BY StoreInit, StoreStep, PTL DEF Spec

\* WindowKeepsNewest: however the transactions of submit_game overlap and fail, the
\* DELETE that trims the window (singleplayer.py) leaves a user its newest games.
THEOREM NewestStay == Spec => []WindowKeepsNewest
  <1>1. StoreInv => WindowKeepsNewest
    BY DEF StoreInv
  <1>2. QED
    BY <1>1, StoreInvariant, PTL

\* BestTimesStand: of concurrent winners who lock, insert and delete rows of
\* leaderboard_scores, none displaces a time that belongs among the first Limit.
THEOREM LeaderboardFair == Spec => []BestTimesStand
  <1>1. StoreInv => BestTimesStand
    BY DEF StoreInv
  <1>2. QED
    BY <1>1, StoreInvariant, PTL

-----------------------------------------------------------------------------
(* Lifetime wins.                                                          *)

LEMMA GamesFinite ==
    ASSUME NEW u \in User, NEW R, R \subseteq Request
    PROVE  IsFiniteSet(Games(u, R)) /\ Cardinality(Games(u, R)) \in Nat
  <1> DEFINE S == {r \in R : UserOf[r] = u}
             f == [t \in S |-> GameOf[t]]
  <1>1. IsFiniteSet(S)
    BY RowAssumption, FS_Subset
  <1>2. f \in Surjection(S, Games(u, R))
    BY DEF Surjection, Games
  <1>3. QED
    BY <1>1, <1>2, FS_Surjection, FS_CardinalityType

\* The requests of a user for games of which no two are the same are no more than
\* its games.
LEMMA DistinctGames ==
    ASSUME NEW u \in User, NEW S, S \subseteq Request,
           \A r \in S : UserOf[r] = u,
           \A q, r \in S : GameOf[q] = GameOf[r] => q = r
    PROVE  Cardinality(S) <= Cardinality(Games(u, Request))
  <1> DEFINE f == [t \in S |-> GameOf[t]]
  <1>1. f \in Injection(S, Games(u, Request))
    <2>1. \A r \in S : GameOf[r] \in Games(u, Request)
      BY DEF Games
    <2>2. f \in [S -> Games(u, Request)]
      BY <2>1
    <2>3. \A q, r \in S : f[q] = f[r] => q = r
      OBVIOUS
    <2>4. QED
      BY <2>2, <2>3 DEF Injection, IsInjective
  <1>2. IsFiniteSet(Games(u, Request))
    BY GamesFinite
  <1>3. QED
    BY <1>1, <1>2, FS_Injection

\* A user with few games finds nothing to trim.
LEMMA NothingToTrim ==
    ASSUME CountInv, NEW t \in Request, pc[t] = "trim",
           Cardinality(Games(UserOf[t], Request)) <= Window
    PROVE  Seen(t) \ Newest(Seen(t)) = {}
  <1> DEFINE u == UserOf[t]
  <1>1. u \in User /\ TypeOK /\ CommittedOnce /\ RecordedOnce
    BY RowFacts DEF CountInv, StoreInv
  <1>2. Seen(t) \subseteq played \cup Running /\ Seen(t) \subseteq Request
    BY <1>1 DEF Seen, Running, CommittedOnce, TypeOK
  <1>3. Cardinality(Seen(t)) <= Cardinality(Games(u, Request))
    <2>1. \A r \in Seen(t) : UserOf[r] = u
      BY DEF Seen
    <2>2. \A q, r \in Seen(t) : GameOf[q] = GameOf[r] => q = r
      BY <1>1, <1>2, <2>1 DEF RecordedOnce, SameKey
    <2>3. QED
      BY <1>1, <1>2, <2>1, <2>2, DistinctGames
  <1>4. IsFiniteSet(Seen(t)) /\ Cardinality(Seen(t)) \in Nat
    BY <1>2, RowsFinite DEF Row
  <1>5. Window \in Nat /\ Cardinality(Games(u, Request)) \in Nat
    BY <1>1, RowFacts, GamesFinite
  <1>6. ASSUME NEW r \in Seen(t)
        PROVE  Cardinality({q \in Seen(t) : began[q] > began[r]}) < Window
    <2> DEFINE newer == {q \in Seen(t) : began[q] > began[r]}
    <2>1. began[r] \in Nat
      BY <1>1, <1>2 DEF TypeOK
    <2>2. newer \subseteq Seen(t) \ {r}
      BY <2>1
    <2>3. IsFiniteSet(Seen(t) \ {r}) /\ Cardinality(Seen(t) \ {r}) = Cardinality(Seen(t)) - 1
      BY <1>4, FS_RemoveElement
    <2>4. Cardinality(newer) <= Cardinality(Seen(t) \ {r}) /\ Cardinality(newer) \in Nat
      BY <2>2, <2>3, FS_Subset, FS_CardinalityType
    <2> HIDE DEF newer
    <2>5. Cardinality(newer) < Window
      BY <1>3, <1>4, <1>5, <2>3, <2>4
    <2>6. QED
      BY <2>5 DEF newer
  <1>7. QED
    BY <1>6 DEF Newest

\* A step that commits nothing and trims nothing of users with few games.
LEMMA CountFrame ==
    ASSUME CountInv, StoreInv', UNCHANGED <<recent, wins, fastest, played>>,
           \A t, r \in played' \cup Running' : SameKey(t, r) => t = r,
           \A t \in Request : Cardinality(Games(UserOf[t], Request)) <= Window
                                  => dropped'[t] = {}
    PROVE  CountInv'
  <1>1. RecordedOnce'
    BY DEF RecordedOnce, SameKey
  <1>2. NeverTrimmed'
    BY DEF CountInv, NeverTrimmed, Games
  <1>3. Counted'
    BY DEF CountInv, Counted, WonBy, Won, Games
  <1>4. QED
    BY <1>1, <1>2, <1>3 DEF CountInv

LEMMA CountCommit ==
    ASSUME CountInv, StoreInv', NEW t \in Request, Commit(t)
    PROVE  CountInv'
  <1> DEFINE u == UserOf[t]
  <1>1. StoreInv /\ TypeOK /\ CommittedOnce /\ TrimsOld /\ RecordedOnce /\ NeverTrimmed /\ Counted
    BY DEF CountInv, StoreInv
  <1>2. /\ played' = played \cup {t} /\ t \notin played /\ t \in Running
        /\ recent' = (recent \cup {t}) \ dropped[t]
        /\ \A o \in Request \ {t} : pc'[o] = pc[o] /\ dropped'[o] = dropped[o]
        /\ pc'[t] = "done" /\ dropped'[t] = {}
    BY <1>1, CommitFacts DEF Running
  <1>3. RecordedOnce'
    <2>1. played' \cup Running' \subseteq played \cup Running
      BY <1>2 DEF Running
    <2>2. QED
      BY <1>1, <2>1 DEF RecordedOnce, SameKey
  <1>4. NeverTrimmed'
    <2> SUFFICES ASSUME NEW r \in Request, Cardinality(Games(UserOf[r], Request)) <= Window
                 PROVE  dropped'[r] = {} /\ (r \in played' => r \in recent')
      BY DEF NeverTrimmed, Games
    <2>1. r \notin dropped[t]
      BY <1>1 DEF NeverTrimmed, TrimsOld
    <2>2. QED
      BY <1>1, <1>2, <2>1 DEF NeverTrimmed
  <1>5. Counted'
    <2> SUFFICES ASSUME NEW v \in User
                 PROVE  /\ wins'[v] = Cardinality(Games(v, WonBy(v)'))
                        /\ WonBy(v)' = {} => fastest'[v] = 0
                        /\ WonBy(v)' # {} =>
                              /\ \E r \in WonBy(v)' : fastest'[v] = WinTime[r]
                              /\ \A r \in WonBy(v)' : fastest'[v] <= WinTime[r]
      BY DEF Counted, Games
    <2>1. CASE ~(Won(t) /\ v = u)
      <3>1. wins'[v] = wins[v] /\ fastest'[v] = fastest[v]
        BY <1>1, <2>1 DEF Commit, TypeOK
      <3>2. WonBy(v)' = WonBy(v)
        BY <1>2, <2>1 DEF WonBy, Won
      <3>3. QED
        BY <1>1, <3>1, <3>2 DEF Counted
    <2>2. CASE Won(t) /\ v = u
      <3>1. /\ wins'[v] = wins[v] + 1 /\ fastest'[v] = Lower(fastest[v], WinTime[t])
            /\ wins[v] \in Nat /\ fastest[v] \in Nat /\ WinTime[t] \in Nat /\ WinTime[t] > 0
        BY <1>1, <2>2, RowFacts DEF Commit, TypeOK
      <3>2. WonBy(v)' = WonBy(v) \cup {t} /\ WonBy(v) \subseteq Request
        BY <1>1, <1>2, <2>2 DEF WonBy, Won, TypeOK
      <3>3. GameOf[t] \notin Games(v, WonBy(v))
        <4>1. ASSUME NEW r \in WonBy(v), GameOf[r] = GameOf[t]
              PROVE  FALSE
          BY <1>1, <1>2, <2>2, <4>1 DEF WonBy, RecordedOnce, SameKey
        <4>2. QED
          BY <4>1 DEF Games
      <3>4. Games(v, WonBy(v)') = Games(v, WonBy(v)) \cup {GameOf[t]}
        BY <2>2, <3>2 DEF Games
      <3>5. Cardinality(Games(v, WonBy(v)')) = Cardinality(Games(v, WonBy(v))) + 1
        BY <3>2, <3>3, <3>4, GamesFinite, FS_AddElement
      <3>6. Lower(fastest[v], WinTime[t]) =
               IF fastest[v] = 0 THEN WinTime[t]
               ELSE IF fastest[v] <= WinTime[t] THEN fastest[v] ELSE WinTime[t]
        BY <3>1 DEF Lower, Min
      <3>7. \A r \in WonBy(v) : WinTime[r] \in Nat /\ WinTime[r] > 0
        BY <3>2, RowFacts DEF WonBy
      <3>8. /\ \E r \in WonBy(v)' : fastest'[v] = WinTime[r]
            /\ \A r \in WonBy(v)' : fastest'[v] <= WinTime[r]
        BY <1>1, <3>1, <3>2, <3>6, <3>7 DEF Counted
      <3>9. QED
        BY <1>1, <3>1, <3>2, <3>5, <3>8 DEF Counted
    <2>3. QED
      BY <2>1, <2>2
  <1>6. QED
    BY <1>3, <1>4, <1>5 DEF CountInv

LEMMA CountStep ==
    ASSUME RetriesInTime, CountInv, [Next]_vars
    PROVE  CountInv'
  <1>1. StoreInv'
    BY StoreStep DEF CountInv
  <1>2. TypeOK /\ FoundInOrder /\ RecordedOnce /\ NeverTrimmed
    BY DEF CountInv, StoreInv
  <1> USE DEF Goto, Return, database, work
  <1>3. ASSUME UNCHANGED <<recent, wins, fastest, pc, dropped, played>>
        PROVE  CountInv'
    BY <1>1, <1>2, <1>3, CountFrame DEF RecordedOnce, Running, NeverTrimmed
  <1>4. ASSUME NEW t \in Request, InsertRecent(t)
        PROVE  CountInv'
    <2>1. /\ UNCHANGED <<recent, wins, fastest, dropped, played>>
          /\ pc[t] = "insert" /\ \A o \in Request \ {t} : pc'[o] = pc[o]
          /\ Recorded(t) => pc'[t] = "done"
      BY <1>2, <1>4 DEF InsertRecent, TypeOK
    <2>2. ASSUME NEW r \in played \cup Running, SameKey(t, r), ~Recorded(t)
          PROVE  r = t
      <3>1. r \notin Running
        BY <1>4, <2>2 DEF InsertRecent
      <3>2. CASE r # t
        <4>1. r \in played /\ r \in Request /\ SameKey(r, t)
          BY <1>2, <2>2, <3>1 DEF TypeOK, SameKey
        <4>2. r \in recent
          BY <1>2, <3>2, <4>1 DEF RetriesInTime, NeverTrimmed
        <4>3. QED
          BY <2>2, <4>2 DEF Recorded
      <3>3. QED
        BY <3>2
    <2>3. played' \cup Running' \subseteq played \cup Running \cup {t}
      BY <2>1 DEF Running
    <2>4. t \in Running' \/ t \in played => ~Recorded(t)
      BY <1>2, <2>1 DEF Running, CountInv, StoreInv, CommittedOnce
    <2>5. \A q, r \in played' \cup Running' : SameKey(q, r) => q = r
      <3>1. ASSUME NEW q \in played' \cup Running', NEW r \in played' \cup Running',
                   SameKey(q, r)
            PROVE  q = r
        <4>1. SameKey(r, q)
          BY <3>1 DEF SameKey
        <4>2. QED
          BY <1>2, <2>1, <2>2, <2>3, <2>4, <3>1, <4>1 DEF RecordedOnce
      <3>2. QED
        BY <3>1
    <2>6. QED
      BY <1>1, <1>2, <2>1, <2>5, CountFrame DEF NeverTrimmed
  <1>5. ASSUME NEW t \in Request, FindOld(t)
        PROVE  CountInv'
    <2>1. /\ UNCHANGED <<recent, wins, fastest, played>> /\ pc[t] = "trim"
          /\ pc' = [pc EXCEPT ![t] = "delete"]
          /\ dropped' = [dropped EXCEPT ![t] = Seen(t) \ Newest(Seen(t))]
      BY <1>5 DEF FindOld
    <2>2. Running' = Running
      BY <1>2, <2>1 DEF Running, TypeOK
    <2>3. \A r \in Request : Cardinality(Games(UserOf[r], Request)) <= Window
                                 => dropped'[r] = {}
      BY <1>2, <2>1, NothingToTrim DEF NeverTrimmed, TypeOK
    <2>4. QED
      BY <1>1, <1>2, <2>1, <2>2, <2>3, CountFrame DEF RecordedOnce
  <1>6. ASSUME NEW t \in Request,
               \/ Begin(t) \/ DeleteOld(t) \/ UpsertStats(t) \/ ReadStart(t)
               \/ SelectScores(t) \/ LockScores(t) \/ Place(t) \/ Fail(t)
        PROVE  CountInv'
    <2>1. UNCHANGED <<recent, wins, fastest, played>>
      BY <1>6 DEF Begin, DeleteOld, UpsertStats, ReadStart, SelectScores, LockScores, Place, Fail
    <2>2. Running' \subseteq Running
      BY <1>2, <1>6 DEF Begin, DeleteOld, UpsertStats, ReadStart, SelectScores, LockScores,
                        Place, Fail, Running, TypeOK
    <2>3. \A r \in Request : dropped'[r] \subseteq dropped[r]
      BY <1>2, <1>6 DEF Begin, DeleteOld, UpsertStats, ReadStart, SelectScores, LockScores,
                        Place, Fail, TypeOK
    <2>4. QED
      BY <1>1, <1>2, <2>1, <2>2, <2>3, CountFrame DEF RecordedOnce, NeverTrimmed
  <1>7. ASSUME NEW t \in Request, Ping(GameOf[t])
        PROVE  CountInv'
    BY <1>3, <1>7 DEF Ping
  <1>8. CASE UNCHANGED vars
    BY <1>3, <1>8 DEF vars
  <1>9. QED
    BY <1>1, <1>4, <1>5, <1>6, <1>7, <1>8, CountCommit DEF Next, Post

LEMMA CountedWins == CountInv => WinsCounted
  <1> SUFFICES ASSUME CountInv, NEW u \in User
               PROVE  /\ wins[u] = Cardinality(Games(u, WonBy(u)))
                      /\ fastest[u] = IF WonBy(u) = {} THEN 0
                                      ELSE Min({WinTime[t] : t \in WonBy(u)})
    BY DEF WinsCounted, WonBy
  <1> DEFINE times == {WinTime[t] : t \in WonBy(u)}
  <1>1. CASE WonBy(u) # {}
    <2>1. fastest[u] \in times /\ \A x \in times : fastest[u] <= x
      BY <1>1 DEF CountInv, Counted
    <2>2. times \subseteq Nat
      BY RowFacts DEF CountInv, StoreInv, TypeOK, WonBy
    <2> HIDE DEF times
    <2>3. Min(times) \in times /\ \A x \in times : Min(times) <= x
      BY <2>1 DEF Min
    <2>4. fastest[u] = Min(times)
      <3>1. fastest[u] \in Nat /\ Min(times) \in Nat
        BY <2>1, <2>2, <2>3
      <3>2. fastest[u] <= Min(times) /\ Min(times) <= fastest[u]
        BY <2>1, <2>3
      <3>3. QED
        BY <3>1, <3>2
    <2>5. QED
      BY <1>1, <2>4 DEF CountInv, Counted, times
  <1>2. CASE WonBy(u) = {}
    BY <1>2 DEF CountInv, Counted
  <1>3. QED
    BY <1>1, <1>2

\* WinsCounted: submit_game counts each game won once in the lifetime statistics,
\* however its transaction overlaps others, fails and is retried, as long as no retry
\* comes after the window was trimmed past its game (singleplayer.py:160).
THEOREM WinsCountedOnce == RetriesInTime /\ Spec => []WinsCounted
  <1>1. Init => CountInv
    <2> SUFFICES ASSUME Init PROVE CountInv
      OBVIOUS
    <2>1. Running = {} /\ played = {}
      BY DEF Init, Running
    <2>2. RecordedOnce /\ NeverTrimmed
      BY <2>1 DEF Init, RecordedOnce, NeverTrimmed
    <2>3. \A u \in User : WonBy(u) = {} /\ Games(u, WonBy(u)) = {}
      BY <2>1 DEF WonBy, Games
    <2>4. Counted
      BY <2>3, FS_EmptySet DEF Init, Counted
    <2>5. QED
      BY <2>2, <2>4, StoreInit DEF CountInv
  <1>2. (RetriesInTime /\ CountInv) /\ [Next]_vars => (RetriesInTime /\ CountInv)'
    BY CountStep DEF RetriesInTime
  <1>3. CountInv => WinsCounted
    BY CountedWins
  <1>4. QED
    BY <1>1, <1>2, <1>3, PTL DEF Spec
=============================================================================

--------------------------- MODULE AccountProofs ----------------------------
(***************************************************************************)
(* Accounts, for any tabs, Google users, guests, names and numbers of      *)
(* submissions: each Google user ends with one account and each name with  *)
(* one owner, whatever statements of two requests interleave and whatever  *)
(* answers are lost.                                                       *)
(***************************************************************************)
EXTENDS Accounts, TLAPS

-----------------------------------------------------------------------------
(* The inductive invariant.                                                *)

\* Tabs between the insert of their users row and the end of the transaction.
Inserted(t) == pc[t] \in {"credential", "commit"}

\* Whoever went to the database has chosen a name.
NamesChosen ==
    \A t \in Tab : pc[t] \notin {"new", "pending", "failed", "done"} => name[t] \in Name

\* An uncommitted row is new: no committed row and no other uncommitted one has
\* its name.
RowsNew ==
    /\ \A t \in Tab : Inserted(t) => name[t] \notin users
    /\ \A t, o \in Tab : Inserted(t) /\ Inserted(o) /\ name[t] = name[o] => t = o

\* A credential is inserted by one tab of a Google user that has no account.
CredentialsNew ==
    /\ \A t \in Tab : pc[t] = "commit" => account[GoogleOf[t]] = None
    /\ \A t, o \in Tab :
          pc[t] = "commit" /\ pc[o] = "commit" /\ GoogleOf[t] = GoogleOf[o] => t = o

\* A unique violation had a reason, which stays.
ViolationsStand ==
    \A t \in Tab : pc[t] = "requery" => name[t] \in users \/ account[GoogleOf[t]] # None

\* A guest who was never silent has an active name.
HoldersActive == \A q \in holding : guest[q] = "done" /\ GuestName[q] \in active

\* Whoever was holding when a guest asked has its answer, and another name than the
\* guest unless it fell silent meanwhile.
AskedApart ==
    \A q \in Guest : \A p \in asked[q] :
        guest[p] = "done" /\ (p \in holding => GuestName[p] # GuestName[q])

GuestInv == HoldersActive /\ AskedApart

AccountInv ==
    /\ TypeOK /\ NamesChosen /\ RowsNew /\ CredentialsNew /\ ViolationsStand
    /\ OneAccountEach /\ TokensAgree /\ TakenByOthers
    /\ GuestInv

USE DEF Control, Idle

-----------------------------------------------------------------------------
(* The steps of a tab.                                                     *)

\* A step that writes no row, and leaves a tab outside the two inserts.
LEMMA AccountFrame ==
    ASSUME AccountInv, NEW t \in Tab,
           UNCHANGED <<users, account, guestVars>>,
           name' = name \/ \E n \in Name : name' = [name EXCEPT ![t] = n] /\ pc'[t] = "select",
           NEW where \in Control \ {"credential", "commit"},
           pc' = [pc EXCEPT ![t] = where],
           where \notin {"new", "pending", "failed", "done"} => name'[t] \in Name,
           where = "requery" => name[t] \in users \/ account[GoogleOf[t]] # None,
           where = "taken" => name[t] \in users /\ account[GoogleOf[t]] = None,
           \/ where # "done" /\ pc[t] # "done" /\ token' = token
           \/ where = "done" /\ HasAccount(t) /\ token' = [token EXCEPT ![t] = ExistingName(t)],
           tries' \in 0..MaxTries
    PROVE  AccountInv'
  <1> USE TabAssumption, NameAssumption DEF AccountInv, HasAccount, ExistingName
  <1>1. GoogleOf[t] \in Google /\ None \notin Name
    OBVIOUS
  <1>2. \A o \in Tab \ {t} : pc'[o] = pc[o] /\ name'[o] = name[o] /\ token'[o] = token[o]
    BY DEF TypeOK
  <1>3. pc'[t] = where
    BY DEF TypeOK
  <1>4. where # "select" => name' = name
    BY <1>3
  <1>5. TypeOK'
    <2>1. pc' \in [Tab -> Control] /\ name' \in [Tab -> Name \cup {None}]
      BY DEF TypeOK
    <2>2. /\ token' \in [Tab -> Name \cup {None}]
          /\ \A o \in Tab : pc'[o] = "done" <=> token'[o] # None
      BY <1>1, <1>2, <1>3 DEF TypeOK
    <2>3. QED
      BY <2>1, <2>2 DEF TypeOK, guestVars
  <1>6. NamesChosen'
    BY <1>2, <1>3 DEF NamesChosen
  <1>7. RowsNew'
    BY <1>2, <1>3 DEF RowsNew, Inserted
  <1>8. CredentialsNew'
    BY <1>2, <1>3 DEF CredentialsNew
  <1>9. ViolationsStand'
    BY <1>2, <1>3, <1>4 DEF ViolationsStand
  <1>10. OneAccountEach'
    BY DEF OneAccountEach
  <1>11. TokensAgree'
    BY <1>2 DEF TokensAgree, TypeOK
  <1>12. TakenByOthers'
    BY <1>1, <1>2, <1>3, <1>4 DEF TakenByOthers, NamesChosen, TypeOK
  <1>13. GuestInv'
    BY DEF GuestInv, HoldersActive, AskedApart, guestVars
  <1>14. QED
    BY <1>5, <1>6, <1>7, <1>8, <1>9, <1>10, <1>11, <1>12, <1>13

\* Requests, their answers, and statements that only read.
LEMMA AsksAndReads ==
    ASSUME AccountInv, NEW t \in Tab,
           SignIn(t) \/ Expire(t) \/ Submit(t) \/ FindAccount(t) \/ Requery(t) \/ Fail(t)
    PROVE  AccountInv'
  <1> USE DEF Goto, LogIn, HasAccount, ExistingName, guestVars
  <1>0. TypeOK /\ NamesChosen /\ ViolationsStand /\ tries \in 0..MaxTries
    BY DEF AccountInv, TypeOK
  <1>1. CASE SignIn(t)
    <2>1. CASE HasAccount(t)
      BY <1>0, <1>1, <2>1, AccountFrame DEF SignIn, TypeOK
    <2>2. CASE ~HasAccount(t)
      BY <1>0, <1>1, <2>2, AccountFrame DEF SignIn, TypeOK
    <2>3. QED
      BY <2>1, <2>2
  <1>2. CASE Expire(t)
    <2>1. tries' \in 0..MaxTries
      BY <1>0, <1>2, TriesAssumption DEF Expire
    <2>2. QED
      BY <1>0, <1>2, <2>1, AccountFrame DEF Expire, TypeOK
  <1>3. CASE Submit(t)
    <2>1. tries' \in 0..MaxTries
      BY <1>0, <1>3, TriesAssumption DEF Submit
    <2>2. PICK n \in Name : name' = [name EXCEPT ![t] = n]
      BY <1>3 DEF Submit
    <2>3. pc' = [pc EXCEPT ![t] = "select"] /\ pc'[t] = "select" /\ name'[t] = n
      BY <1>0, <1>3, <2>2 DEF Submit, TypeOK
    <2>4. QED
      BY <1>0, <1>3, <2>1, <2>2, <2>3, AccountFrame DEF Submit
  <1>4. CASE FindAccount(t)
    <2>1. name[t] \in Name
      BY <1>0, <1>4 DEF FindAccount, NamesChosen
    <2>2. CASE HasAccount(t)
      BY <1>0, <1>4, <2>1, <2>2, AccountFrame DEF FindAccount
    <2>3. CASE ~HasAccount(t)
      BY <1>0, <1>4, <2>1, <2>3, AccountFrame DEF FindAccount
    <2>4. QED
      BY <2>2, <2>3
  <1>5. CASE Requery(t)
    <2>1. name[t] \in Name
      BY <1>0, <1>5 DEF Requery, NamesChosen
    <2>2. CASE FinishedElsewhere(t)
      BY <1>0, <1>5, <2>1, <2>2, AccountFrame DEF Requery, FinishedElsewhere
    <2>3. CASE ~FinishedElsewhere(t)
      <3>1. name[t] \in users /\ account[GoogleOf[t]] = None
        BY <1>0, <1>5, <2>3 DEF Requery, FinishedElsewhere, ViolationsStand
      <3>2. QED
        BY <1>0, <1>5, <2>1, <2>3, <3>1, AccountFrame DEF Requery, FinishedElsewhere
    <2>4. QED
      BY <2>2, <2>3
  <1>6. CASE Fail(t)
    BY <1>0, <1>6, AccountFrame DEF Fail
  <1>7. QED
    BY <1>1, <1>2, <1>3, <1>4, <1>5, <1>6

\* The insert of the users row: no committed and no uncommitted row has its name.
LEMMA InsertUserStep ==
    ASSUME AccountInv, NEW t \in Tab, InsertUser(t)
    PROVE  AccountInv'
  <1> USE DEF Goto
  <1>1. TypeOK /\ name[t] \in Name
    BY DEF AccountInv, InsertUser, NamesChosen
  <1>2. CASE name[t] \in users
    BY <1>1, <1>2, AccountFrame DEF InsertUser, TypeOK
  <1>3. CASE name[t] \notin users
    <2>1. /\ UNCHANGED <<users, account, name, token, guestVars, tries>>
          /\ pc' = [pc EXCEPT ![t] = "credential"]
          /\ pc[t] = "insert"
      BY <1>3 DEF InsertUser
    <2>2. \A o \in Tab : Inserted(o) => name[o] # name[t]
      BY DEF InsertUser, Holders, Inserted
    <2>3. pc'[t] = "credential" /\ \A o \in Tab \ {t} : pc'[o] = pc[o]
      BY <1>1, <2>1 DEF TypeOK
    <2>4. TypeOK'
      BY <1>1, <2>1 DEF TypeOK, guestVars
    <2>5. RowsNew'
      BY <1>3, <2>1, <2>2, <2>3 DEF AccountInv, RowsNew, Inserted
    <2>6. NamesChosen'
      BY <1>1, <2>1, <2>3 DEF AccountInv, NamesChosen
    <2>7. CredentialsNew'
      BY <2>1, <2>3 DEF AccountInv, CredentialsNew
    <2>8. ViolationsStand'
      BY <2>1, <2>3 DEF AccountInv, ViolationsStand
    <2>9. OneAccountEach' /\ TokensAgree' /\ TakenByOthers'
      BY <2>1, <2>3 DEF AccountInv, OneAccountEach, TokensAgree, TakenByOthers
    <2>10. GuestInv'
      BY <2>1 DEF AccountInv, GuestInv, HoldersActive, AskedApart, guestVars
    <2>11. QED
      BY <2>4, <2>5, <2>6, <2>7, <2>8, <2>9, <2>10 DEF AccountInv
  <1>4. QED
    BY <1>2, <1>3

\* The insert of the credential: the Google user has none, committed or not.
LEMMA InsertCredentialStep ==
    ASSUME AccountInv, NEW t \in Tab, InsertCredential(t)
    PROVE  AccountInv'
  <1> USE DEF Goto
  <1>1. TypeOK /\ name[t] \in Name
    BY DEF AccountInv, InsertCredential, NamesChosen
  <1>2. CASE CredentialExists(t)
    BY <1>1, <1>2, AccountFrame DEF InsertCredential, CredentialExists, TypeOK
  <1>3. CASE ~CredentialExists(t)
    <2>1. /\ UNCHANGED <<users, account, name, token, guestVars, tries>>
          /\ pc' = [pc EXCEPT ![t] = "commit"]
          /\ pc[t] = "credential"
          /\ account[GoogleOf[t]] = None
      BY <1>3 DEF InsertCredential, CredentialExists
    <2>2. \A o \in Tab \ {t} : GoogleOf[o] = GoogleOf[t] => pc[o] # "commit"
      BY DEF InsertCredential
    <2>3. pc'[t] = "commit" /\ \A o \in Tab \ {t} : pc'[o] = pc[o]
      BY <1>1, <2>1 DEF TypeOK
    <2>4. TypeOK'
      BY <1>1, <2>1 DEF TypeOK, guestVars
    <2>5. RowsNew'
      BY <2>1, <2>3 DEF AccountInv, RowsNew, Inserted
    <2>6. NamesChosen'
      BY <1>1, <2>1, <2>3 DEF AccountInv, NamesChosen
    <2>7. CredentialsNew'
      BY <2>1, <2>2, <2>3 DEF AccountInv, CredentialsNew
    <2>8. ViolationsStand'
      BY <2>1, <2>3 DEF AccountInv, ViolationsStand
    <2>9. OneAccountEach' /\ TokensAgree' /\ TakenByOthers'
      BY <2>1, <2>3 DEF AccountInv, OneAccountEach, TokensAgree, TakenByOthers
    <2>10. GuestInv'
      BY <2>1 DEF AccountInv, GuestInv, HoldersActive, AskedApart, guestVars
    <2>11. QED
      BY <2>4, <2>5, <2>6, <2>7, <2>8, <2>9, <2>10 DEF AccountInv
  <1>4. QED
    BY <1>2, <1>3

\* The commit: one name and one account more, both of which nobody had.
LEMMA CommitStep ==
    ASSUME AccountInv, NEW t \in Tab, Commit(t)
    PROVE  AccountInv'
  <1> DEFINE g == GoogleOf[t]
             n == name[t]
  <1> USE TabAssumption, NameAssumption DEF AccountInv, Goto
  <1>1. /\ g \in Google /\ None \notin Name /\ n \in Name \ users /\ account[g] = None
        /\ pc[t] = "commit" /\ token[t] = None
    BY DEF Commit, NamesChosen, RowsNew, Inserted, CredentialsNew, TypeOK
  <1>2. /\ users' = users \cup {n} /\ account' = [account EXCEPT ![g] = n]
        /\ UNCHANGED <<name, guestVars, tries>>
    BY DEF Commit
  <1>3. account'[g] = n /\ \A h \in Google \ {g} : account'[h] = account[h]
    BY <1>1, <1>2 DEF TypeOK
  <1>4. \/ pc' = [pc EXCEPT ![t] = "done"] /\ token' = [token EXCEPT ![t] = n]
        \/ pc' = [pc EXCEPT ![t] = "failed"] /\ token' = token
    BY DEF Commit
  <1>5. /\ \/ pc'[t] = "done" /\ token'[t] = n
           \/ pc'[t] = "failed" /\ token'[t] = None
        /\ \A o \in Tab \ {t} : pc'[o] = pc[o] /\ token'[o] = token[o]
    BY <1>1, <1>4 DEF TypeOK
  <1>6. \A h \in Google : account[h] \in users \cup {None}
    BY DEF TypeOK
  <1> HIDE DEF g, n
  <1>7. TypeOK'
    <2>1. users' \subseteq Name /\ Seeded \subseteq users'
      BY <1>1, <1>2 DEF TypeOK
    <2>2. account' \in [Google -> users' \cup {None}]
      BY <1>1, <1>2 DEF TypeOK
    <2>3. pc' \in [Tab -> Control] /\ token' \in [Tab -> Name \cup {None}]
      BY <1>1, <1>4 DEF TypeOK
    <2>4. \A o \in Tab : pc'[o] = "done" <=> token'[o] # None
      BY <1>1, <1>5 DEF TypeOK
    <2>5. QED
      BY <1>2, <2>1, <2>2, <2>3, <2>4 DEF TypeOK, guestVars
  <1>8. NamesChosen'
    BY <1>2, <1>5 DEF NamesChosen
  <1>9. RowsNew'
    <2>1. \A o \in Tab \ {t} : Inserted(o) => name[o] # n
      BY <1>1 DEF RowsNew, Inserted, n
    <2>2. QED
      BY <1>2, <1>5, <2>1 DEF RowsNew, Inserted
  <1>10. CredentialsNew'
    <2>1. \A o \in Tab \ {t} : pc[o] = "commit" => GoogleOf[o] # g
      BY <1>1 DEF CredentialsNew, g
    <2>2. \A o \in Tab : GoogleOf[o] \in Google
      OBVIOUS
    <2>3. QED
      BY <1>3, <1>5, <2>1, <2>2 DEF CredentialsNew
  <1>11. ViolationsStand'
    BY <1>1, <1>2, <1>3, <1>5 DEF ViolationsStand
  <1>12. OneAccountEach'
    <2>1. \A h, k \in Google : account'[h] = account'[k] => h = k \/ account'[h] = None
      BY <1>1, <1>3, <1>6 DEF OneAccountEach
    <2>2. \A h \in Google : account'[h] \notin Seeded
      BY <1>1, <1>3 DEF OneAccountEach, TypeOK
    <2>3. users' \ Seeded = {account'[h] : h \in Google} \ {None}
      <3>1. n \notin Seeded
        BY <1>1 DEF TypeOK
      <3>2. {account'[h] : h \in Google} \ {None} = ({account[h] : h \in Google} \ {None}) \cup {n}
        BY <1>1, <1>3
      <3>3. QED
        BY <1>2, <3>1, <3>2 DEF OneAccountEach
    <2>4. QED
      BY <2>1, <2>2, <2>3 DEF OneAccountEach
  <1>13. TokensAgree'
    <2>1. \A o \in Tab : token[o] # None => account'[GoogleOf[o]] = account[GoogleOf[o]]
      BY <1>1, <1>3 DEF TokensAgree
    <2>2. QED
      BY <1>1, <1>3, <1>5, <2>1 DEF TokensAgree, g
  <1>14. TakenByOthers'
    <2>1. ASSUME NEW o \in Tab, pc'[o] = "taken"
          PROVE  name'[o] \in users' /\ account'[GoogleOf[o]] # name'[o]
      <3>1. o # t /\ pc[o] = "taken"
        BY <1>5, <2>1
      <3>2. name[o] \in users /\ account[GoogleOf[o]] # name[o]
        BY <3>1 DEF TakenByOthers
      <3>3. QED
        BY <1>1, <1>2, <1>3, <3>2
    <2>2. QED
      BY <2>1 DEF TakenByOthers
  <1>15. GuestInv'
    BY <1>2 DEF GuestInv, HoldersActive, AskedApart, guestVars
  <1>16. QED
    BY <1>7, <1>8, <1>9, <1>10, <1>11, <1>12, <1>13, <1>14, <1>15

-----------------------------------------------------------------------------
(* The steps of a guest, and the theorem.                                  *)

\* A step of a request, which gives it another answer than a token.
LEMMA GuestAsks ==
    ASSUME TypeOK, GuestInv, NEW q \in Guest,
           guest[q] # "done", NEW answer \in {"lookup", "answer", "refused"},
           Answered(q, answer), UNCHANGED <<active, holding>>,
           \/ asked' = asked
           \/ asked' = [asked EXCEPT ![q] = holding] /\ GuestName[q] \notin active
    PROVE  GuestInv' /\ guest' \in [Guest -> {"new", "lookup", "answer", "done", "refused"}]
           /\ asked' \in [Guest -> SUBSET Guest]
  <1> USE DEF TypeOK, GuestInv, Answered
  <1>1. guest' \in [Guest -> {"new", "lookup", "answer", "done", "refused"}]
        /\ asked' \in [Guest -> SUBSET Guest]
    OBVIOUS
  <1>2. \A p \in Guest : guest[p] = "done" => guest'[p] = "done"
    OBVIOUS
  <1>3. HoldersActive'
    BY <1>2 DEF HoldersActive
  <1>4. AskedApart'
    <2>1. asked'[q] = asked[q] \/ (asked'[q] = holding /\ GuestName[q] \notin active)
      OBVIOUS
    <2>2. \A r \in Guest \ {q} : asked'[r] = asked[r]
      OBVIOUS
    <2>3. QED
      BY <1>2, <2>1, <2>2 DEF AskedApart, HoldersActive
  <1>5. QED
    BY <1>1, <1>3, <1>4

\* A token for a guest: it holds the name, and those who asked before are not told.
LEMMA GuestGetsName ==
    ASSUME TypeOK, GuestInv, NEW q \in Guest, Answer(q)
    PROVE  GuestInv' /\ active' \subseteq Wanted /\ holding' \subseteq Guest
           /\ guest' \in [Guest -> {"new", "lookup", "answer", "done", "refused"}]
  <1> USE DEF TypeOK, GuestInv, Answer, Answered, Touched, Wanted
  <1>1. active' \subseteq Wanted /\ holding' \subseteq Guest
        /\ guest' \in [Guest -> {"new", "lookup", "answer", "done", "refused"}]
    OBVIOUS
  <1>2. guest'[q] = "done" /\ \A p \in Guest \ {q} : guest'[p] = guest[p]
    OBVIOUS
  <1>3. HoldersActive'
    BY <1>2 DEF HoldersActive
  <1>4. AskedApart'
    BY <1>2 DEF AskedApart
  <1>5. QED
    BY <1>1, <1>3, <1>4

\* The tracker hears of a name, or has not for the timeout.
LEMMA TrackerStep ==
    ASSUME TypeOK, GuestInv, NEW n \in Wanted, Heard(n) \/ FallSilent(n)
    PROVE  GuestInv' /\ active' \subseteq Wanted /\ holding' \subseteq Guest
  <1> USE DEF TypeOK, GuestInv
  <1>1. UNCHANGED <<guest, asked>> /\ holding' \subseteq holding
    BY DEF Heard, FallSilent
  <1>2. active' \subseteq Wanted /\ holding' \subseteq Guest
    BY DEF Heard, FallSilent
  <1>3. HoldersActive'
    BY <1>1 DEF HoldersActive, Heard, FallSilent
  <1>4. AskedApart'
    BY <1>1 DEF AskedApart
  <1>5. QED
    BY <1>2, <1>3, <1>4

LEMMA GuestStep ==
    ASSUME AccountInv,
           \/ \E q \in Guest : Register(q) \/ LookUp(q) \/ Answer(q)
           \/ \E n \in Wanted : Heard(n) \/ FallSilent(n)
    PROVE  AccountInv'
  <1> USE DEF tabVars
  <1>1. TypeOK /\ GuestInv
    BY DEF AccountInv
  <1>2. UNCHANGED <<users, account, pc, name, token>> /\ tries' \in 0..MaxTries
    BY <1>1, TriesAssumption DEF Register, LookUp, Answer, Heard, FallSilent, TypeOK
  <1>3. /\ GuestInv' /\ active' \subseteq Wanted /\ holding' \subseteq Guest
        /\ guest' \in [Guest -> {"new", "lookup", "answer", "done", "refused"}]
        /\ asked' \in [Guest -> SUBSET Guest]
    <2>1. CASE \E q \in Guest : Register(q)
      BY <1>1, <2>1, GuestAsks DEF Register, TypeOK
    <2>2. CASE \E q \in Guest : LookUp(q)
      BY <1>1, <2>2, GuestAsks DEF LookUp, TypeOK
    <2>3. CASE \E q \in Guest : Answer(q)
      <3>1. asked' = asked
        BY <2>3 DEF Answer
      <3>2. QED
        BY <1>1, <2>3, <3>1, GuestGetsName DEF TypeOK
    <2>4. CASE \E n \in Wanted : Heard(n) \/ FallSilent(n)
      <3>1. UNCHANGED <<guest, asked>>
        BY <2>4 DEF Heard, FallSilent
      <3>2. QED
        BY <1>1, <2>4, <3>1, TrackerStep DEF TypeOK
    <2>5. QED
      BY <2>1, <2>2, <2>3, <2>4
  <1>4. TypeOK'
    BY <1>1, <1>2, <1>3 DEF TypeOK
  <1>5. /\ NamesChosen' /\ RowsNew' /\ CredentialsNew' /\ ViolationsStand'
        /\ OneAccountEach' /\ TokensAgree' /\ TakenByOthers'
    BY <1>2 DEF AccountInv, NamesChosen, RowsNew, Inserted, CredentialsNew, ViolationsStand,
                OneAccountEach, TokensAgree, TakenByOthers
  <1>6. QED
    BY <1>3, <1>4, <1>5 DEF AccountInv

\* The inductive invariant holds in every reachable state.
THEOREM AccountInvariant == Spec => []AccountInv
  <1>1. Init => AccountInv
    <2> SUFFICES ASSUME Init PROVE AccountInv
      OBVIOUS
    <2> USE NameAssumption DEF Init
    <2>1. TypeOK
      BY TriesAssumption DEF TypeOK
    <2>2. NamesChosen /\ RowsNew /\ CredentialsNew /\ ViolationsStand
      BY DEF NamesChosen, RowsNew, Inserted, CredentialsNew, ViolationsStand
    <2>3. OneAccountEach /\ TokensAgree /\ TakenByOthers /\ GuestInv
      BY DEF OneAccountEach, TokensAgree, TakenByOthers, GuestInv, HoldersActive, AskedApart
    <2>4. QED
      BY <2>1, <2>2, <2>3 DEF AccountInv
  <1>2. AccountInv /\ [Next]_vars => AccountInv'
    <2> SUFFICES ASSUME AccountInv, [Next]_vars PROVE AccountInv'
      OBVIOUS
    <2>1. CASE Next
      BY <2>1, AsksAndReads, InsertUserStep, InsertCredentialStep, CommitStep, GuestStep
         DEF Next, Statement
    <2>2. CASE UNCHANGED vars
      BY <2>2 DEF vars, tabVars, guestVars, AccountInv, TypeOK, NamesChosen, RowsNew,
                  Inserted, CredentialsNew, ViolationsStand, OneAccountEach, TokensAgree,
                  TakenByOthers, GuestInv, HoldersActive, AskedApart
    <2>3. QED
      BY <2>1, <2>2
  <1>3. QED
    BY <1>1, <1>2, PTL DEF Spec

\* OneAccountEach: no race of google_complete (auth.py) leaves a users row without a
\* credential, gives two Google users one row, or a Google user the row of a bot.
THEOREM AccountsUnique == Spec => []OneAccountEach
  <1>1. AccountInv => OneAccountEach
    BY DEF AccountInv
  <1>2. QED
    BY <1>1, AccountInvariant, PTL

\* TokensAgree: every token that google_login and google_complete return names the one
\* account of the Google user, in whichever tab and however often it was asked for.
THEOREM TokensNameTheAccount == Spec => []TokensAgree
  <1>1. AccountInv => TokensAgree
    BY DEF AccountInv
  <1>2. QED
    BY <1>1, AccountInvariant, PTL

\* TakenByOthers: a tab told 409 "already taken" is told so of a name that is not the
\* one another tab of the same Google user has just got.
THEOREM TakenIsTrue == Spec => []TakenByOthers
  <1>1. AccountInv => TakenByOthers
    BY DEF AccountInv
  <1>2. QED
    BY <1>1, AccountInvariant, PTL

\* SharedOnlyInRace: register gives a guest no name that another guest has had since
\* before it asked and was heard of with ever since; requests that overlap may share one.
THEOREM GuestsShareInRaces == Spec => []SharedOnlyInRace
  <1>1. AccountInv => SharedOnlyInRace
    BY DEF AccountInv, TypeOK, GuestInv, AskedApart, SharedOnlyInRace
  <1>2. QED
    BY <1>1, AccountInvariant, PTL
=============================================================================

------------------------------ MODULE Accounts ------------------------------
(***************************************************************************)
(* Names and accounts: POST /auth/register for guests, and the two steps   *)
(* of a Google sign-in, /auth/google and /auth/google/complete, which may  *)
(* run in several tabs of one Google user at once.  A step is a statement  *)
(* of the database, which runs at READ COMMITTED: an insert waits for an   *)
(* uncommitted row with the same key and violates a unique constraint when *)
(* there is a committed one; a violation rolls the transaction back.       *)
(* Of the session tracker the module keeps which of the names that guests  *)
(* ask for were heard of within the heartbeat timeout.                     *)
(***************************************************************************)
EXTENDS Naturals, FiniteSets

CONSTANTS
    Tab,        \* browser tabs of Google users
    Google,     \* google_id
    GoogleOf,   \* the Google user of each tab
    Guest,      \* POST /auth/register requests
    GuestName,  \* the name each of them asks for
    Name,
    Seeded,     \* names of users without credentials: the bots of seed_elo
    MaxTries,   \* bound: submissions of all tabs, and requests of guests
    None

ASSUME TabAssumption == GoogleOf \in [Tab -> Google]
ASSUME NameAssumption == GuestName \in [Guest -> Name] /\ Seeded \subseteq Name /\ None \notin Name
ASSUME TriesAssumption == MaxTries \in Nat

VARIABLES
    users,      \* committed names of table users; a name stands for its row
    account,    \* oauth_credentials: the user of each Google id, or None
    pc, name, token,    \* of each tab
    active,     \* names that guests ask for, with a fresh session in the tracker
    guest,      \* of each guest: the step of its request, or the answer to it
    holding,    \* guests whose name was never silent since they got it (history)
    asked,      \* of each guest: who was holding when it asked (history)
    tries       \* submissions and requests so far

tabVars == <<pc, name, token>>
guestVars == <<active, guest, holding, asked>>
vars == <<users, account, tabVars, guestVars, tries>>

\* Between two requests a tab is at "new", "pending" (it has a pending token and
\* chooses a name), "taken" (it was told 409), "failed" (500) or "done".
Idle == {"new", "pending", "taken", "failed", "done"}
Control == Idle \cup {"select", "insert", "credential", "commit", "requery"}

\* The names that guests ask for.
Wanted == {GuestName[q] : q \in Guest}

TypeOK ==
    /\ Seeded \subseteq users /\ users \subseteq Name
    /\ account \in [Google -> users \cup {None}]
    /\ pc \in [Tab -> Control]
    /\ name \in [Tab -> Name \cup {None}]
    /\ token \in [Tab -> Name \cup {None}]
    /\ tries \in 0..MaxTries
    /\ \A t \in Tab : pc[t] = "done" <=> token[t] # None
    /\ active \subseteq Wanted
    /\ guest \in [Guest -> {"new", "lookup", "answer", "done", "refused"}]
    /\ holding \subseteq Guest
    /\ asked \in [Guest -> SUBSET Guest]

Init ==
    /\ users = Seeded /\ account = [g \in Google |-> None]
    /\ pc = [t \in Tab |-> "new"] /\ name = [t \in Tab |-> None]
    /\ token = [t \in Tab |-> None] /\ tries = 0
    /\ active = {} /\ guest = [q \in Guest |-> "new"]
    /\ holding = {} /\ asked = [q \in Guest |-> {}]

------------------------------------------------------------------------------
(* Google sign-in.                                                           *)

Goto(t, where) == pc' = [pc EXCEPT ![t] = where]

\* The SELECT that joins credentials and users finds a row for the Google id.
HasAccount(t) == account[GoogleOf[t]] # None

\* The name of the token for a user who has an account: existing_name.
\* Mutant: the name just chosen.
JustChosen(t) == name[t]
ExistingName(t) == account[GoogleOf[t]]

LogIn(t) ==
    /\ token' = [token EXCEPT ![t] = ExistingName(t)]
    /\ Goto(t, "done")

\* POST /auth/google: a token, or a pending token with which to choose a name.
SignIn(t) ==
    /\ pc[t] = "new"
    /\ \/ HasAccount(t) /\ LogIn(t)
       \/ ~HasAccount(t) /\ Goto(t, "pending") /\ UNCHANGED token
    /\ UNCHANGED <<users, account, name, guestVars, tries>>

\* The pending token expires: the next submission is answered with 401.
Expire(t) ==
    /\ pc[t] \in {"pending", "taken", "failed"}
    /\ tries < MaxTries
    /\ Goto(t, "new")
    /\ tries' = tries + 1
    /\ UNCHANGED <<users, account, name, token, guestVars>>

\* POST /auth/google/complete, for the first time or again.
Submit(t) ==
    /\ pc[t] \in {"pending", "taken", "failed"}
    /\ tries < MaxTries
    /\ \E n \in Name : name' = [name EXCEPT ![t] = n]
    /\ tries' = tries + 1
    /\ Goto(t, "select")
    /\ UNCHANGED <<users, account, token, guestVars>>

\* The account exists already: a double submit, or a second tab.
FindAccount(t) ==
    /\ pc[t] = "select"
    /\ \/ HasAccount(t) /\ LogIn(t)
       \/ ~HasAccount(t) /\ Goto(t, "insert") /\ UNCHANGED token
    /\ UNCHANGED <<users, account, name, guestVars, tries>>

\* Transactions that hold an uncommitted users row named n; the connection of one
\* that failed is closed.  Mutant: it is not, for want of the finally.
HoldersLeaked(n) == {t \in Tab : name[t] = n /\ pc[t] \in {"credential", "commit", "failed"}}
Holders(n) == {t \in Tab : name[t] = n /\ pc[t] \in {"credential", "commit"}}

InsertUser(t) ==
    /\ pc[t] = "insert"
    /\ Holders(name[t]) = {}
    /\ Goto(t, IF name[t] \in users THEN "requery" ELSE "credential")
    /\ UNCHANGED <<users, account, name, token, guestVars, tries>>

\* UNIQUE(provider, provider_id).  Mutant: the table has no such constraint.
Unconstrained(t) == FALSE
CredentialExists(t) == account[GoogleOf[t]] # None

InsertCredential(t) ==
    /\ pc[t] = "credential"
    /\ \A o \in Tab \ {t} : GoogleOf[o] = GoogleOf[t] => pc[o] # "commit"
    /\ Goto(t, IF CredentialExists(t) THEN "requery" ELSE "commit")
    /\ UNCHANGED <<users, account, name, token, guestVars, tries>>

\* Both rows become visible; the answer reaches the tab, or is lost.
Commit(t) ==
    /\ pc[t] = "commit"
    /\ users' = users \cup {name[t]}
    /\ account' = [account EXCEPT ![GoogleOf[t]] = name[t]]
    /\ \/ token' = [token EXCEPT ![t] = name[t]] /\ Goto(t, "done")
       \/ Goto(t, "failed") /\ UNCHANGED token
    /\ UNCHANGED <<name, guestVars, tries>>

\* After a violation and the rollback: was it the name, or another tab that
\* finished first?  Mutant: the second case is not looked at.
NeverElsewhere(t) == FALSE
FinishedElsewhere(t) == account[GoogleOf[t]] # None

Requery(t) ==
    /\ pc[t] = "requery"
    /\ \/ FinishedElsewhere(t) /\ LogIn(t)
       \/ ~FinishedElsewhere(t) /\ Goto(t, "taken") /\ UNCHANGED token
    /\ UNCHANGED <<users, account, name, guestVars, tries>>

\* A statement raises or the connection is lost: the transaction never was.
Fail(t) ==
    /\ pc[t] \notin Idle
    /\ Goto(t, "failed")
    /\ UNCHANGED <<users, account, name, token, guestVars, tries>>

Statement(t) == FindAccount(t) \/ InsertUser(t) \/ InsertCredential(t) \/ Commit(t) \/ Requery(t)

------------------------------------------------------------------------------
(* Guests, and the session tracker.                                          *)

Answered(q, answer) == guest' = [guest EXCEPT ![q] = answer]

\* POST /auth/register: the name must not be active in the tracker ...
Register(q) ==
    /\ guest[q] = "new"
    /\ tries < MaxTries
    /\ \/ GuestName[q] \in active /\ Answered(q, "refused") /\ UNCHANGED asked
       \/ /\ GuestName[q] \notin active /\ Answered(q, "lookup")
          /\ asked' = [asked EXCEPT ![q] = holding]
    /\ tries' = tries + 1
    /\ UNCHANGED <<users, account, tabVars, active, holding>>

\* ... nor belong to a registered user, nor may the query raise.
LookUp(q) ==
    /\ guest[q] = "lookup"
    /\ \/ GuestName[q] \notin users /\ Answered(q, "answer")
       \/ Answered(q, "refused")
    /\ UNCHANGED <<users, account, tabVars, active, holding, asked, tries>>

\* tracker.touch.  Mutant: register only makes the token.
Untouched(n) == active
Touched(n) == active \cup {n}

\* The answer is a token, and a session in the tracker.
Answer(q) ==
    /\ guest[q] = "answer"
    /\ Answered(q, "done")
    /\ active' = Touched(GuestName[q])
    /\ holding' = holding \cup {q}
    /\ UNCHANGED <<users, account, tabVars, asked, tries>>

\* Guests who have a token.
Done == {q \in Guest : guest[q] = "done"}

\* A request with a token of that name, or the loop of the bot that has it.
Heard(n) ==
    /\ n \notin active
    /\ n \in Seeded \cup {token[t] : t \in Tab} \cup {GuestName[q] : q \in Done}
    /\ active' = active \cup {n}
    /\ UNCHANGED <<users, account, tabVars, guest, holding, asked, tries>>

\* No request has come with the name for HEARTBEAT_TIMEOUT_SECONDS, or its bot logs off.
FallSilent(n) ==
    /\ n \in active
    /\ active' = active \ {n}
    /\ holding' = {q \in holding : GuestName[q] # n}
    /\ UNCHANGED <<users, account, tabVars, guest, asked, tries>>

Next == \/ \E t \in Tab : SignIn(t) \/ Expire(t) \/ Submit(t) \/ Statement(t) \/ Fail(t)
        \/ \E q \in Guest : Register(q) \/ LookUp(q) \/ Answer(q)
        \/ \E n \in Wanted : Heard(n) \/ FallSilent(n)

Spec == Init /\ [][Next]_vars

\* The statements of a request run, and wait only for transactions to end.
FairSpec == Spec /\ \A t \in Tab : WF_vars(Statement(t))

------------------------------------------------------------------------------
(* Properties.                                                               *)

\* Each registered user is a bot or the account of exactly one Google user: no
\* race of tabs leaves a users row that nobody can sign in to, and no two Google
\* users share one.
OneAccountEach ==
    /\ users \ Seeded = {account[g] : g \in Google} \ {None}
    /\ \A g, h \in Google : account[g] = account[h] => g = h \/ account[g] = None
    /\ \A g \in Google : account[g] \notin Seeded

\* Whatever tabs of a Google user do at once, and whichever answers are lost and
\* asked for again, all their tokens name its one account.
TokensAgree == \A t \in Tab : token[t] # None => token[t] = account[GoogleOf[t]]

\* "Username already taken" is true: the name belongs to somebody else, never to
\* another tab of the same Google user that submitted it a moment earlier.
TakenByOthers ==
    \A t \in Tab : pc[t] = "taken" => name[t] \in users /\ account[GoogleOf[t]] # name[t]

\* Two guests play under one name at once only if neither had it when the other
\* asked: register checks the tracker and marks it in two steps, and whoever is heard
\* of keeps its name from all who ask later.
SharedOnlyInRace ==
    \A p, q \in holding : GuestName[p] = GuestName[q] => p \notin asked[q]

\* A sign-in is answered: the waits for uncommitted rows of other tabs end.
SignInEnds == \A t \in Tab : (pc[t] \notin Idle) ~> (pc[t] \in Idle)
==============================================================================

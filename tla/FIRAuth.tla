------------------------------ MODULE FIRAuth ------------------------------
(***************************************************************************)
(* The session of FirebaseAuth 6.1 as the app "Account" uses it (FIRAuth.m,*)
(* FIRUser.m and FIRAuthKeychain.m).                                       *)
(*                                                                         *)
(* Everything that touches the session runs on one serial work queue, so a *)
(* block of it is one action here.  A sign-in (by e-mail, by credential,   *)
(* by phone, or the creation of a user) is two requests to the server: one *)
(* that buys tokens ("request") and one that reads the account ("lookup"). *)
(* Its completion handler is then dispatched to the main queue, and runs   *)
(* there only later: other calls may take effect between the two.          *)
(*                                                                         *)
(* The code compares users by pointer.  A user is therefore an object at   *)
(* an address; a sign-in allocates one, and so does a launch.              *)
(***************************************************************************)
EXTENDS Naturals, Sequences, FiniteSets

CONSTANTS Account,     \* Firebase accounts (uids)
          NoUser,      \* nil
          Call,        \* sign-in calls the program can have outstanding
          Object,      \* addresses of FIRUser objects
          MaxRefresh   \* bound: token refreshes in flight at a time

ASSUME NoUserIsNoAccount == NoUser \notin Account
ASSUME NilIsNoObject == NoUser \notin [uid : Account, object : Object]
ASSUME MaxRefreshIsNat == MaxRefresh \in Nat

VARIABLES
    running,       \* the process exists
    currentUser,   \* _currentUser: a user object, or nil
    stored,        \* the account archived in the keychain, or nil
    stage,         \* how far each call has come
    account,       \* the account each call is about
    mainQueue,     \* completion handlers dispatched to the main queue
    refreshing,    \* user objects with a token request in flight
    quiet          \* history: signed out with no call outstanding, and no
                   \* call made since

vars == <<running, currentUser, stored, stage, account, mainQueue, refreshing,
          quiet>>

User == [uid : Account, object : Object]
Stage == {"idle", "request", "lookup", "ok", "failed"}

TypeOK ==
    /\ running \in BOOLEAN
    /\ currentUser \in User \cup {NoUser}
    /\ stored \in Account \cup {NoUser}
    /\ stage \in [Call -> Stage]
    /\ account \in [Call -> Account \cup {NoUser}]
    /\ mainQueue \in Seq(Call)
    /\ refreshing \subseteq User
    /\ quiet \in BOOLEAN

-----------------------------------------------------------------------------
Uid(user) == IF user = NoUser THEN NoUser ELSE user.uid

Outstanding == {c \in Call : stage[c] # "idle"}

(* Addresses that a live object occupies: the current user, and the users  *)
(* that a request's completion block retains.                              *)
InUse == {u.object : u \in refreshing \cup ({currentUser} \ {NoUser})}

AllIdle == [c \in Call |-> "idle"]
AboutNobody == [c \in Call |-> NoUser]

Init ==
    /\ running = FALSE
    /\ currentUser = NoUser
    /\ stored \in Account \cup {NoUser}   \* the keychain outlives the app
    /\ stage = AllIdle
    /\ account = AboutNobody
    /\ mainQueue = << >>
    /\ refreshing = {}
    /\ quiet = FALSE

-----------------------------------------------------------------------------
(* Variant, never a step: memory is changed although the keychain refused. *)
UpdateCurrentUserMemoryFirst(user, force, saved) ==
    /\ stored' = IF saved THEN Uid(user) ELSE stored
    /\ currentUser' = user

(* A change of the session.  The keychain is written first, and memory     *)
(* follows only if that worked or the caller insists.                      *)
UpdateCurrentUser(user, force, saved) ==
    /\ stored' = IF saved THEN Uid(user) ELSE stored
    /\ currentUser' = IF saved \/ force THEN user ELSE currentUser

(* Variant, never a step: an error path calls the handler a second time.   *)
AnswerTwice(c, ok) ==
    /\ stage' = [stage EXCEPT ![c] = IF ok THEN "ok" ELSE "failed"]
    /\ mainQueue' = IF ok THEN Append(mainQueue, c) ELSE mainQueue \o <<c, c>>

(* The decorated callback dispatches the call's handler to the main queue. *)
Answer(c, ok) ==
    /\ stage' = [stage EXCEPT ![c] = IF ok THEN "ok" ELSE "failed"]
    /\ mainQueue' = Append(mainQueue, c)

Begin(c, a) ==
    /\ running
    /\ stage[c] = "idle"
    /\ stage' = [stage EXCEPT ![c] = "request"]
    /\ account' = [account EXCEPT ![c] = a]
    /\ quiet' = FALSE
    /\ UNCHANGED <<running, currentUser, stored, mainQueue, refreshing>>

(* The server accepts the credential and sends tokens.                     *)
TokensGranted(c) ==
    /\ stage[c] = "request"
    /\ stage' = [stage EXCEPT ![c] = "lookup"]
    /\ UNCHANGED <<running, currentUser, stored, account, mainQueue,
                   refreshing, quiet>>

(* Variant, never a step: an error path forgets the handler.               *)
FailSilently(c) ==
    /\ stage[c] \in {"request", "lookup"}
    /\ stage' = [stage EXCEPT ![c] = "failed"]
    /\ UNCHANGED <<running, currentUser, stored, account, mainQueue,
                   refreshing, quiet>>

(* Either request fails: refused, timed out, or its answer lost.           *)
Fail(c) ==
    /\ stage[c] \in {"request", "lookup"}
    /\ Answer(c, FALSE)
    /\ UNCHANGED <<running, currentUser, stored, account, refreshing, quiet>>

(* Variant, never a step: a sign-in keeps a user already signed in.        *)
CompleteIfNobody(c, saved) ==
    /\ stage[c] = "lookup"
    /\ \E o \in Object \ InUse :
         IF currentUser = NoUser
         THEN UpdateCurrentUser([uid |-> account[c], object |-> o], FALSE, saved)
         ELSE UNCHANGED <<currentUser, stored>>
    /\ Answer(c, saved)
    /\ UNCHANGED <<running, account, refreshing, quiet>>

(* The account is known: a new user object becomes current, if the         *)
(* keychain takes it; if it does not, the call fails.                      *)
Complete(c, saved) ==
    /\ stage[c] = "lookup"
    /\ \E o \in Object \ InUse :
         UpdateCurrentUser([uid |-> account[c], object |-> o], FALSE, saved)
    /\ Answer(c, saved)
    /\ UNCHANGED <<running, account, refreshing, quiet>>

(* The main queue runs the oldest handler.                                 *)
Deliver(c) ==
    /\ mainQueue # << >>
    /\ c = Head(mainQueue)
    /\ mainQueue' = Tail(mainQueue)
    /\ stage' = [stage EXCEPT ![c] = "idle"]
    /\ account' = [account EXCEPT ![c] = NoUser]
    /\ UNCHANGED <<running, currentUser, stored, refreshing, quiet>>

-----------------------------------------------------------------------------
(* signOut: nothing to do if nobody is signed in.  It cancels no call.     *)
SignOut(removed) ==
    /\ running
    /\ IF currentUser = NoUser
       THEN UNCHANGED <<currentUser, stored>>
       ELSE UpdateCurrentUser(NoUser, FALSE, removed)
    /\ quiet' = (\/ quiet
                 \/ currentUser # NoUser /\ removed /\ Outstanding = {})
    /\ UNCHANGED <<running, stage, account, mainQueue, refreshing>>

(* A token is about to expire, or the database asks for one.               *)
StartRefresh ==
    /\ currentUser # NoUser
    /\ currentUser \notin refreshing
    /\ Cardinality(refreshing) < MaxRefresh
    /\ refreshing' = refreshing \cup {currentUser}
    /\ UNCHANGED <<running, currentUser, stored, stage, account, mainQueue,
                   quiet>>

(* Variant, never a step: a refreshed user is archived unconditionally.    *)
RefreshedAlwaysSaved(u, saved) ==
    /\ u \in refreshing
    /\ refreshing' = refreshing \ {u}
    /\ stored' = IF saved THEN u.uid ELSE stored
    /\ UNCHANGED <<running, currentUser, stage, account, mainQueue, quiet>>

(* A new token arrives for user u, which is archived again, but only while *)
(* that very object is still the current user.                             *)
Refreshed(u, saved) ==
    /\ u \in refreshing
    /\ refreshing' = refreshing \ {u}
    /\ stored' = IF u = currentUser /\ saved THEN u.uid ELSE stored
    /\ UNCHANGED <<running, currentUser, stage, account, mainQueue, quiet>>

(* Variant, never a step: the users are compared by account, not by object.*)
RefreshFailedByUid(u, invalid, removed) ==
    /\ u \in refreshing
    /\ refreshing' = refreshing \ {u}
    /\ IF invalid /\ Uid(currentUser) = u.uid
       THEN UpdateCurrentUser(NoUser, TRUE, removed)
       ELSE UNCHANGED <<currentUser, stored>>
    /\ UNCHANGED <<running, stage, account, mainQueue, quiet>>

(* The token request fails.  If the server says that u's account is gone,  *)
(* disabled, or its token revoked ("invalid"), u is signed out by force;   *)
(* on any other error the session stays.  uid strings are compared by      *)
(* pointer, so only the session that asked can be meant.                   *)
RefreshFailed(u, invalid, removed) ==
    /\ u \in refreshing
    /\ refreshing' = refreshing \ {u}
    /\ IF invalid /\ currentUser = u
       THEN UpdateCurrentUser(NoUser, TRUE, removed)
       ELSE UNCHANGED <<currentUser, stored>>
    /\ UNCHANGED <<running, stage, account, mainQueue, quiet>>

-----------------------------------------------------------------------------
(* The process dies, with everything that is only in memory.               *)
Crash ==
    /\ running
    /\ running' = FALSE
    /\ currentUser' = NoUser
    /\ stage' = AllIdle
    /\ account' = AboutNobody
    /\ mainQueue' = << >>
    /\ refreshing' = {}
    /\ UNCHANGED <<stored, quiet>>

(* Variant, never a step: the archive is taken for the user it holds.      *)
LaunchWithBareUid(readable) ==
    /\ ~running
    /\ running' = TRUE
    /\ currentUser' = IF readable THEN stored ELSE NoUser
    /\ UNCHANGED <<stored, stage, account, mainQueue, refreshing, quiet>>

(* initWithApp: the user is restored from the keychain, if it can be read. *)
Launch(readable) ==
    /\ ~running
    /\ running' = TRUE
    /\ IF readable /\ stored # NoUser
       THEN \E o \in Object : currentUser' = [uid |-> stored, object |-> o]
       ELSE UNCHANGED currentUser
    /\ UNCHANGED <<stored, stage, account, mainQueue, refreshing, quiet>>

-----------------------------------------------------------------------------
(* The steps that no caller takes: the server's answers.                   *)
Respond(c) ==
    \/ TokensGranted(c)
    \/ Fail(c)
    \/ \E saved \in BOOLEAN : Complete(c, saved)

TokenService ==
    \/ StartRefresh
    \/ \E u \in refreshing, saved \in BOOLEAN : Refreshed(u, saved)
    \/ \E u \in refreshing, invalid, removed \in BOOLEAN :
         RefreshFailed(u, invalid, removed)

Next ==
    \/ \E c \in Call, a \in Account : Begin(c, a)
    \/ \E c \in Call : Respond(c) \/ Deliver(c)
    \/ \E removed \in BOOLEAN : SignOut(removed)
    \/ TokenService
    \/ Crash
    \/ \E readable \in BOOLEAN : Launch(readable)

Spec == Init /\ [][Next]_vars

(* Requests end, if only by their timeout, and the main queue is served.   *)
Fairness ==
    /\ \A c \in Call : WF_vars(Respond(c))
    /\ \A c \in Call : WF_vars(Deliver(c))

FairSpec == Spec /\ Fairness

-----------------------------------------------------------------------------
(* A call that is under way knows its account.                             *)
CallsHaveAccounts == \A c \in Call : stage[c] # "idle" => account[c] \in Account

(* What is only in memory does not outlive the process.                    *)
NothingAfterDeath == ~running => /\ currentUser = NoUser
                                 /\ stage = AllIdle
                                 /\ mainQueue = << >>
                                 /\ refreshing = {}

(* Whoever is signed in is also who a restart would find: memory never     *)
(* names an account that the keychain does not hold.  (The converse fails: *)
(* after an unreadable keychain or a forced sign-out whose removal failed, *)
(* the keychain holds an account that memory does not show.)               *)
MemoryIsStored == currentUser # NoUser => stored = currentUser.uid

(* The decorated callback answers each call exactly once: the handlers     *)
(* waiting on the main queue are those of the answered calls, without      *)
(* repetition.                                                             *)
AnsweredOnce ==
    /\ \A c \in Call :
         stage[c] \in {"ok", "failed"} <=> \E i \in DOMAIN mainQueue : mainQueue[i] = c
    /\ \A i, j \in DOMAIN mainQueue : mainQueue[i] = mainQueue[j] => i = j

(* The sessions of overlapping calls are ordered like their handlers: if   *)
(* anybody is signed in while success handlers wait, it is the account of  *)
(* the last of them.  The handlers before it run under another account     *)
(* than the one they report, which is what a handler that reads            *)
(* Auth.auth().currentUser must reckon with.                               *)
LastSuccess(i) ==
    /\ stage[mainQueue[i]] = "ok"
    /\ \A j \in DOMAIN mainQueue : j > i => stage[mainQueue[j]] # "ok"

LastSuccessRules ==
    \A i \in DOMAIN mainQueue :
        LastSuccess(i) => Uid(currentUser) \in {NoUser, account[mainQueue[i]]}

(* A sign-out that reported success, made while no call was outstanding,   *)
(* holds until the next call, on the device too: neither a token refresh   *)
(* still in flight nor a restart brings the account back.                  *)
SignedOutStays == quiet => /\ currentUser = NoUser
                           /\ stored = NoUser
                           /\ Outstanding = {}

(* The end of a token request concerns only the session that made it: once *)
(* that session is replaced, even by a new one of the same account, its    *)
(* answer changes neither memory nor keychain.                             *)
StaleRefreshHarmless ==
    [][\A u \in refreshing \ refreshing' :
          running' /\ u # currentUser => UNCHANGED <<currentUser, stored>>]_vars

(* The strengthening under which the invariants above are inductive.       *)
IInv ==
    /\ TypeOK
    /\ CallsHaveAccounts
    /\ NothingAfterDeath
    /\ MemoryIsStored
    /\ AnsweredOnce
    /\ LastSuccessRules
    /\ SignedOutStays

(* Every call is answered and its handler run, unless the process dies.    *)
EveryCallEnds == \A c \in Call : stage[c] # "idle" ~> stage[c] = "idle"

(* FIRAuth keeps the promise of AuthSession.                               *)
AnswerOf(s) == CASE s = "idle" -> "none"
                 [] s \in {"request", "lookup"} -> "asked"
                 [] s = "ok" -> "granted"
                 [] s = "failed" -> "refused"

Session == INSTANCE AuthSession WITH
    durable <- stored,
    visible <- Uid(currentUser),
    asked   <- account,
    answer  <- [c \in Call |-> AnswerOf(stage[c])],
    decided <- mainQueue

ImplementsSession == Session!Spec
=============================================================================

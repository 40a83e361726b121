------------------------------- MODULE FBSDK -------------------------------
(***************************************************************************)
(* The Facebook session of the app: the access token of FBSDKCoreKit, the  *)
(* logins of FBSDKLoginKit and the graph requests that carry the token     *)
(* (FBSDKAccessToken*.m, FBSDKLoginManager.m, FBSDKGraphRequest*.m).       *)
(*                                                                         *)
(* A login made while a token is current is a reauthentication: the new    *)
(* token is kept aside until a request has told whose it is.  A request    *)
(* carries the token that was current when it was made; an answer that     *)
(* says "invalid token" lets the user log in again, and otherwise clears   *)
(* that token; a transient error is retried once.                          *)
(***************************************************************************)
EXTENDS Naturals, FiniteSets

CONSTANTS Person,     \* Facebook users
          Serial,     \* what tells one token string from another
          NoToken,    \* nil
          Login,      \* logins in flight at a time
          Fetch,      \* profile requests in flight at a time
          NoFetch     \* a login that recovers no request

Token == [user : Person, serial : Serial]

ASSUME NoTokenIsNoToken == NoToken \notin Token
ASSUME NoFetchIsNoFetch == NoFetch \notin Fetch

VARIABLES
    running,    \* the process exists
    token,      \* [FBSDKAccessToken currentAccessToken]
    cached,     \* what a restart would find in FBSDKAccessTokenCache
    login,      \* logins: web sheet, then validation
    fetch       \* graph requests for the profile

vars == <<running, token, cached, login, fetch>>

MaybeToken == Token \cup {NoToken}

LoginState == [stage : {"idle", "sheet", "validating"},
               fresh : MaybeToken,            \* the token just granted
               old : MaybeToken,              \* the token it may replace
               recovers : Fetch \cup {NoFetch}]
FetchState == [stage : {"idle", "sent", "asking", "recovering"},
               token : MaybeToken,            \* the token it carries
               last : BOOLEAN]                \* error recovery disabled

NoLogin == [stage |-> "idle", fresh |-> NoToken, old |-> NoToken,
            recovers |-> NoFetch]
NoRequest == [stage |-> "idle", token |-> NoToken, last |-> FALSE]

TypeOK ==
    /\ running \in BOOLEAN
    /\ token \in MaybeToken
    /\ cached \in MaybeToken
    /\ login \in [Login -> LoginState]
    /\ fetch \in [Fetch -> FetchState]

Init ==
    /\ running = FALSE
    /\ token = NoToken
    /\ cached \in MaybeToken
    /\ login = [l \in Login |-> NoLogin]
    /\ fetch = [f \in Fetch |-> NoRequest]

-----------------------------------------------------------------------------
(* Tokens that something still refers to; a new one is none of them.       *)
Known == {token, cached} \cup {login[l].fresh : l \in Login}
         \cup {login[l].old : l \in Login} \cup {fetch[f].token : f \in Fetch}

(* Variant, never a step: the keychain entry alone is cleared.             *)
SetCurrentKeychainOnly(t) ==
    /\ token' = t
    /\ IF t = token THEN UNCHANGED cached ELSE cached' \in {t, cached}

(* A new current token is written to the keychain, which may not take it;  *)
(* nil also erases the key under which the keychain entry is recognised,   *)
(* so that no failure of the keychain can bring a cleared token back.      *)
SetCurrent(t) ==
    /\ token' = t
    /\ CASE t = token -> UNCHANGED cached
         [] t # token /\ t = NoToken -> cached' = NoToken
         [] OTHER -> cached' \in {t, cached}

(* Variant, never a step: the token is cleared without comparison.         *)
EndInErrorAnyToken(f, invalid) ==
    /\ fetch' = [fetch EXCEPT ![f] = NoRequest]
    /\ SetCurrent(IF invalid THEN NoToken ELSE token)

(* A request ends with an error.  If that is "invalid token", the token it *)
(* carried is cleared, if it is still the current one.                     *)
EndInError(f, invalid) ==
    /\ fetch' = [fetch EXCEPT ![f] = NoRequest]
    /\ SetCurrent(IF invalid /\ fetch[f].token = token THEN NoToken ELSE token)

(* Variant, never a step: error recovery stays enabled for the retry.      *)
RetriedForEver(t) == [stage |-> "sent", token |-> t, last |-> FALSE]

(* The request is sent again, once, with the token that is now current.    *)
Retried(t) == [stage |-> "sent", token |-> t, last |-> TRUE]

(* Requests at rest, one of which a program's handler may start at once.   *)
Startable == {NoFetch} \cup {f \in Fetch : fetch[f] = NoRequest}

Started(f, t) ==
    IF f = NoFetch
    THEN fetch
    ELSE [fetch EXCEPT ![f] = [stage |-> "sent", token |-> t, last |-> FALSE]]

(* The handler of a login runs.  The program's may start request load; the *)
(* SDK's own, of a login that recovers a request, retries it if the user   *)
(* declined no permission, and ends it otherwise.                          *)
LoggedIn(l, t, load) ==
    /\ login' = [login EXCEPT ![l] = NoLogin]
    /\ SetCurrent(t)
    /\ IF login[l].recovers = NoFetch
       THEN fetch' = Started(load, t)
       ELSE /\ load = NoFetch
            /\ \E answered \in {Retried(t), NoRequest} :
                 fetch' = [fetch EXCEPT ![login[l].recovers] = answered]

NotLoggedIn(l, load) ==
    /\ login' = [login EXCEPT ![l] = NoLogin]
    /\ IF login[l].recovers = NoFetch
       THEN fetch' = Started(load, token) /\ UNCHANGED <<token, cached>>
       ELSE load = NoFetch /\ EndInError(login[l].recovers, TRUE)

-----------------------------------------------------------------------------
(* logIn: the web sheet is up.                                             *)
LogIn(l) ==
    /\ running
    /\ login[l] = NoLogin
    /\ login' = [login EXCEPT ![l].stage = "sheet"]
    /\ UNCHANGED <<running, token, cached, fetch>>

(* The sheet is dismissed, or fails, or grants nothing; to grant nothing   *)
(* when no token is left passes for a recovery.                            *)
SheetClosed(l, load) ==
    /\ login[l].stage = "sheet"
    /\ \/ NotLoggedIn(l, load)
       \/ /\ token = NoToken
          /\ login[l].recovers # NoFetch
          /\ LoggedIn(l, NoToken, load)
    /\ UNCHANGED running

(* Variant, never a step: a reauthentication is taken at its word.         *)
SheetGrantedUnvalidated(l, p, load) ==
    /\ login[l].stage = "sheet"
    /\ \E t \in {u \in Token : u.user = p} \ Known : LoggedIn(l, t, load)
    /\ UNCHANGED running

(* Person p logs in on the sheet.                                          *)
SheetGranted(l, p, load) ==
    /\ login[l].stage = "sheet"
    /\ \E t \in {u \in Token : u.user = p} \ Known :
         IF token = NoToken
         THEN LoggedIn(l, t, load)
         ELSE /\ load = NoFetch
              /\ login' = [login EXCEPT ![l].stage = "validating",
                                        ![l].fresh = t,
                                        ![l].old = token]
              /\ UNCHANGED <<token, cached, fetch>>
    /\ UNCHANGED running

(* The server tells whose the fresh token is.  It is compared with the     *)
(* token that was current when the question was asked.                     *)
Validated(l, load) ==
    /\ login[l].stage = "validating"
    /\ login[l].fresh.user = login[l].old.user
    /\ LoggedIn(l, login[l].fresh, load)
    /\ UNCHANGED running

(* Another user (FBSDKLoginErrorUserMismatch), or no answer.               *)
NotValidated(l, load) ==
    /\ login[l].stage = "validating"
    /\ NotLoggedIn(l, load)
    /\ UNCHANGED running

LogOut ==
    /\ running
    /\ SetCurrent(NoToken)
    /\ UNCHANGED <<running, login, fetch>>

-----------------------------------------------------------------------------
StartFetch(f) ==
    /\ running
    /\ f \in Startable \ {NoFetch}
    /\ fetch' = Started(f, token)
    /\ UNCHANGED <<running, token, cached, login>>

(* The profile of the user whose token the request carried.                *)
FetchOk(f) ==
    /\ fetch[f].stage = "sent"
    /\ fetch[f].token # NoToken
    /\ fetch' = [fetch EXCEPT ![f] = NoRequest]
    /\ UNCHANGED <<running, token, cached, login>>

FetchFailed(f) ==
    /\ fetch[f].stage = "sent"
    /\ EndInError(f, FALSE)
    /\ UNCHANGED <<running, login>>

FetchTransient(f) ==
    /\ fetch[f].stage = "sent"
    /\ ~fetch[f].last
    /\ fetch' = [fetch EXCEPT ![f] = Retried(token)]
    /\ UNCHANGED <<running, token, cached, login>>

(* "Invalid token": the user is asked to log in again if the token is the  *)
(* current one and this is not a retry already.  (With subcode 493 the     *)
(* token only expires and stays current: that is FetchFailed.)             *)
FetchInvalid(f) ==
    /\ fetch[f].stage = "sent"
    /\ fetch[f].token # NoToken
    /\ IF fetch[f].token = token /\ ~fetch[f].last
       THEN /\ fetch' = [fetch EXCEPT ![f].stage = "asking"]
            /\ UNCHANGED <<token, cached>>
       ELSE EndInError(f, TRUE)
    /\ UNCHANGED <<running, login>>

RecoveryDeclined(f) ==
    /\ fetch[f].stage = "asking"
    /\ EndInError(f, TRUE)
    /\ UNCHANGED <<running, login>>

(* Without a token there are no permissions to ask for again.              *)
RecoveryAccepted(f, l) ==
    /\ fetch[f].stage = "asking"
    /\ token # NoToken
    /\ login[l] = NoLogin
    /\ login' = [login EXCEPT ![l].stage = "sheet", ![l].recovers = f]
    /\ fetch' = [fetch EXCEPT ![f].stage = "recovering"]
    /\ UNCHANGED <<running, token, cached>>

-----------------------------------------------------------------------------
Crash ==
    /\ running
    /\ running' = FALSE
    /\ token' = NoToken
    /\ login' = [l \in Login |-> NoLogin]
    /\ fetch' = [f \in Fetch |-> NoRequest]
    /\ UNCHANGED cached

(* Variant, never a step: the user is restored in place of the token.      *)
LaunchWithBareUser(readable) ==
    /\ ~running
    /\ running' = TRUE
    /\ cached' = IF readable THEN cached ELSE NoToken
    /\ token' = IF cached' = NoToken THEN NoToken ELSE cached'.user
    /\ UNCHANGED <<login, fetch>>

(* The cached token becomes current; a keychain that cannot be read erases *)
(* the cache.                                                              *)
Launch(readable) ==
    /\ ~running
    /\ running' = TRUE
    /\ cached' = IF readable THEN cached ELSE NoToken
    /\ token' = cached'
    /\ UNCHANGED <<login, fetch>>

-----------------------------------------------------------------------------
LoginStep(l) ==
    \/ LogIn(l)
    \/ \E load \in Startable :
         \/ SheetClosed(l, load)
         \/ \E p \in Person : SheetGranted(l, p, load)
         \/ Validated(l, load)
         \/ NotValidated(l, load)

(* The server's answers to a profile request.                              *)
FetchAnswered(f) ==
    \/ FetchOk(f)
    \/ FetchFailed(f)
    \/ FetchTransient(f)
    \/ FetchInvalid(f)

Next ==
    \/ \E l \in Login : LoginStep(l)
    \/ LogOut
    \/ \E f \in Fetch : StartFetch(f) \/ FetchAnswered(f) \/ RecoveryDeclined(f)
    \/ \E f \in Fetch, l \in Login : RecoveryAccepted(f, l)
    \/ Crash
    \/ \E readable \in BOOLEAN : Launch(readable)

Spec == Init /\ [][Next]_vars

(* Every request is answered, if only by its timeout.                      *)
FairSpec == Spec /\ \A f \in Fetch : WF_vars(FetchAnswered(f))

-----------------------------------------------------------------------------
(* A session that was closed (by the user, by an invalid token, by an      *)
(* unreadable keychain) does not come back at the next launch, whatever    *)
(* keychain writes fail in between.                                        *)
LoggedOutStays == running /\ token = NoToken => cached = NoToken

(* The current token passes from one user to another only through nil,     *)
(* except by a validation that compared with a token which is no longer    *)
(* current: the one hole in the UserMismatch check.                        *)
SwitchOnlyByStaleValidation ==
    [][token # NoToken /\ token' # NoToken /\ token'.user # token.user =>
          \E l \in Login : /\ login[l].stage = "validating"
                           /\ login'[l] = NoLogin
                           /\ login[l].old # token]_vars

(* The end of a profile request clears no other token than the one that    *)
(* request carried: the answer to a request made before a log-out does not *)
(* log the next user out.                                                  *)
OnlyOwnTokenCleared ==
    [][\A f \in Fetch :
          /\ running'
          /\ fetch[f] # NoRequest
          /\ fetch'[f] = NoRequest
          /\ token' = NoToken
          => token \in {NoToken, fetch[f].token}]_vars

(* A request that is sent does not stay so: it is answered, or turned into *)
(* a question to the user; retries do not follow one another for ever.     *)
FetchesSettle ==
    \A f \in Fetch : fetch[f].stage = "sent" ~> fetch[f].stage # "sent"
=============================================================================

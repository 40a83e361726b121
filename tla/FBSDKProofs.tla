---------------------------- MODULE FBSDKProofs ----------------------------
(***************************************************************************)
(* The Facebook session keeps its invariants for any sets of users, token  *)
(* strings, logins and requests.                                           *)
(*                                                                         *)
(* What the steps do to token and cache goes through SetCurrent; the       *)
(* lemmas of the first part say what SetCurrent and the two ends of a      *)
(* login do, and the steps are proved from them.                           *)
(***************************************************************************)
EXTENDS FBSDK, TLAPS

USE NoTokenIsNoToken, NoFetchIsNoFetch

(* Nothing of a process outlives it but the cache.                         *)
NothingAfterDeath ==
    ~running => /\ token = NoToken
                /\ \A l \in Login : login[l] = NoLogin
                /\ \A f \in Fetch : fetch[f] = NoRequest

(* A validation compares two tokens.                                       *)
ValidatingHasTokens ==
    \A l \in Login : login[l].stage = "validating" =>
        login[l].fresh \in Token /\ login[l].old \in Token

(* A request that is recovered has one login that recovers it, and a login *)
(* recovers no other request: its end is never told to the wrong one.      *)
RecoveryPaired ==
    /\ \A l \in Login : login[l].recovers # NoFetch =>
          fetch[login[l].recovers].stage = "recovering"
    /\ \A f \in Fetch : fetch[f].stage = "recovering" =>
          \E l \in Login : login[l].recovers = f
    /\ \A l, m \in Login :
          login[l].recovers # NoFetch /\ login[l].recovers = login[m].recovers => l = m

IInv == /\ TypeOK /\ NothingAfterDeath /\ ValidatingHasTokens
        /\ LoggedOutStays /\ RecoveryPaired

-----------------------------------------------------------------------------
(* The parts of a step.                                                    *)

(* A login and a request at rest are of their type.                        *)
LEMMA RestTyped ==
    /\ NoLogin \in LoginState /\ NoLogin.stage = "idle" /\ NoLogin.recovers = NoFetch
    /\ NoRequest \in FetchState /\ NoRequest.stage = "idle"
  BY DEF NoLogin, NoRequest, LoginState, FetchState, MaybeToken

(* A request that is sent is of its type, and not at rest.                 *)
LEMMA SentTyped ==
    ASSUME NEW t \in MaybeToken
    PROVE  /\ Retried(t) \in FetchState
           /\ Retried(t) # NoRequest
           /\ Retried(t).stage = "sent"
  BY DEF Retried, NoRequest, FetchState, MaybeToken

(* The current token is what it was set to; the cache can only have what   *)
(* it had or that token, and has nothing if the token is nil.              *)
LEMMA SetCurrentFacts ==
    ASSUME TypeOK, NEW t \in MaybeToken, SetCurrent(t)
    PROVE  /\ token' = t
           /\ token' \in MaybeToken /\ cached' \in MaybeToken
           /\ running /\ LoggedOutStays /\ t = NoToken => cached' = NoToken
  BY DEF TypeOK, SetCurrent, MaybeToken, LoggedOutStays

(* A program's handler starts a request at rest, or none.                  *)
LEMMA StartedFacts ==
    ASSUME TypeOK, NEW load \in Startable, NEW t \in MaybeToken
    PROVE  /\ Started(load, t) \in [Fetch -> FetchState]
           /\ \A f \in Fetch : Started(load, t)[f] # fetch[f] =>
                 /\ fetch[f] = NoRequest
                 /\ Started(load, t)[f] # NoRequest
                 /\ Started(load, t)[f].stage = "sent"
<1>1. CASE load = NoFetch
  BY <1>1 DEF Started, TypeOK
<1>2. CASE load # NoFetch
  <2> DEFINE sent == [stage |-> "sent", token |-> t, last |-> FALSE]
  <2>1. load \in Fetch /\ fetch[load] = NoRequest
    BY <1>2 DEF Startable
  <2>2. sent \in FetchState /\ sent # NoRequest /\ sent.stage = "sent"
    BY DEF FetchState, MaybeToken, NoRequest
  <2>3. Started(load, t) = [fetch EXCEPT ![load] = sent]
    BY <1>2 DEF Started
  <2> HIDE DEF sent
  <2> QED
    BY <2>1, <2>2, <2>3 DEF TypeOK
<1> QED
  BY <1>1, <1>2

(* A request that ends with an error: only its own token can be cleared.   *)
LEMMA EndInErrorFacts ==
    ASSUME TypeOK, NEW f \in Fetch, NEW invalid \in BOOLEAN, EndInError(f, invalid)
    PROVE  /\ token' \in {NoToken, token} /\ cached' \in MaybeToken
           /\ token' = NoToken => token \in {NoToken, fetch[f].token}
           /\ running /\ LoggedOutStays /\ token' = NoToken => cached' = NoToken
           /\ fetch' \in [Fetch -> FetchState]
           /\ fetch'[f] = NoRequest
           /\ \A g \in Fetch \ {f} : fetch'[g] = fetch[g]
<1> DEFINE t == IF invalid /\ fetch[f].token = token THEN NoToken ELSE token
<1>1. t \in MaybeToken /\ SetCurrent(t)
  BY DEF EndInError, TypeOK, MaybeToken
<1>2. /\ token' = t /\ cached' \in MaybeToken
      /\ running /\ LoggedOutStays /\ t = NoToken => cached' = NoToken
  <2> HIDE DEF t
  <2> QED
    BY <1>1, SetCurrentFacts
<1>3. /\ fetch' \in [Fetch -> FetchState]
      /\ fetch'[f] = NoRequest
      /\ \A g \in Fetch \ {f} : fetch'[g] = fetch[g]
  BY RestTyped DEF EndInError, TypeOK
<1> QED
  BY <1>2, <1>3

(* Login l ends: its handler may start a request, or answers the request   *)
(* it recovers.                                                            *)
LoginEnds(l) ==
    /\ login' = [login EXCEPT ![l] = NoLogin]
    /\ fetch' \in [Fetch -> FetchState]
    /\ login[l].recovers # NoFetch =>
          /\ fetch'[login[l].recovers].stage # "recovering"
          /\ \A g \in Fetch \ {login[l].recovers} : fetch'[g] = fetch[g]
    /\ login[l].recovers = NoFetch =>
          \A f \in Fetch : fetch'[f] # fetch[f] =>
             fetch[f] = NoRequest /\ fetch'[f] # NoRequest /\ fetch'[f].stage = "sent"

(* A login that succeeds: its token is current.                            *)
LEMMA LoggedInFacts ==
    ASSUME TypeOK, NEW l \in Login, NEW t \in MaybeToken, NEW load \in Startable,
           LoggedIn(l, t, load)
    PROVE  /\ LoginEnds(l)
           /\ token' = t /\ cached' \in MaybeToken
           /\ running /\ LoggedOutStays /\ t = NoToken => cached' = NoToken
<1>1. login' = [login EXCEPT ![l] = NoLogin] /\ SetCurrent(t)
  BY DEF LoggedIn
<1>2. CASE login[l].recovers = NoFetch
  BY <1>1, <1>2, SetCurrentFacts, StartedFacts DEF LoggedIn, LoginEnds
<1>3. CASE login[l].recovers # NoFetch
  <2>1. login[l].recovers \in Fetch
    BY <1>3 DEF TypeOK, LoginState
  <2>2. PICK answered \in {Retried(t), NoRequest} :
          fetch' = [fetch EXCEPT ![login[l].recovers] = answered]
    BY <1>3 DEF LoggedIn
  <2>3. answered \in FetchState /\ answered.stage # "recovering"
    BY RestTyped, SentTyped
  <2> QED
    BY <1>1, <1>3, <2>1, <2>2, <2>3, SetCurrentFacts DEF LoginEnds, TypeOK
<1> QED
  BY <1>2, <1>3

(* A login that fails clears at most the token of the request it recovers. *)
LEMMA NotLoggedInFacts ==
    ASSUME TypeOK, NEW l \in Login, NEW load \in Startable, NotLoggedIn(l, load)
    PROVE  /\ LoginEnds(l)
           /\ token' \in {token, NoToken} /\ cached' \in MaybeToken
           /\ running /\ LoggedOutStays /\ token' = NoToken => cached' = NoToken
           /\ token' = NoToken /\ token # NoToken =>
                 login[l].recovers # NoFetch /\ token = fetch[login[l].recovers].token
<1>1. login' = [login EXCEPT ![l] = NoLogin]
  BY DEF NotLoggedIn
<1>2. CASE login[l].recovers = NoFetch
  <2>1. fetch' = Started(load, token) /\ token' = token /\ cached' = cached
    BY <1>2 DEF NotLoggedIn
  <2> QED
    BY <1>1, <1>2, <2>1, StartedFacts DEF LoginEnds, TypeOK, LoggedOutStays
<1>3. CASE login[l].recovers # NoFetch
  <2>1. login[l].recovers \in Fetch /\ EndInError(login[l].recovers, TRUE)
    BY <1>3 DEF NotLoggedIn, TypeOK, LoginState
  <2> QED
    BY <1>1, <1>3, <2>1, EndInErrorFacts, RestTyped DEF LoginEnds, TypeOK
<1> QED
  BY <1>2, <1>3

(* The end of a login leaves every other login as it was.                  *)
LEMMA LoginEndsKeeps ==
    ASSUME IInv, NEW l \in Login, LoginEnds(l)
    PROVE  /\ login' \in [Login -> LoginState]
           /\ login'[l] = NoLogin
           /\ \A m \in Login \ {l} : login'[m] = login[m]
           /\ fetch' \in [Fetch -> FetchState]
           /\ ValidatingHasTokens'
           /\ RecoveryPaired'
<1>1. /\ login' \in [Login -> LoginState]
      /\ login'[l] = NoLogin
      /\ \A m \in Login \ {l} : login'[m] = login[m]
  BY RestTyped DEF LoginEnds, IInv, TypeOK
<1>2. ValidatingHasTokens'
  BY <1>1, RestTyped DEF IInv, ValidatingHasTokens
<1>3. RecoveryPaired'
  <2>1. ASSUME NEW m \in Login, login'[m].recovers # NoFetch
        PROVE  fetch'[login'[m].recovers].stage = "recovering"
    <3>1. m # l /\ login'[m] = login[m]
      BY <1>1, <2>1, RestTyped
    <3>2. login[m].recovers \in Fetch /\ fetch[login[m].recovers].stage = "recovering"
      BY <2>1, <3>1 DEF IInv, RecoveryPaired, TypeOK, LoginState
    <3>3. CASE login[l].recovers = NoFetch
      BY <3>1, <3>2, <3>3, RestTyped DEF LoginEnds
    <3>4. CASE login[l].recovers # NoFetch
      <4>1. login[m].recovers # login[l].recovers
        BY <2>1, <3>1 DEF IInv, RecoveryPaired
      <4> QED
        BY <3>1, <3>2, <3>4, <4>1 DEF LoginEnds
    <3> QED
      BY <3>3, <3>4
  <2>2. ASSUME NEW f \in Fetch, fetch'[f].stage = "recovering"
        PROVE  \E m \in Login : login'[m].recovers = f
    <3>1. f # login[l].recovers /\ fetch[f] = fetch'[f]
      BY <2>2, NoFetchIsNoFetch DEF LoginEnds
    <3>2. PICK m \in Login : login[m].recovers = f
      BY <2>2, <3>1 DEF IInv, RecoveryPaired
    <3> QED
      BY <1>1, <3>1, <3>2
  <2>3. ASSUME NEW m \in Login, NEW n \in Login,
               login'[m].recovers # NoFetch, login'[m].recovers = login'[n].recovers
        PROVE  m = n
    BY <1>1, <2>3, RestTyped DEF IInv, RecoveryPaired
  <2> QED
    BY <2>1, <2>2, <2>3 DEF RecoveryPaired
<1> QED
  BY <1>1, <1>2, <1>3 DEF LoginEnds

-----------------------------------------------------------------------------
(* Steps.                                                                  *)

(* What the steps of a login do: it begins, its granted token is to be     *)
(* validated, or it ends.  A token it makes current was granted when there *)
(* was none, or is of the user it was compared with.                       *)
LoginBegins(l) ==
    /\ running
    /\ login[l] = NoLogin
    /\ login' = [login EXCEPT ![l].stage = "sheet"]
    /\ UNCHANGED <<token, cached, fetch>>
LoginValidates(l) ==
    /\ login[l].stage = "sheet"
    /\ \E t \in Token : login' = [login EXCEPT ![l].stage = "validating",
                                               ![l].fresh = t,
                                               ![l].old = token]
    /\ token \in Token
    /\ UNCHANGED <<token, cached, fetch>>
LoginFinishes(l) ==
    /\ login[l].stage # "idle"
    /\ LoginEnds(l)
    /\ cached' \in MaybeToken
    /\ running /\ LoggedOutStays /\ token' = NoToken => cached' = NoToken
    /\ \/ token' \in {token, NoToken} /\ (token' = NoToken /\ token # NoToken =>
             login[l].recovers # NoFetch /\ token = fetch[login[l].recovers].token)
       \/ token = NoToken /\ token' \in Token
       \/ /\ login[l].stage = "validating"
          /\ token' \in Token
          /\ token' = login[l].fresh
          /\ token'.user = login[l].old.user

(* LoginStep: a step of a login is one of these three, in a process that   *)
(* goes on.                                                                *)
LEMMA LoginSteps ==
    ASSUME IInv, NEW l \in Login, LoginStep(l)
    PROVE  /\ LoginBegins(l) \/ LoginValidates(l) \/ LoginFinishes(l)
           /\ running' = running
<1> USE DEF IInv
<1>1. CASE LogIn(l)
  BY <1>1 DEF LogIn, LoginBegins
<1>2. ASSUME NEW load \in Startable, SheetClosed(l, load)
      PROVE  LoginFinishes(l) /\ running' = running
  <2>1. CASE NotLoggedIn(l, load)
    BY <1>2, <2>1, NotLoggedInFacts DEF SheetClosed, LoginFinishes
  <2>2. CASE token = NoToken /\ LoggedIn(l, NoToken, load)
    BY <1>2, <2>2, LoggedInFacts DEF SheetClosed, LoginFinishes, MaybeToken
  <2> QED
    BY <1>2, <2>1, <2>2 DEF SheetClosed
<1>3. ASSUME NEW load \in Startable, NEW p \in Person, SheetGranted(l, p, load)
      PROVE  LoginFinishes(l) \/ LoginValidates(l)
  <2>1. CASE token = NoToken
    <3>1. PICK t \in Token : LoggedIn(l, t, load)
      BY <1>3, <2>1 DEF SheetGranted
    <3>2. t \in MaybeToken /\ t # NoToken
      BY DEF MaybeToken
    <3> QED
      BY <1>3, <2>1, <3>1, <3>2, LoggedInFacts DEF SheetGranted, LoginFinishes
  <2>2. CASE token # NoToken
    <3>1. token \in Token
      BY <2>2 DEF TypeOK, MaybeToken
    <3> QED
      BY <1>3, <2>2, <3>1 DEF SheetGranted, LoginValidates
  <2> QED
    BY <2>1, <2>2
<1>4. ASSUME NEW load \in Startable, Validated(l, load)
      PROVE  LoginFinishes(l) /\ running' = running
  <2>1. login[l].fresh \in Token /\ login[l].fresh \in MaybeToken
    BY <1>4 DEF Validated, ValidatingHasTokens, MaybeToken
  <2> QED
    BY <1>4, <2>1, LoggedInFacts DEF Validated, LoginFinishes
<1>5. ASSUME NEW load \in Startable, NotValidated(l, load)
      PROVE  LoginFinishes(l) /\ running' = running
  BY <1>5, NotLoggedInFacts DEF NotValidated, LoginFinishes
<1> QED
  BY <1>1, <1>2, <1>3, <1>4, <1>5 DEF LoginStep, SheetGranted

(* A request that leaves its place in a login alone.                       *)
LEMMA FetchKeepsPairs ==
    ASSUME IInv, login' = login, NEW f \in Fetch, fetch[f].stage # "recovering",
           fetch' \in [Fetch -> FetchState],
           fetch'[f].stage # "recovering",
           \A g \in Fetch \ {f} : fetch'[g] = fetch[g]
    PROVE  RecoveryPaired' /\ ValidatingHasTokens'
<1>1. ASSUME NEW l \in Login, login[l].recovers # NoFetch
      PROVE  login[l].recovers \in Fetch \ {f}
  BY <1>1 DEF IInv, RecoveryPaired, TypeOK, LoginState
<1> QED
  BY <1>1 DEF IInv, RecoveryPaired, ValidatingHasTokens

(* A login that recovers what it recovered.                                *)
LEMMA LoginKeepsPairs ==
    ASSUME IInv, fetch' = fetch,
           \A m \in Login : login'[m].recovers = login[m].recovers
    PROVE  RecoveryPaired'
  BY DEF IInv, RecoveryPaired

(* A first launch, with nothing in the keychain.                           *)
LEMMA InvInit == Init => IInv
<1> SUFFICES ASSUME Init PROVE IInv
  OBVIOUS
<1>1. TypeOK
  BY RestTyped DEF Init, TypeOK, MaybeToken
<1>2. NothingAfterDeath /\ ValidatingHasTokens /\ RecoveryPaired /\ LoggedOutStays
  BY RestTyped DEF Init, NothingAfterDeath, ValidatingHasTokens, RecoveryPaired, LoggedOutStays
<1> QED
  BY <1>1, <1>2 DEF IInv

(* Every handler of the login manager, of a graph request and of the       *)
(* process keeps the invariant.                                            *)
LEMMA InvStep == IInv /\ [Next]_vars => IInv'
<1> SUFFICES ASSUME IInv, [Next]_vars PROVE IInv'
  OBVIOUS
<1> USE DEF IInv
<1>1. ASSUME NEW l \in Login, LoginStep(l)
      PROVE  IInv'
  <2>1. running
    BY <1>1, RestTyped, LoginSteps
       DEF NothingAfterDeath, LoginBegins, LoginValidates, LoginFinishes
  <2>2. CASE LoginBegins(l)
    <3>1. /\ login' \in [Login -> LoginState]
          /\ login'[l] = [NoLogin EXCEPT !.stage = "sheet"]
          /\ \A m \in Login \ {l} : login'[m] = login[m]
      BY <2>2 DEF LoginBegins, TypeOK, LoginState
    <3>2. login'[l].stage = "sheet" /\ login'[l].recovers = NoFetch /\ login[l].recovers = NoFetch
      BY <2>2, <3>1 DEF NoLogin, LoginBegins
    <3>3. RecoveryPaired'
      BY <2>2, <3>1, <3>2, LoginKeepsPairs DEF LoginBegins
    <3>4. ValidatingHasTokens'
      BY <3>1, <3>2 DEF ValidatingHasTokens
    <3> QED
      BY <1>1, <2>1, <2>2, <3>1, <3>3, <3>4, LoginSteps
         DEF LoginBegins, TypeOK, NothingAfterDeath, LoggedOutStays
  <2>3. CASE LoginValidates(l)
    <3>1. PICK t \in Token : login' = [login EXCEPT ![l].stage = "validating",
                                                    ![l].fresh = t,
                                                    ![l].old = token]
      BY <2>3 DEF LoginValidates
    <3>2. /\ login' \in [Login -> LoginState]
          /\ login'[l].fresh = t /\ login'[l].old = token
          /\ login'[l].recovers = login[l].recovers
          /\ \A m \in Login \ {l} : login'[m] = login[m]
      <4>1. login \in [Login -> LoginState] /\ login[l] \in LoginState /\ token \in Token
        BY <2>3 DEF LoginValidates, TypeOK
      <4>2. PICK v : v = [login[l] EXCEPT !.stage = "validating", !.fresh = t, !.old = token]
        OBVIOUS
      <4>3. v \in LoginState /\ v.fresh = t /\ v.old = token /\ v.recovers = login[l].recovers
        BY <4>1, <4>2 DEF LoginState, MaybeToken
      <4>4. login' = [login EXCEPT ![l] = v]
        BY <3>1, <4>1, <4>2
      <4> QED
        BY <4>1, <4>3, <4>4
    <3>3. RecoveryPaired'
      BY <2>3, <3>2, LoginKeepsPairs DEF LoginValidates
    <3>4. ValidatingHasTokens'
      BY <2>3, <3>2 DEF ValidatingHasTokens, LoginValidates
    <3> QED
      BY <1>1, <2>1, <2>3, <3>2, <3>3, <3>4, LoginSteps
         DEF LoginValidates, TypeOK, NothingAfterDeath, LoggedOutStays
  <2>4. CASE LoginFinishes(l)
    <3>1. /\ login' \in [Login -> LoginState] /\ fetch' \in [Fetch -> FetchState]
          /\ ValidatingHasTokens' /\ RecoveryPaired'
      BY <2>4, LoginEndsKeeps DEF LoginFinishes
    <3>2. token' \in MaybeToken /\ cached' \in MaybeToken
      BY <2>4 DEF LoginFinishes, TypeOK, MaybeToken
    <3> QED
      BY <1>1, <2>1, <2>4, <3>1, <3>2, LoginSteps
         DEF LoginFinishes, TypeOK, NothingAfterDeath, LoggedOutStays
  <2> QED
    BY <1>1, <2>2, <2>3, <2>4, LoginSteps
<1>2. CASE LogOut
  <2>1. NoToken \in MaybeToken /\ SetCurrent(NoToken)
    BY <1>2 DEF LogOut, MaybeToken
  <2>2. token' = NoToken /\ cached' \in MaybeToken /\ cached' = NoToken
    BY <1>2, <2>1, SetCurrentFacts DEF LogOut
  <2> QED
    BY <1>2, <2>2 DEF LogOut, TypeOK, MaybeToken, NothingAfterDeath, ValidatingHasTokens,
                      LoggedOutStays, RecoveryPaired
<1>3. ASSUME NEW f \in Fetch, StartFetch(f)
      PROVE  IInv'
  <2>1. f \in Startable /\ token \in MaybeToken
    BY <1>3 DEF StartFetch, TypeOK
  <2>2. /\ fetch' \in [Fetch -> FetchState]
        /\ fetch[f].stage # "recovering" /\ fetch'[f].stage # "recovering"
        /\ \A g \in Fetch \ {f} : fetch'[g] = fetch[g]
    BY <1>3, <2>1, StartedFacts, RestTyped DEF StartFetch, Startable, Started, TypeOK
  <2>3. RecoveryPaired' /\ ValidatingHasTokens'
    BY <1>3, <2>2, FetchKeepsPairs DEF StartFetch
  <2> QED
    BY <1>3, <2>2, <2>3 DEF StartFetch, TypeOK, NothingAfterDeath, LoggedOutStays
<1>4. ASSUME NEW f \in Fetch, FetchAnswered(f) \/ RecoveryDeclined(f)
      PROVE  IInv'
  <2>1. /\ running
        /\ fetch[f].stage \in {"sent", "asking"}
        /\ login' = login /\ running' = running
    BY <1>4, RestTyped
       DEF FetchAnswered, FetchOk, FetchFailed, FetchTransient, FetchInvalid, RecoveryDeclined,
           NothingAfterDeath
  <2>2. /\ token' \in MaybeToken /\ cached' \in MaybeToken
        /\ token' = NoToken => cached' = NoToken
        /\ fetch' \in [Fetch -> FetchState]
        /\ fetch'[f].stage # "recovering"
        /\ \A g \in Fetch \ {f} : fetch'[g] = fetch[g]
    <3>1. CASE FetchOk(f)
      BY <2>1, <3>1, RestTyped DEF FetchOk, TypeOK, LoggedOutStays
    <3>2. CASE \E invalid \in BOOLEAN : EndInError(f, invalid)
      BY <2>1, <3>2, EndInErrorFacts, RestTyped DEF TypeOK, MaybeToken
    <3>3. CASE FetchTransient(f)
      BY <2>1, <3>3, SentTyped DEF FetchTransient, TypeOK, LoggedOutStays
    <3>4. CASE fetch' = [fetch EXCEPT ![f].stage = "asking"] /\ UNCHANGED <<token, cached>>
      BY <2>1, <3>4 DEF TypeOK, FetchState, LoggedOutStays
    <3> QED
      BY <1>4, <3>1, <3>2, <3>3, <3>4
         DEF FetchAnswered, FetchFailed, FetchInvalid, RecoveryDeclined
  <2>3. RecoveryPaired' /\ ValidatingHasTokens'
    BY <2>1, <2>2, FetchKeepsPairs
  <2> QED
    BY <2>1, <2>2, <2>3 DEF TypeOK, NothingAfterDeath, LoggedOutStays
<1>5. ASSUME NEW f \in Fetch, NEW l \in Login, RecoveryAccepted(f, l)
      PROVE  IInv'
  <2>1. /\ login' \in [Login -> LoginState]
        /\ login'[l].stage = "sheet" /\ login'[l].recovers = f
        /\ \A m \in Login \ {l} : login'[m] = login[m]
        /\ login[l].recovers = NoFetch
    BY <1>5, RestTyped DEF RecoveryAccepted, TypeOK, LoginState
  <2>2. /\ fetch' \in [Fetch -> FetchState]
        /\ fetch[f].stage = "asking" /\ fetch'[f].stage = "recovering"
        /\ \A g \in Fetch \ {f} : fetch'[g] = fetch[g]
    BY <1>5 DEF RecoveryAccepted, TypeOK, FetchState
  <2>3. \A m \in Login : login[m].recovers # f
    BY <2>2 DEF RecoveryPaired
  <2>4. RecoveryPaired'
    <3>1. \A m \in Login : login'[m].recovers # NoFetch =>
             fetch'[login'[m].recovers].stage = "recovering"
      BY <2>1, <2>2, <2>3 DEF RecoveryPaired, TypeOK, LoginState
    <3>2. ASSUME NEW g \in Fetch, fetch'[g].stage = "recovering"
          PROVE  \E m \in Login : login'[m].recovers = g
      <4>1. CASE g = f
        BY <2>1, <4>1
      <4>2. CASE g # f
        <5>1. PICK m \in Login : login[m].recovers = g
          BY <2>2, <3>2, <4>2 DEF RecoveryPaired
        <5> QED
          BY <2>1, <5>1
      <4> QED
        BY <4>1, <4>2
    <3>3. \A m, n \in Login : login'[m].recovers # NoFetch
             /\ login'[m].recovers = login'[n].recovers => m = n
      BY <2>1, <2>3 DEF RecoveryPaired
    <3> QED
      BY <3>1, <3>2, <3>3 DEF RecoveryPaired
  <2>5. running
    BY <1>5 DEF RecoveryAccepted, NothingAfterDeath
  <2> QED
    BY <1>5, <2>1, <2>2, <2>4, <2>5
       DEF RecoveryAccepted, TypeOK, NothingAfterDeath, ValidatingHasTokens, LoggedOutStays
<1>6. CASE Crash
  BY <1>6, RestTyped DEF Crash, TypeOK, MaybeToken, NothingAfterDeath, ValidatingHasTokens,
                         LoggedOutStays, RecoveryPaired
<1>7. ASSUME NEW readable \in BOOLEAN, Launch(readable)
      PROVE  IInv'
  BY <1>7 DEF Launch, TypeOK, MaybeToken, NothingAfterDeath, ValidatingHasTokens,
              LoggedOutStays, RecoveryPaired
<1>8. CASE UNCHANGED vars
  BY <1>8 DEF vars, TypeOK, NothingAfterDeath, ValidatingHasTokens, LoggedOutStays, RecoveryPaired
<1> QED
  BY <1>1, <1>2, <1>3, <1>4, <1>5, <1>6, <1>7, <1>8 DEF Next

-----------------------------------------------------------------------------
(* Theorems.                                                               *)

(* The inductive invariant holds in every reachable state.                 *)
THEOREM Invariance == Spec => []IInv
  BY InvInit, InvStep, PTL DEF Spec

(* Every variable keeps its type.                                          *)
THEOREM TypeCorrect == Spec => []TypeOK
<1>1. IInv => TypeOK
  BY DEF IInv
<1> QED
  BY <1>1, Invariance, PTL

(* FBSDKAccessTokenCache: a token that was cleared does not come back at   *)
(* the next launch, whatever the keychain refuses.                         *)
THEOREM LoggedOutAlwaysStays == Spec => []LoggedOutStays
<1>1. IInv => LoggedOutStays
  BY DEF IInv
<1> QED
  BY <1>1, Invariance, PTL

(* Error recovery: a request that waits for a login is waited for by one   *)
(* login, which recovers nothing else.                                     *)
THEOREM RecoveryAlwaysPaired == Spec => []RecoveryPaired
<1>1. IInv => RecoveryPaired
  BY DEF IInv
<1> QED
  BY <1>1, Invariance, PTL

(* validateReauthentication: the user changes behind a token only if the   *)
(* token it was compared with is no longer current.                        *)
THEOREM SwitchOnlyByStale == Spec => SwitchOnlyByStaleValidation
<1> DEFINE Switch == token # NoToken /\ token' # NoToken /\ token'.user # token.user =>
                       \E l \in Login : /\ login[l].stage = "validating"
                                        /\ login'[l] = NoLogin
                                        /\ login[l].old # token
<1>1. ASSUME IInv, [Next]_vars
      PROVE  Switch
  <2> SUFFICES ASSUME token # NoToken, token' # NoToken, token'.user # token.user
               PROVE  \E l \in Login : /\ login[l].stage = "validating"
                                       /\ login'[l] = NoLogin
                                       /\ login[l].old # token
    OBVIOUS
  <2>1. ASSUME NEW l \in Login, LoginStep(l)
        PROVE  \E m \in Login : /\ login[m].stage = "validating"
                                /\ login'[m] = NoLogin
                                /\ login[m].old # token
    <3>1. LoginFinishes(l)
      BY <1>1, <2>1, LoginSteps DEF LoginBegins, LoginValidates
    <3>2. login'[l] = NoLogin
      BY <1>1, <3>1, LoginEndsKeeps DEF LoginFinishes
    <3>3. login[l].stage = "validating" /\ login[l].old # token
      BY <3>1 DEF LoginFinishes
    <3> QED
      BY <3>2, <3>3
  <2>2. ~LogOut
    BY DEF LogOut, SetCurrent
  <2>3. ASSUME NEW f \in Fetch,
               \/ StartFetch(f) \/ FetchAnswered(f) \/ RecoveryDeclined(f)
               \/ \E l \in Login : RecoveryAccepted(f, l)
        PROVE  FALSE
    BY <1>1, <2>3, EndInErrorFacts
       DEF StartFetch, FetchAnswered, FetchOk, FetchFailed, FetchTransient, FetchInvalid,
           RecoveryDeclined, RecoveryAccepted, IInv
  <2>4. ~Crash
    BY DEF Crash
  <2>5. \A readable \in BOOLEAN : ~Launch(readable)
    BY <1>1 DEF Launch, IInv, NothingAfterDeath
  <2>6. CASE UNCHANGED vars
    BY <2>6 DEF vars
  <2> QED
    BY <1>1, <2>1, <2>2, <2>3, <2>4, <2>5, <2>6 DEF Next
<1> QED
  BY <1>1, Invariance, PTL DEF Spec, SwitchOnlyByStaleValidation

(* FBSDKGraphRequestConnection: the end of a request clears no other token *)
(* than the one it carried.                                                *)
THEOREM OnlyOwnCleared == Spec => OnlyOwnTokenCleared
<1> DEFINE Own == \A f \in Fetch :
                    /\ running'
                    /\ fetch[f] # NoRequest
                    /\ fetch'[f] = NoRequest
                    /\ token' = NoToken
                    => token \in {NoToken, fetch[f].token}
<1>1. ASSUME IInv, [Next]_vars
      PROVE  Own
  <2> SUFFICES ASSUME NEW f \in Fetch, running', fetch[f] # NoRequest, fetch'[f] = NoRequest,
                      token' = NoToken, token # NoToken
               PROVE  token = fetch[f].token
    OBVIOUS
  <2>1. ASSUME NEW l \in Login, LoginStep(l)
        PROVE  token = fetch[f].token
    <3>1. LoginFinishes(l)
      BY <1>1, <2>1, LoginSteps DEF LoginBegins, LoginValidates
    <3>2. login[l].recovers # NoFetch /\ token = fetch[login[l].recovers].token
      BY <3>1 DEF LoginFinishes
    <3> QED
      BY <3>1, <3>2 DEF LoginFinishes, LoginEnds
  <2>2. ASSUME NEW g \in Fetch,
               StartFetch(g) \/ FetchAnswered(g) \/ RecoveryDeclined(g)
        PROVE  token = fetch[f].token
    <3>1. PICK invalid \in BOOLEAN : EndInError(g, invalid)
      BY <2>2 DEF StartFetch, FetchAnswered, FetchOk, FetchFailed, FetchTransient, FetchInvalid,
                  RecoveryDeclined
    <3> QED
      BY <1>1, <3>1, EndInErrorFacts DEF IInv
  <2>3. ~LogOut /\ ~Crash /\ \A readable \in BOOLEAN : ~Launch(readable)
    BY DEF LogOut, Crash, Launch
  <2>4. \A g \in Fetch, l \in Login : ~RecoveryAccepted(g, l)
    BY DEF RecoveryAccepted
  <2>5. CASE UNCHANGED vars
    BY <2>5 DEF vars
  <2> QED
    BY <1>1, <2>1, <2>2, <2>3, <2>4, <2>5 DEF Next
<1> QED
  BY <1>1, Invariance, PTL DEF Spec, OnlyOwnTokenCleared

=============================================================================

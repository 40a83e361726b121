------------------------- MODULE PersistentConnection -------------------------
(***************************************************************************)
(* FPersistentConnection: the connection of Firebase Database.  It keeps   *)
(* the writes that are not answered and the queries that are listened to,  *)
(* reconnects when the network is lost, authenticates with a token of      *)
(* Firebase Auth and then sends again what it keeps.  Its methods run on   *)
(* one queue, each in one step.  All puts are to one path, and the server  *)
(* handles the requests of a connection in their order.                    *)
(***************************************************************************)
EXTENDS Integers, Sequences, FiniteSets, SequencesExt

CONSTANTS
  DbUser,       \* the users whose tokens authenticate the connection
  NoUser,       \* the token nil
  Query,        \* queries that are listened to
  MaxPuts,      \* bound: puts
  MaxInFlight   \* bound: requests in flight when a listen or a token adds one

ASSUME ConnectionAssumption == NoUser \notin DbUser /\ MaxPuts \in Nat /\ MaxInFlight \in Nat

VARIABLES
  connectionState,
  interruptReasons,
  scheduledRetry,        \* the retry helper has a block to run
  fetch,                 \* the latest token request: [on, user]
  authToken,
  listens,               \* per query the listen's address, 0 if there is none
  puts,                  \* by index: [out, sent, hash], out those of outstandingPuts
  putsToAck,             \* answers withheld: [put, ok, lost]
  unackedListensCount,
  inFlight,              \* requests and their callbacks, in order: [kind, arg, restore, ok]
  served,                \* how many of them, from the oldest, the server has handled
  serverAuth,            \* whom the server takes this connection for
  value,                 \* the put the server applied last
  told,                  \* callbacks of puts, in order: [put, status]
  authUser,              \* the user in the last token change Auth announced
  overtaken              \* history: this connection's token was fetched for another user

connectionVars ==
  <<connectionState, interruptReasons, scheduledRetry, fetch, authToken, listens, puts, putsToAck,
    unackedListensCount, inFlight, served, serverAuth, value, told, authUser, overtaken>>
linkVars == <<connectionState, interruptReasons, scheduledRetry, fetch>>
serverVars == <<served, serverAuth, value>>

NoFetch == [on |-> FALSE, user |-> NoUser]

ConnectionInit ==
  /\ connectionState = "Disconnected" /\ interruptReasons = {"waiting_for_open"}
  /\ scheduledRetry = FALSE /\ fetch = NoFetch /\ authToken = NoUser
  /\ listens = [q \in Query |-> 0]
  /\ puts = <<>> /\ putsToAck = <<>> /\ unackedListensCount = 0
  /\ inFlight = <<>> /\ served = 0 /\ serverAuth = NoUser /\ value = 0 /\ told = <<>>
  /\ authUser = NoUser /\ overtaken = FALSE

connected == connectionState \in {"Authenticating", "Connected"}
canSendWrites == connectionState = "Connected"
realtime == connected \/ connectionState = "Connecting"

Request(kind, arg, restore) == [kind |-> kind, arg |-> arg, restore |-> restore, ok |-> FALSE]
RequestsOf(kind) == {i \in DOMAIN inFlight : inFlight[i].kind = kind}
Outstanding == {i \in DOMAIN puts : puts[i].out}

---------------------------------------------------------------------------
(* Connecting                                                              *)

\* tryScheduleReconnect: the retry helper's block replaces the one it had.
tryScheduleReconnect(reasons) == scheduledRetry' = (reasons = {} \/ scheduledRetry)

\* onDisconnect, with cancelSentTransactions: the answers withheld stay so.
Disconnects(reasons) ==
  LET cancelled == {i \in Outstanding : puts[i].hash /\ puts[i].sent} IN
    /\ connectionState' = "Disconnected"
    /\ puts' = [i \in DOMAIN puts |-> [puts[i] EXCEPT !.out = @ /\ i \notin cancelled]]
    /\ told' = told \o SetToSeq({[put |-> i, status |-> "disconnect"] : i \in cancelled})
    /\ inFlight' = <<>> /\ served' = 0 /\ serverAuth' = NoUser
    /\ unackedListensCount' = 0
    /\ putsToAck' = [j \in DOMAIN putsToAck |-> [putsToAck[j] EXCEPT !.lost = TRUE]]
    /\ tryScheduleReconnect(reasons)
    /\ UNCHANGED value

interruptForReason(r) ==
  /\ interruptReasons' = interruptReasons \cup {r}
  /\ IF realtime
     THEN Disconnects(interruptReasons')
     ELSE /\ connectionState' = "Disconnected" /\ scheduledRetry' = FALSE
          /\ UNCHANGED <<puts, told, inFlight, unackedListensCount, putsToAck, serverVars>>
  /\ UNCHANGED <<fetch, authToken, listens, authUser, overtaken>>

\* goOffline, and the server's order never to come back.
Interrupt == interruptForReason("repo_interrupt")
onKill == realtime /\ interruptForReason("server_kill")

resumeForReason(r) ==
  /\ r \in interruptReasons /\ interruptReasons' = interruptReasons \ {r}
  /\ IF connectionState = "Disconnected"
     THEN tryScheduleReconnect(interruptReasons')
     ELSE UNCHANGED scheduledRetry
  /\ UNCHANGED <<connectionState, fetch, authToken, listens, puts, putsToAck, unackedListensCount,
                 inFlight, serverVars, told, authUser, overtaken>>

\* The network is reachable, or the app comes to the foreground.
Reachable ==
  /\ connectionState = "Disconnected" /\ tryScheduleReconnect(interruptReasons)
  /\ UNCHANGED <<connectionState, interruptReasons, fetch, authToken, listens, puts, putsToAck,
                 unackedListensCount, inFlight, serverVars, told, authUser, overtaken>>

\* The block of the retry helper: an earlier token request no longer counts.
Retry ==
  /\ scheduledRetry /\ scheduledRetry' = FALSE
  /\ connectionState' = "GettingToken"
  /\ fetch' = [on |-> TRUE, user |-> authUser]
  /\ UNCHANGED <<interruptReasons, authToken, listens, puts, putsToAck, unackedListensCount,
                 inFlight, serverVars, told, authUser, overtaken>>

\* Its callback, with openNetworkConnectionWithToken.
TokenFetched(ok) ==
  /\ fetch.on /\ fetch' = NoFetch
  /\ CASE ~ok -> /\ connectionState' = "Disconnected" /\ tryScheduleReconnect(interruptReasons)
                 /\ UNCHANGED <<authToken, overtaken>>
       [] ok /\ connectionState = "GettingToken" ->
                 /\ connectionState' = "Connecting" /\ authToken' = fetch.user
                 /\ overtaken' = (fetch.user # authUser) /\ UNCHANGED scheduledRetry
       [] OTHER -> UNCHANGED <<connectionState, scheduledRetry, authToken, overtaken>>
  /\ UNCHANGED <<interruptReasons, listens, puts, putsToAck, unackedListensCount, inFlight,
                 serverVars, told, authUser>>

---------------------------------------------------------------------------
(* Restoring                                                               *)

(* Variant, never a step: puts are sent again in the order of the dictionary. *)
PutsAnyOrder(is) == Reverse(SetToSortSeq(is, <))

\* The order in which restoreState sends the puts.
PutsInOrder(is) ==
  CHOOSE s \in [1..Cardinality(is) -> is] : \A i, j \in DOMAIN s : i < j => s[i] < s[j]

ListenRequests(qs) == [j \in 1..Cardinality(qs) |-> LET q == SetToSeq(qs)[j] IN
                         Request("listen", <<q, listens[q]>>, FALSE)]
Listening == {q \in Query : listens[q] # 0}

\* restoreState: what is listened to, then the puts that are not answered;
\* rest are the requests on their way already.
restoreState(rest) ==
  LET order == PutsInOrder(Outstanding) IN
    /\ inFlight' = rest \o ListenRequests(Listening)
                        \o [j \in DOMAIN order |-> Request("put", order[j], FALSE)]
    /\ unackedListensCount' = unackedListensCount + Cardinality(Listening)
    /\ puts' = [i \in DOMAIN puts |-> [puts[i] EXCEPT !.sent = @ \/ puts[i].out]]

\* onReady, with restoreAuth.
onReady ==
  /\ connectionState = "Connecting"
  /\ IF authToken = NoUser
     THEN connectionState' = "Connected" /\ restoreState(inFlight)
     ELSE /\ connectionState' = "Authenticating"
          /\ inFlight' = Append(inFlight, Request("auth", authToken, TRUE))
          /\ UNCHANGED <<unackedListensCount, puts>>
  /\ UNCHANGED <<interruptReasons, scheduledRetry, fetch, authToken, listens, putsToAck, serverVars,
                 told, authUser, overtaken>>

\* The connection is lost, or the server resets it.
onDisconnect ==
  /\ realtime /\ Disconnects(interruptReasons)
  /\ UNCHANGED <<interruptReasons, fetch, authToken, listens, authUser, overtaken>>

onAuthRevoked ==
  /\ realtime /\ Disconnects(interruptReasons) /\ authToken' = NoUser
  /\ UNCHANGED <<interruptReasons, fetch, listens, authUser, overtaken>>

---------------------------------------------------------------------------
(* Requests                                                                *)

\* listen, sendListen: a listen has an address nothing else refers to.
listen(q) ==
  LET used == {listens[p] : p \in Query} \cup {inFlight[i].arg[2] : i \in RequestsOf("listen")}
      new == CHOOSE n \in 1..Cardinality(used) + 1 : n \notin used IN
    /\ listens[q] = 0 /\ Len(inFlight) < MaxInFlight
    /\ listens' = [listens EXCEPT ![q] = new]
    /\ IF connected
       THEN /\ inFlight' = Append(inFlight, Request("listen", <<q, new>>, FALSE))
            /\ unackedListensCount' = unackedListensCount + 1
       ELSE UNCHANGED <<inFlight, unackedListensCount>>
    /\ UNCHANGED <<linkVars, authToken, puts, putsToAck, serverVars, told, authUser, overtaken>>

\* unlisten, and onListenRevoked for its path; the request to stop has no
\* callback, and the server's own listens are not modelled.
unlisten(q) ==
  /\ listens[q] # 0 /\ listens' = [listens EXCEPT ![q] = 0]
  /\ UNCHANGED <<linkVars, authToken, puts, putsToAck, unackedListensCount, inFlight, serverVars,
                 told, authUser, overtaken>>

\* putInternal, sendPut; a put with a hash is a transaction's.
put(hash) ==
  /\ Len(puts) < MaxPuts
  /\ puts' = Append(puts, [out |-> TRUE, sent |-> canSendWrites, hash |-> hash])
  /\ inFlight' = IF canSendWrites THEN Append(inFlight, Request("put", Len(puts'), FALSE))
                 ELSE inFlight
  /\ UNCHANGED <<linkVars, authToken, listens, putsToAck, unackedListensCount, serverVars, told,
                 authUser, overtaken>>

\* Auth announces a token or, with NoUser, that there is none.
refreshAuthToken(u) ==
  /\ Len(inFlight) < MaxInFlight
  /\ authUser' = u /\ authToken' = u /\ overtaken' = FALSE
  /\ inFlight' = IF connected
                 THEN Append(inFlight, Request(IF u = NoUser THEN "unauth" ELSE "auth", u, FALSE))
                 ELSE inFlight
  /\ UNCHANGED <<linkVars, listens, puts, putsToAck, unackedListensCount, serverVars, told>>

\* The server handles the oldest request it has not handled.
ServerHandles(ok) ==
  LET n == served + 1 IN
    /\ n \in DOMAIN inFlight
    /\ inFlight[n].kind = "unauth" => ok
    /\ served' = n
    /\ inFlight' = [inFlight EXCEPT ![n].ok = ok]
    /\ serverAuth' = IF inFlight[n].kind \in {"auth", "unauth"} /\ ok
                     THEN inFlight[n].arg ELSE serverAuth
    /\ value' = IF inFlight[n].kind = "put" /\ ok THEN inFlight[n].arg ELSE value
    /\ UNCHANGED <<linkVars, authToken, listens, puts, putsToAck, unackedListensCount, told,
                   authUser, overtaken>>

\* ackPuts
Acked == [j \in DOMAIN putsToAck |->
            [put |-> putsToAck[j].put, status |-> IF putsToAck[j].ok THEN "ok" ELSE "refused"]]

---------------------------------------------------------------------------
(* Answers, which onDataMessage takes in their order                       *)

Reply(kind) == served > 0 /\ Head(inFlight).kind = kind

AuthAnswered ==
  /\ Reply("auth")
  /\ IF Head(inFlight).ok
     THEN /\ connectionState' = "Connected" /\ served' = served - 1
          /\ IF Head(inFlight).restore THEN restoreState(Tail(inFlight))
             ELSE inFlight' = Tail(inFlight) /\ UNCHANGED <<unackedListensCount, puts>>
          /\ UNCHANGED <<scheduledRetry, authToken, putsToAck, told, serverAuth, value>>
     ELSE Disconnects(interruptReasons) /\ authToken' = NoUser
  /\ UNCHANGED <<interruptReasons, fetch, listens, authUser, overtaken>>

\* It has no callback.
UnauthAnswered ==
  /\ Reply("unauth") /\ inFlight' = Tail(inFlight) /\ served' = served - 1
  /\ UNCHANGED <<linkVars, authToken, listens, puts, putsToAck, unackedListensCount, serverAuth,
                 value, told, authUser, overtaken>>

\* A listen that was removed, or removed and made again, is not looked at, but
\* counts.
ListenAnswered ==
  /\ Reply("listen")
  /\ LET r == Head(inFlight)
         q == r.arg[1] IN
       listens' = IF listens[q] = r.arg[2] /\ ~r.ok THEN [listens EXCEPT ![q] = 0] ELSE listens
  /\ unackedListensCount' = unackedListensCount - 1
  /\ IF unackedListensCount' = 0 THEN told' = told \o Acked /\ putsToAck' = <<>>
     ELSE UNCHANGED <<told, putsToAck>>
  /\ inFlight' = Tail(inFlight) /\ served' = served - 1
  /\ UNCHANGED <<linkVars, authToken, puts, serverAuth, value, authUser, overtaken>>

\* The callback waits for the listens before it; a put that was purged has
\* none.
PutAnswered ==
  /\ Reply("put")
  /\ LET r == Head(inFlight) IN
       CASE ~puts[r.arg].out -> UNCHANGED <<puts, told, putsToAck>>
         [] puts[r.arg].out /\ unackedListensCount = 0 ->
              /\ puts' = [puts EXCEPT ![r.arg].out = FALSE]
              /\ told' = Append(told, [put |-> r.arg, status |-> IF r.ok THEN "ok" ELSE "refused"])
              /\ UNCHANGED putsToAck
         [] OTHER ->
              /\ puts' = [puts EXCEPT ![r.arg].out = FALSE]
              /\ putsToAck' = Append(putsToAck, [put |-> r.arg, ok |-> r.ok, lost |-> FALSE])
              /\ UNCHANGED told
  /\ inFlight' = Tail(inFlight) /\ served' = served - 1
  /\ UNCHANGED <<linkVars, authToken, listens, unackedListensCount, serverAuth, value, authUser,
                 overtaken>>

\* The answers withheld are given, the puts that have none are cancelled.
purgeOutstandingWrites ==
  /\ Outstanding # {} \/ putsToAck # <<>>
  /\ LET order == PutsInOrder(Outstanding) IN
       told' = told \o Acked \o [j \in DOMAIN order |-> [put |-> order[j], status |-> "canceled"]]
  /\ puts' = [i \in DOMAIN puts |-> [puts[i] EXCEPT !.out = FALSE]]
  /\ putsToAck' = <<>>
  /\ UNCHANGED <<linkVars, authToken, listens, unackedListensCount, inFlight, serverVars, authUser,
                 overtaken>>

ConnectionNext ==
  \/ Interrupt \/ onKill \/ Reachable \/ Retry
  \/ \E r \in {"waiting_for_open", "repo_interrupt"} : resumeForReason(r)
  \/ \E ok \in BOOLEAN : TokenFetched(ok)
  \/ onReady \/ onDisconnect \/ onAuthRevoked
  \/ \E q \in Query : listen(q)
  \/ \E q \in Query : unlisten(q)
  \/ \E hash \in BOOLEAN : put(hash)
  \/ \E u \in DbUser \cup {NoUser} : refreshAuthToken(u)
  \/ \E ok \in BOOLEAN : ServerHandles(ok)
  \/ AuthAnswered \/ UnauthAnswered \/ ListenAnswered \/ PutAnswered
  \/ purgeOutstandingWrites

ConnectionSpec == ConnectionInit /\ [][ConnectionNext]_connectionVars

---------------------------------------------------------------------------
(* Properties                                                              *)

ToldOf(i) == {j \in DOMAIN told : told[j].put = i}
HeldOf(i) == {j \in DOMAIN putsToAck : putsToAck[j].put = i}

\* A put is outstanding, or its answer is withheld, or its callback has run
\* once: exactly one of them, whatever is lost, sent again or purged.
PutsOnce ==
  \A i \in DOMAIN puts :
    Cardinality(ToldOf(i)) + Cardinality(HeldOf(i)) + (IF puts[i].out THEN 1 ELSE 0) = 1

\* A put confirmed to the program is not overwritten by an earlier one that is
\* sent again.
ConfirmedIsKept == \A j \in DOMAIN told : told[j].status = "ok" => value >= told[j].put

\* The counter is that of the listens in flight (assertion of line 683), and
\* an answer is withheld for one of them, unless the connection was lost since.
WithheldForListens ==
  /\ unackedListensCount = Cardinality(RequestsOf("listen"))
  /\ unackedListensCount = 0 => \A j \in DOMAIN putsToAck : putsToAck[j].lost

\* The server takes a connection on which no token is on its way for the user
\* Auth announced last, unless Auth's announcement overtook its token.
AuthFollowsSession ==
  connected /\ RequestsOf("auth") \cup RequestsOf("unauth") = {} /\ ~overtaken =>
    serverAuth = authUser

\* No put is lost, answered twice or undone by an older one, no answer is
\* withheld without a listen, and the server knows whose connection it is.
ConnectionSound == PutsOnce /\ ConfirmedIsKept /\ WithheldForListens /\ AuthFollowsSession

=============================================================================

--------------------------- MODULE FIRAuthProofs ---------------------------
(***************************************************************************)
(* FIRAuth keeps its invariants, and implements AuthSession, for any       *)
(* accounts, calls, addresses and number of token refreshes.               *)
(*                                                                         *)
(* Steps with the same effect on what an invariant speaks of share a case: *)
(* lemmas say what an answer and a delivery do to the main queue.          *)
(***************************************************************************)
EXTENDS FIRAuth, TLAPS

USE NoUserIsNoAccount, NilIsNoObject

-----------------------------------------------------------------------------
(* Sequences: what Append and Tail leave where.                            *)
LEMMA AppendFacts ==
    ASSUME NEW S, NEW s \in Seq(S), NEW e \in S
    PROVE  /\ Append(s, e) \in Seq(S)
           /\ DOMAIN Append(s, e) = DOMAIN s \cup {Len(s) + 1}
           /\ \A i \in DOMAIN s : Append(s, e)[i] = s[i]
           /\ Append(s, e)[Len(s) + 1] = e
           /\ Len(s) \in Nat
           /\ DOMAIN s = 1..Len(s)
  OBVIOUS

(* The empty sequence.                                                     *)
LEMMA EmptyFacts ==
    ASSUME NEW S
    PROVE  << >> \in Seq(S) /\ DOMAIN << >> = {}
  OBVIOUS

(* A non-empty queue without its head: the rest moves up by one.           *)
LEMMA TailFacts ==
    ASSUME NEW S, NEW s \in Seq(S), s # << >>
    PROVE  /\ Head(s) \in S
           /\ Head(s) = s[1]
           /\ 1 \in DOMAIN s
           /\ Tail(s) \in Seq(S)
           /\ DOMAIN s \subseteq Nat
           /\ \A i \in DOMAIN Tail(s) : /\ i \in Nat
                                        /\ i + 1 \in DOMAIN s
                                        /\ i + 1 # 1
                                        /\ Tail(s)[i] = s[i + 1]
           /\ \A i \in DOMAIN s : i = 1 \/ i - 1 \in DOMAIN Tail(s)
  OBVIOUS

-----------------------------------------------------------------------------
(* Every variable keeps its type.                                          *)
LEMMA TypeInit == Init => TypeOK
<1> SUFFICES ASSUME Init
             PROVE  TypeOK
  OBVIOUS
<1>1. /\ stage \in [Call -> Stage]
      /\ account \in [Call -> Account \cup {NoUser}]
      /\ currentUser \in User \cup {NoUser}
      /\ stored \in Account \cup {NoUser}
      /\ refreshing \subseteq User
  BY DEF Init, AllIdle, AboutNobody, Stage
<1>2. mainQueue \in Seq(Call)
  BY EmptyFacts DEF Init
<1>3. running \in BOOLEAN /\ quiet \in BOOLEAN
  BY DEF Init
<1> QED
  BY <1>1, <1>2, <1>3 DEF TypeOK

(* No step of the session, its server or its process spoils a type.        *)
LEMMA TypeStep ==
    ASSUME TypeOK, CallsHaveAccounts, [Next]_vars
    PROVE  TypeOK'
<1> USE DEF TypeOK, Stage
<1>1. ASSUME NEW c \in Call, NEW a \in Account, Begin(c, a)
      PROVE  TypeOK'
  BY <1>1 DEF Begin
<1>2. ASSUME NEW c \in Call, TokensGranted(c)
      PROVE  TypeOK'
  BY <1>2 DEF TokensGranted
<1>3. ASSUME NEW c \in Call, Fail(c)
      PROVE  TypeOK'
  BY <1>3, AppendFacts DEF Fail, Answer
<1>4. ASSUME NEW c \in Call, NEW saved \in BOOLEAN, Complete(c, saved)
      PROVE  TypeOK'
  <2>1. account[c] \in Account
    BY <1>4 DEF Complete, CallsHaveAccounts
  <2>2. /\ currentUser' \in User \cup {NoUser}
        /\ stored' \in Account \cup {NoUser}
    BY <1>4, <2>1 DEF Complete, UpdateCurrentUser, Uid, User
  <2> QED
    BY <1>4, <2>2, AppendFacts DEF Complete, Answer
<1>5. ASSUME NEW c \in Call, Deliver(c)
      PROVE  TypeOK'
  BY <1>5, TailFacts DEF Deliver
<1>6. ASSUME NEW removed \in BOOLEAN, SignOut(removed)
      PROVE  TypeOK'
  BY <1>6 DEF SignOut, UpdateCurrentUser, Uid
<1>7. CASE StartRefresh
  BY <1>7 DEF StartRefresh
<1>8. ASSUME NEW u \in refreshing, NEW saved \in BOOLEAN, Refreshed(u, saved)
      PROVE  TypeOK'
  BY <1>8 DEF Refreshed, User
<1>9. ASSUME NEW u \in refreshing, NEW invalid \in BOOLEAN,
             NEW removed \in BOOLEAN, RefreshFailed(u, invalid, removed)
      PROVE  TypeOK'
  BY <1>9 DEF RefreshFailed, UpdateCurrentUser, Uid
<1>10. CASE Crash
  <2>1. stage' \in [Call -> Stage] /\ account' \in [Call -> Account \cup {NoUser}]
    BY <1>10 DEF Crash, AllIdle, AboutNobody
  <2>2. mainQueue' \in Seq(Call)
    BY <1>10, EmptyFacts DEF Crash
  <2>3. running' \in BOOLEAN /\ quiet' \in BOOLEAN
    BY <1>10 DEF Crash
  <2> QED
    BY <1>10, <2>1, <2>2, <2>3 DEF Crash
<1>11. ASSUME NEW readable \in BOOLEAN, Launch(readable)
       PROVE  TypeOK'
  BY <1>11 DEF Launch, User
<1>12. CASE UNCHANGED vars
  BY <1>12 DEF vars
<1> QED
  BY <1>1, <1>2, <1>3, <1>4, <1>5, <1>6, <1>7, <1>8, <1>9, <1>10, <1>11,
     <1>12 DEF Next, Respond, TokenService
-----------------------------------------------------------------------------
(* A call knows its account from its beginning to its delivery.            *)
LEMMA CallsHaveAccountsStep ==
    ASSUME TypeOK, CallsHaveAccounts, [Next]_vars
    PROVE  CallsHaveAccounts'
<1> USE DEF CallsHaveAccounts, TypeOK
<1>1. ASSUME NEW c \in Call, NEW a \in Account, Begin(c, a)
      PROVE  CallsHaveAccounts'
  BY <1>1 DEF Begin
<1>2. ASSUME NEW c \in Call, TokensGranted(c)
      PROVE  CallsHaveAccounts'
  BY <1>2 DEF TokensGranted
<1>3. ASSUME NEW c \in Call, Fail(c)
      PROVE  CallsHaveAccounts'
  BY <1>3 DEF Fail, Answer
<1>4. ASSUME NEW c \in Call, NEW saved \in BOOLEAN, Complete(c, saved)
      PROVE  CallsHaveAccounts'
  BY <1>4 DEF Complete, Answer, UpdateCurrentUser, Uid
<1>5. ASSUME NEW c \in Call, Deliver(c)
      PROVE  CallsHaveAccounts'
  BY <1>5 DEF Deliver
<1>6. ASSUME NEW removed \in BOOLEAN, SignOut(removed)
      PROVE  CallsHaveAccounts'
  BY <1>6 DEF SignOut, UpdateCurrentUser, Uid
<1>7. CASE StartRefresh
  BY <1>7 DEF StartRefresh
<1>8. ASSUME NEW u \in refreshing, NEW saved \in BOOLEAN, Refreshed(u, saved)
      PROVE  CallsHaveAccounts'
  BY <1>8 DEF Refreshed
<1>9. ASSUME NEW u \in refreshing, NEW invalid \in BOOLEAN,
             NEW removed \in BOOLEAN, RefreshFailed(u, invalid, removed)
      PROVE  CallsHaveAccounts'
  BY <1>9 DEF RefreshFailed, UpdateCurrentUser, Uid
<1>10. CASE Crash
  BY <1>10 DEF Crash, AllIdle
<1>11. ASSUME NEW readable \in BOOLEAN, Launch(readable)
       PROVE  CallsHaveAccounts'
  BY <1>11 DEF Launch
<1>12. CASE UNCHANGED vars
  BY <1>12 DEF vars
<1> QED
  BY <1>1, <1>2, <1>3, <1>4, <1>5, <1>6, <1>7, <1>8, <1>9, <1>10, <1>11,
     <1>12 DEF Next, Respond, TokenService

(* A dead process has nothing in memory: only a launch revives it.         *)
LEMMA NothingAfterDeathStep ==
    ASSUME TypeOK, NothingAfterDeath, [Next]_vars
    PROVE  NothingAfterDeath'
<1> USE DEF NothingAfterDeath, TypeOK
<1>1. ASSUME NEW c \in Call, NEW a \in Account, Begin(c, a)
      PROVE  NothingAfterDeath'
  BY <1>1 DEF Begin
<1>2. ASSUME NEW c \in Call, TokensGranted(c)
      PROVE  NothingAfterDeath'
  BY <1>2 DEF TokensGranted, AllIdle
<1>3. ASSUME NEW c \in Call, Fail(c)
      PROVE  NothingAfterDeath'
  BY <1>3 DEF Fail, Answer, AllIdle
<1>4. ASSUME NEW c \in Call, NEW saved \in BOOLEAN, Complete(c, saved)
      PROVE  NothingAfterDeath'
  BY <1>4 DEF Complete, Answer, UpdateCurrentUser, Uid, AllIdle
<1>5. ASSUME NEW c \in Call, Deliver(c)
      PROVE  NothingAfterDeath'
  BY <1>5 DEF Deliver
<1>6. ASSUME NEW removed \in BOOLEAN, SignOut(removed)
      PROVE  NothingAfterDeath'
  BY <1>6 DEF SignOut, UpdateCurrentUser, Uid
<1>7. CASE StartRefresh
  BY <1>7 DEF StartRefresh
<1>8. ASSUME NEW u \in refreshing, NEW saved \in BOOLEAN, Refreshed(u, saved)
      PROVE  NothingAfterDeath'
  BY <1>8 DEF Refreshed
<1>9. ASSUME NEW u \in refreshing, NEW invalid \in BOOLEAN,
             NEW removed \in BOOLEAN, RefreshFailed(u, invalid, removed)
      PROVE  NothingAfterDeath'
  BY <1>9 DEF RefreshFailed, UpdateCurrentUser, Uid
<1>10. CASE Crash
  BY <1>10 DEF Crash
<1>11. ASSUME NEW readable \in BOOLEAN, Launch(readable)
       PROVE  NothingAfterDeath'
  BY <1>11 DEF Launch
<1>12. CASE UNCHANGED vars
  BY <1>12 DEF vars
<1> QED
  BY <1>1, <1>2, <1>3, <1>4, <1>5, <1>6, <1>7, <1>8, <1>9, <1>10, <1>11,
     <1>12 DEF Next, Respond, TokenService

(* Memory changes only together with the keychain, or to nil.              *)
LEMMA MemoryIsStoredStep ==
    ASSUME TypeOK, NothingAfterDeath, MemoryIsStored, [Next]_vars
    PROVE  MemoryIsStored'
<1> USE DEF MemoryIsStored, TypeOK, User
<1>1. ASSUME NEW c \in Call, NEW a \in Account, Begin(c, a)
      PROVE  MemoryIsStored'
  BY <1>1 DEF Begin
<1>2. ASSUME NEW c \in Call, TokensGranted(c)
      PROVE  MemoryIsStored'
  BY <1>2 DEF TokensGranted
<1>3. ASSUME NEW c \in Call, Fail(c)
      PROVE  MemoryIsStored'
  BY <1>3 DEF Fail, Answer
<1>4. ASSUME NEW c \in Call, NEW saved \in BOOLEAN, Complete(c, saved)
      PROVE  MemoryIsStored'
  BY <1>4 DEF Complete, Answer, UpdateCurrentUser, Uid
<1>5. ASSUME NEW c \in Call, Deliver(c)
      PROVE  MemoryIsStored'
  BY <1>5 DEF Deliver
<1>6. ASSUME NEW removed \in BOOLEAN, SignOut(removed)
      PROVE  MemoryIsStored'
  BY <1>6 DEF SignOut, UpdateCurrentUser, Uid
<1>7. CASE StartRefresh
  BY <1>7 DEF StartRefresh
<1>8. ASSUME NEW u \in refreshing, NEW saved \in BOOLEAN, Refreshed(u, saved)
      PROVE  MemoryIsStored'
  BY <1>8 DEF Refreshed
<1>9. ASSUME NEW u \in refreshing, NEW invalid \in BOOLEAN,
             NEW removed \in BOOLEAN, RefreshFailed(u, invalid, removed)
      PROVE  MemoryIsStored'
  BY <1>9 DEF RefreshFailed, UpdateCurrentUser, Uid
<1>10. CASE Crash
  BY <1>10 DEF Crash
<1>11. ASSUME NEW readable \in BOOLEAN, Launch(readable)
       PROVE  MemoryIsStored'
  BY <1>11 DEF Launch, NothingAfterDeath
<1>12. CASE UNCHANGED vars
  BY <1>12 DEF vars
<1> QED
  BY <1>1, <1>2, <1>3, <1>4, <1>5, <1>6, <1>7, <1>8, <1>9, <1>10, <1>11,
     <1>12 DEF Next, Respond, TokenService

(* After a quiet sign-out there is no call that could complete, and no     *)
(* current user that a refresh could archive.                              *)
LEMMA SignedOutStaysStep ==
    ASSUME TypeOK, NothingAfterDeath, SignedOutStays, [Next]_vars
    PROVE  SignedOutStays'
<1> USE DEF SignedOutStays, TypeOK, Outstanding, User
<1>1. ASSUME NEW c \in Call, NEW a \in Account, Begin(c, a)
      PROVE  SignedOutStays'
  BY <1>1 DEF Begin
<1>2. ASSUME NEW c \in Call, TokensGranted(c)
      PROVE  SignedOutStays'
  BY <1>2 DEF TokensGranted
<1>3. ASSUME NEW c \in Call, Fail(c)
      PROVE  SignedOutStays'
  BY <1>3 DEF Fail, Answer
<1>4. ASSUME NEW c \in Call, NEW saved \in BOOLEAN, Complete(c, saved)
      PROVE  SignedOutStays'
  BY <1>4 DEF Complete, Answer, UpdateCurrentUser, Uid
<1>5. ASSUME NEW c \in Call, Deliver(c)
      PROVE  SignedOutStays'
  BY <1>5 DEF Deliver
<1>6. ASSUME NEW removed \in BOOLEAN, SignOut(removed)
      PROVE  SignedOutStays'
  BY <1>6 DEF SignOut, UpdateCurrentUser, Uid
<1>7. CASE StartRefresh
  BY <1>7 DEF StartRefresh
<1>8. ASSUME NEW u \in refreshing, NEW saved \in BOOLEAN, Refreshed(u, saved)
      PROVE  SignedOutStays'
  BY <1>8 DEF Refreshed
<1>9. ASSUME NEW u \in refreshing, NEW invalid \in BOOLEAN,
             NEW removed \in BOOLEAN, RefreshFailed(u, invalid, removed)
      PROVE  SignedOutStays'
  BY <1>9 DEF RefreshFailed, UpdateCurrentUser, Uid
<1>10. CASE Crash
  BY <1>10 DEF Crash, AllIdle
<1>11. ASSUME NEW readable \in BOOLEAN, Launch(readable)
       PROVE  SignedOutStays'
  BY <1>11 DEF Launch, NothingAfterDeath
<1>12. CASE UNCHANGED vars
  BY <1>12 DEF vars
<1> QED
  BY <1>1, <1>2, <1>3, <1>4, <1>5, <1>6, <1>7, <1>8, <1>9, <1>10, <1>11,
     <1>12 DEF Next, Respond, TokenService

-----------------------------------------------------------------------------
(* The main queue holds each answered call once.                           *)
LEMMA AnswerAppendsOnce ==
    ASSUME TypeOK, AnsweredOnce,
           NEW c \in Call, stage[c] \in {"request", "lookup"},
           NEW ok \in BOOLEAN, Answer(c, ok)
    PROVE  AnsweredOnce'
<1>1. \A i \in DOMAIN mainQueue : mainQueue[i] # c
  BY DEF AnsweredOnce
<1>2. /\ mainQueue' = Append(mainQueue, c)
      /\ \A d \in Call \ {c} : stage'[d] = stage[d]
      /\ stage'[c] \in {"ok", "failed"}
  BY DEF Answer, TypeOK
<1>3. /\ DOMAIN mainQueue' = DOMAIN mainQueue \cup {Len(mainQueue) + 1}
      /\ \A i \in DOMAIN mainQueue : mainQueue'[i] = mainQueue[i]
      /\ mainQueue'[Len(mainQueue) + 1] = c
  BY <1>2, AppendFacts DEF TypeOK
<1>4. ASSUME NEW d \in Call
      PROVE  stage'[d] \in {"ok", "failed"}
                 <=> \E i \in DOMAIN mainQueue' : mainQueue'[i] = d
  BY <1>1, <1>2, <1>3 DEF AnsweredOnce
<1>5. ASSUME NEW i \in DOMAIN mainQueue', NEW j \in DOMAIN mainQueue',
             mainQueue'[i] = mainQueue'[j]
      PROVE  i = j
  BY <1>1, <1>3, <1>5 DEF AnsweredOnce
<1> QED
  BY <1>4, <1>5 DEF AnsweredOnce

(* Running the oldest handler takes its call, and no other, off the queue. *)
LEMMA DeliverRemoves ==
    ASSUME TypeOK, AnsweredOnce, NEW c \in Call, Deliver(c)
    PROVE  /\ AnsweredOnce'
           /\ \A i \in DOMAIN mainQueue' : /\ i + 1 \in DOMAIN mainQueue
                                           /\ mainQueue'[i] = mainQueue[i + 1]
                                           /\ mainQueue'[i] # c
           /\ \A i \in DOMAIN mainQueue : i = 1 \/ i - 1 \in DOMAIN mainQueue'
           /\ DOMAIN mainQueue \subseteq Nat
<1>1. /\ mainQueue # << >>
      /\ c = Head(mainQueue)
      /\ mainQueue' = Tail(mainQueue)
      /\ \A d \in Call \ {c} : stage'[d] = stage[d]
      /\ stage'[c] = "idle"
  BY DEF Deliver, TypeOK
<1>2. /\ c = mainQueue[1]
      /\ 1 \in DOMAIN mainQueue
      /\ DOMAIN mainQueue \subseteq Nat
      /\ \A i \in DOMAIN mainQueue' : /\ i \in Nat
                                      /\ i + 1 \in DOMAIN mainQueue
                                      /\ i + 1 # 1
                                      /\ mainQueue'[i] = mainQueue[i + 1]
      /\ \A i \in DOMAIN mainQueue : i = 1 \/ i - 1 \in DOMAIN mainQueue'
  BY <1>1, TailFacts DEF TypeOK
<1>3. \A i \in DOMAIN mainQueue' : mainQueue'[i] # c
  BY <1>2 DEF AnsweredOnce
<1>4. ASSUME NEW d \in Call
      PROVE  stage'[d] \in {"ok", "failed"}
                 <=> \E i \in DOMAIN mainQueue' : mainQueue'[i] = d
  <2>1. CASE d = c
    BY <1>1, <1>3, <2>1
  <2>2. CASE d # c
    <3>1. ASSUME stage[d] \in {"ok", "failed"}
          PROVE  \E i \in DOMAIN mainQueue' : mainQueue'[i] = d
      <4>1. PICK k \in DOMAIN mainQueue : mainQueue[k] = d
        BY <3>1 DEF AnsweredOnce
      <4>2. k # 1 /\ k \in Nat
        BY <4>1, <1>2, <2>2
      <4>3. k - 1 \in DOMAIN mainQueue' /\ (k - 1) + 1 = k
        BY <4>2, <1>2
      <4> QED
        BY <4>1, <4>3, <1>2
    <3>2. ASSUME NEW i \in DOMAIN mainQueue', mainQueue'[i] = d
          PROVE  stage[d] \in {"ok", "failed"}
      BY <3>2, <1>2 DEF AnsweredOnce
    <3> QED
      BY <3>1, <3>2, <1>1, <2>2
  <2> QED
    BY <2>1, <2>2
<1>5. ASSUME NEW i \in DOMAIN mainQueue', NEW j \in DOMAIN mainQueue',
             mainQueue'[i] = mainQueue'[j]
      PROVE  i = j
  <2>1. i + 1 = j + 1
    BY <1>2, <1>5 DEF AnsweredOnce
  <2> QED
    BY <2>1, <1>2
<1> QED
  BY <1>2, <1>3, <1>4, <1>5 DEF AnsweredOnce

(* Only Answer and Deliver touch the queue; a crash empties it.            *)
LEMMA AnsweredOnceStep ==
    ASSUME TypeOK, NothingAfterDeath, AnsweredOnce, [Next]_vars
    PROVE  AnsweredOnce'
<1>1. ASSUME NEW c \in Call, NEW a \in Account, Begin(c, a)
      PROVE  AnsweredOnce'
  BY <1>1 DEF Begin, AnsweredOnce, TypeOK
<1>2. ASSUME NEW c \in Call, TokensGranted(c)
      PROVE  AnsweredOnce'
  BY <1>2 DEF TokensGranted, AnsweredOnce, TypeOK
<1>3. ASSUME NEW c \in Call, Fail(c)
      PROVE  AnsweredOnce'
  BY <1>3, AnswerAppendsOnce DEF Fail
<1>4. ASSUME NEW c \in Call, NEW saved \in BOOLEAN, Complete(c, saved)
      PROVE  AnsweredOnce'
  BY <1>4, AnswerAppendsOnce DEF Complete
<1>5. ASSUME NEW c \in Call, Deliver(c)
      PROVE  AnsweredOnce'
  BY <1>5, DeliverRemoves
<1>6. ASSUME NEW removed \in BOOLEAN, SignOut(removed)
      PROVE  AnsweredOnce'
  BY <1>6 DEF SignOut, AnsweredOnce
<1>7. CASE TokenService
  BY <1>7 DEF TokenService, StartRefresh, Refreshed, RefreshFailed, AnsweredOnce
<1>8. CASE Crash
  <2>1. DOMAIN mainQueue' = {}
    BY <1>8, EmptyFacts DEF Crash
  <2>2. \A c \in Call : stage'[c] = "idle"
    BY <1>8 DEF Crash, AllIdle
  <2> QED
    BY <2>1, <2>2 DEF AnsweredOnce
<1>9. ASSUME NEW readable \in BOOLEAN, Launch(readable)
      PROVE  AnsweredOnce'
  BY <1>9 DEF Launch, AnsweredOnce
<1>10. CASE UNCHANGED vars
  BY <1>10 DEF vars, AnsweredOnce
<1> QED
  BY <1>1, <1>2, <1>3, <1>4, <1>5, <1>6, <1>7, <1>8, <1>9, <1>10
     DEF Next, Respond

-----------------------------------------------------------------------------
(* The last success handler that waits is that of the current account.     *)
LEMMA LastSuccessRulesStep ==
    ASSUME TypeOK, NothingAfterDeath, CallsHaveAccounts, AnsweredOnce,
           LastSuccessRules, [Next]_vars
    PROVE  LastSuccessRules'
<1> USE DEF LastSuccessRules, LastSuccess
<1>0. \A i \in DOMAIN mainQueue : mainQueue[i] \in Call
  BY AppendFacts DEF TypeOK
<1>1. ASSUME NEW c \in Call, NEW a \in Account, Begin(c, a)
      PROVE  LastSuccessRules'
  BY <1>1, <1>0 DEF Begin, AnsweredOnce, TypeOK
<1>2. ASSUME NEW c \in Call, TokensGranted(c)
      PROVE  LastSuccessRules'
  BY <1>2, <1>0 DEF TokensGranted, AnsweredOnce, TypeOK
<1>3. ASSUME NEW c \in Call, stage[c] \in {"request", "lookup"},
             NEW ok \in BOOLEAN, Answer(c, ok), UNCHANGED account,
             ok => Uid(currentUser') = account[c],
             ~ok => UNCHANGED currentUser
      PROVE  LastSuccessRules'
  <2>1. \A i \in DOMAIN mainQueue : mainQueue[i] # c
    BY <1>3 DEF AnsweredOnce
  <2>2. /\ mainQueue' = Append(mainQueue, c)
        /\ \A d \in Call \ {c} : stage'[d] = stage[d]
        /\ stage'[c] = IF ok THEN "ok" ELSE "failed"
    BY <1>3 DEF Answer, TypeOK
  <2>3. /\ DOMAIN mainQueue' = DOMAIN mainQueue \cup {Len(mainQueue) + 1}
        /\ \A i \in DOMAIN mainQueue : mainQueue'[i] = mainQueue[i]
        /\ mainQueue'[Len(mainQueue) + 1] = c
        /\ Len(mainQueue) \in Nat
        /\ DOMAIN mainQueue = 1..Len(mainQueue)
    BY <2>2, <1>3, AppendFacts DEF TypeOK
  <2>4. \A i \in DOMAIN mainQueue : stage'[mainQueue'[i]] = stage[mainQueue[i]]
    BY <2>1, <2>2, <2>3, <1>0
  <2>5. ASSUME NEW i \in DOMAIN mainQueue', LastSuccess(i)'
        PROVE  Uid(currentUser') \in {NoUser, account'[mainQueue'[i]]}
    <3>1. CASE ok
      <4>1. i = Len(mainQueue) + 1
        BY <3>1, <2>2, <2>3, <2>5
      <4> QED
        BY <4>1, <3>1, <2>3, <1>3
    <3>2. CASE ~ok
      <4>1. i \in DOMAIN mainQueue /\ LastSuccess(i)
        BY <3>2, <2>2, <2>3, <2>4, <2>5
      <4> QED
        BY <4>1, <3>2, <2>3, <1>3 DEF Uid
    <3> QED
      BY <3>1, <3>2
  <2> QED
    BY <2>5 DEF Uid
<1>4. ASSUME NEW c \in Call, Fail(c)
      PROVE  LastSuccessRules'
  BY <1>4, <1>3 DEF Fail
<1>5. ASSUME NEW c \in Call, NEW saved \in BOOLEAN, Complete(c, saved)
      PROVE  LastSuccessRules'
  <2>1. /\ saved => Uid(currentUser') = account[c]
        /\ ~saved => UNCHANGED currentUser
    BY <1>5, NilIsNoObject
       DEF Complete, UpdateCurrentUser, Uid, CallsHaveAccounts, TypeOK
  <2> QED
    BY <2>1, <1>5, <1>3 DEF Complete
<1>6. ASSUME NEW c \in Call, Deliver(c)
      PROVE  LastSuccessRules'
  <2>1. /\ \A i \in DOMAIN mainQueue' : /\ i + 1 \in DOMAIN mainQueue
                                        /\ mainQueue'[i] = mainQueue[i + 1]
                                        /\ mainQueue'[i] # c
        /\ \A i \in DOMAIN mainQueue : i = 1 \/ i - 1 \in DOMAIN mainQueue'
        /\ DOMAIN mainQueue \subseteq Nat
    BY <1>6, DeliverRemoves
  <2>2. \A d \in Call \ {c} : stage'[d] = stage[d] /\ account'[d] = account[d]
    BY <1>6 DEF Deliver, TypeOK
  <2>3. UNCHANGED currentUser
    BY <1>6 DEF Deliver
  <2>4. DOMAIN mainQueue' \subseteq Nat
    BY <1>6, TailFacts DEF Deliver, TypeOK
  <2>5. ASSUME NEW i \in DOMAIN mainQueue', LastSuccess(i)'
        PROVE  LastSuccess(i + 1)
    <3>1. stage[mainQueue[i + 1]] = "ok"
      BY <2>1, <2>2, <2>5, <1>0
    <3>2. ASSUME NEW j \in DOMAIN mainQueue, j > i + 1
          PROVE  stage[mainQueue[j]] # "ok"
      <4>1. /\ j - 1 \in DOMAIN mainQueue'
            /\ j - 1 > i
            /\ (j - 1) + 1 = j
        BY <3>2, <2>1, <2>4
      <4>2. mainQueue'[j - 1] = mainQueue[j] /\ mainQueue[j] # c
        BY <4>1, <2>1
      <4> QED
        BY <4>1, <4>2, <2>2, <2>5, <1>0
    <3> QED
      BY <3>1, <3>2
  <2> QED
    BY <2>1, <2>2, <2>3, <2>5, <1>0 DEF Uid
<1>7. ASSUME NEW removed \in BOOLEAN, SignOut(removed)
      PROVE  LastSuccessRules'
  BY <1>7 DEF SignOut, UpdateCurrentUser, Uid
<1>8. CASE TokenService
  BY <1>8 DEF TokenService, StartRefresh, Refreshed, RefreshFailed,
              UpdateCurrentUser, Uid
<1>9. CASE Crash
  <2>1. DOMAIN mainQueue' = {}
    BY <1>9, EmptyFacts DEF Crash
  <2> QED
    BY <2>1
<1>10. ASSUME NEW readable \in BOOLEAN, Launch(readable)
       PROVE  LastSuccessRules'
  <2>1. DOMAIN mainQueue' = {}
    BY <1>10, EmptyFacts DEF Launch, NothingAfterDeath
  <2> QED
    BY <2>1
<1>11. CASE UNCHANGED vars
  BY <1>11 DEF vars, Uid
<1> QED
  BY <1>1, <1>2, <1>4, <1>5, <1>6, <1>7, <1>8, <1>9, <1>10, <1>11
     DEF Next, Respond

-----------------------------------------------------------------------------
(* The inductive invariant.                                                *)
LEMMA IInvInit == Init => IInv
<1> SUFFICES ASSUME Init
             PROVE  IInv
  OBVIOUS
<1>1. TypeOK
  BY TypeInit
<1>2. CallsHaveAccounts
  BY DEF Init, AllIdle, CallsHaveAccounts
<1>3. NothingAfterDeath /\ MemoryIsStored /\ SignedOutStays
  BY DEF Init, NothingAfterDeath, MemoryIsStored, SignedOutStays
<1>4. DOMAIN mainQueue = {}
  BY EmptyFacts DEF Init
<1>5. AnsweredOnce
  BY <1>4 DEF Init, AllIdle, AnsweredOnce
<1>6. LastSuccessRules
  BY <1>4 DEF LastSuccessRules
<1> QED
  BY <1>1, <1>2, <1>3, <1>5, <1>6 DEF IInv

(* Together the parts are inductive.                                       *)
LEMMA IInvStep == IInv /\ [Next]_vars => IInv'
  BY TypeStep, CallsHaveAccountsStep, NothingAfterDeathStep,
     MemoryIsStoredStep, AnsweredOnceStep, LastSuccessRulesStep,
     SignedOutStaysStep
     DEF IInv

(* The invariant holds in every state of every behaviour of the session.   *)
THEOREM Invariance == Spec => []IInv
  BY IInvInit, IInvStep, PTL DEF Spec

(* Every variable of the session keeps its type.                           *)
THEOREM TypeCorrect == Spec => []TypeOK
<1>1. IInv => TypeOK
  BY DEF IInv
<1> QED
  BY <1>1, Invariance, PTL

(* updateCurrentUser:byForce:savingToDisk: keeps memory behind the         *)
(* keychain: whoever is signed in is also who a restart would find.        *)
THEOREM MemoryAlwaysStored == Spec => []MemoryIsStored
<1>1. IInv => MemoryIsStored
  BY DEF IInv
<1> QED
  BY <1>1, Invariance, PTL

(* The decorated callbacks put each answered call in the main queue once.  *)
THEOREM AlwaysAnsweredOnce == Spec => []AnsweredOnce
<1>1. IInv => AnsweredOnce
  BY DEF IInv
<1> QED
  BY <1>1, Invariance, PTL

(* While success handlers wait, nobody but the account of the last of them *)
(* is signed in.                                                           *)
THEOREM LastSuccessAlwaysRules == Spec => []LastSuccessRules
<1>1. IInv => LastSuccessRules
  BY DEF IInv
<1> QED
  BY <1>1, Invariance, PTL

(* signOut: with no call outstanding lasts, across token refreshes and     *)
(* restarts, until the next call.                                          *)
THEOREM SignedOutAlwaysStays == Spec => []SignedOutStays
<1>1. IInv => SignedOutStays
  BY DEF IInv
<1> QED
  BY <1>1, Invariance, PTL

-----------------------------------------------------------------------------
(* The answer to a token request of a session that was replaced changes    *)
(* neither memory nor keychain.                                            *)
LEMMA StaleRefreshStep ==
    ASSUME [Next]_vars, NEW u \in refreshing \ refreshing',
           running', u # currentUser
    PROVE  UNCHANGED <<currentUser, stored>>
<1>1. PICK v \in refreshing :
         \/ \E saved \in BOOLEAN : Refreshed(v, saved)
         \/ \E invalid, removed \in BOOLEAN : RefreshFailed(v, invalid, removed)
  BY DEF Next, Respond, TokenService, vars, Begin, TokensGranted, Fail,
         Complete, Deliver, SignOut, StartRefresh, Crash, Launch
<1>2. u = v
  BY <1>1 DEF Refreshed, RefreshFailed
<1> QED
  BY <1>1, <1>2 DEF Refreshed, RefreshFailed

\* A token request that outlives its session (FIRAuth.m: the user it was made
\* for is no longer current) changes neither memory nor keychain when it ends.
THEOREM StaleRefreshAlwaysHarmless == Spec => StaleRefreshHarmless
<1>1. [Next]_vars =>
        [\A u \in refreshing \ refreshing' :
            running' /\ u # currentUser => UNCHANGED <<currentUser, stored>>]_vars
  BY StaleRefreshStep
<1> QED
  BY <1>1, PTL DEF Spec, StaleRefreshHarmless

-----------------------------------------------------------------------------
(* FIRAuth implements AuthSession.                                         *)
\* Nothing is asked and nobody signed in at the start of both.
LEMMA InitRefines == Init => Session!Init
  BY DEF Init, Session!Init, AllIdle, AboutNobody, Uid, AnswerOf,
         Session!Nothing, Session!Unasked

\* Every step of FIRAuth is a step of AuthSession, or none.
LEMMA StepRefines ==
    ASSUME IInv, [Next]_vars
    PROVE  [Session!Next]_(Session!vars)
<1> USE DEF IInv, TypeOK, Stage, User, Uid, AnswerOf
<1>1. ASSUME NEW c \in Call, NEW a \in Account, Begin(c, a)
      PROVE  Session!Ask(c, a)
  BY <1>1 DEF Begin, Session!Ask
<1>2. ASSUME NEW c \in Call, TokensGranted(c)
      PROVE  UNCHANGED Session!vars
  BY <1>2 DEF TokensGranted, Session!vars
<1>3. ASSUME NEW c \in Call, Fail(c)
      PROVE  Session!Refuse(c)
  BY <1>3 DEF Fail, Answer, Session!Refuse
<1>4. ASSUME NEW c \in Call, Complete(c, TRUE)
      PROVE  Session!Grant(c)
  <2>1. account[c] \in Account /\ stage[c] = "lookup"
    BY <1>4 DEF Complete, CallsHaveAccounts
  <2>2. PICK o \in Object :
          /\ currentUser' = [uid |-> account[c], object |-> o]
          /\ stored' = account[c]
    BY <1>4, <2>1 DEF Complete, UpdateCurrentUser
  <2>3. Uid(currentUser)' = account[c] /\ Uid(currentUser') = account[c]
    BY <2>1, <2>2
  <2>4. /\ stage' = [stage EXCEPT ![c] = "ok"]
        /\ mainQueue' = Append(mainQueue, c)
        /\ UNCHANGED account
    BY <1>4 DEF Complete, Answer
  <2> QED
    BY <2>1, <2>2, <2>3, <2>4 DEF Session!Grant
<1>5. ASSUME NEW c \in Call, Complete(c, FALSE)
      PROVE  Session!Refuse(c)
  BY <1>5 DEF Complete, UpdateCurrentUser, Answer, Session!Refuse
<1>6. ASSUME NEW c \in Call, Deliver(c)
      PROVE  Session!Tell(c)
  BY <1>6 DEF Deliver, Session!Tell
<1>7. ASSUME NEW removed \in BOOLEAN, SignOut(removed)
      PROVE  Session!SignOut(removed)
  BY <1>7 DEF SignOut, UpdateCurrentUser, Session!SignOut
<1>8. CASE StartRefresh
  BY <1>8 DEF StartRefresh, Session!vars
<1>9. ASSUME NEW u \in refreshing, NEW saved \in BOOLEAN, Refreshed(u, saved)
      PROVE  UNCHANGED Session!vars
  BY <1>9 DEF Refreshed, MemoryIsStored, Session!vars
<1>10. ASSUME NEW u \in refreshing, NEW invalid \in BOOLEAN,
              NEW removed \in BOOLEAN, RefreshFailed(u, invalid, removed)
       PROVE  Session!Expire \/ UNCHANGED Session!vars
  BY <1>10 DEF RefreshFailed, UpdateCurrentUser, Session!Expire, Session!vars
<1>11. CASE Crash
  <2>1. \A c \in Call : AnswerOf(stage'[c]) = "none"
    BY <1>11 DEF Crash, AllIdle
  <2>2. Uid(currentUser') = NoUser
    BY <1>11 DEF Crash
  <2>3. Session!Stop
    BY <1>11, <2>1, <2>2 DEF Crash, AboutNobody, Session!Stop, Session!Nothing,
                             Session!Unasked
  <2> QED
    BY <2>3 DEF Session!Next
<1>12. ASSUME NEW readable \in BOOLEAN, Launch(readable)
       PROVE  Session!Start(readable)
  BY <1>12 DEF Launch, NothingAfterDeath, Session!Start
<1>13. CASE UNCHANGED vars
  BY <1>13 DEF vars, Session!vars
<1> QED
  BY <1>1, <1>2, <1>3, <1>4, <1>5, <1>6, <1>7, <1>8, <1>9, <1>10, <1>11,
     <1>12, <1>13 DEF Next, Respond, TokenService, Session!Next

(* Every behaviour of FIRAuth is, in what the program and the device see,  *)
(* one of AuthSession: a sign-in takes effect at one instant or not at all.*)
THEOREM Refinement == Spec => ImplementsSession
  BY InitRefines, StepRefines, Invariance, PTL
     DEF Spec, ImplementsSession, Session!Spec
=============================================================================

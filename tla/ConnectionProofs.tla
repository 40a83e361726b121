-------------------------- MODULE ConnectionProofs --------------------------
(***************************************************************************)
(* The connection of Firebase Database loses no put, answers none twice,   *)
(* undoes none that it confirmed, withholds no answer without a listen,    *)
(* and is authenticated as the user Auth announced last, for any users,    *)
(* queries and numbers of puts and requests.                               *)
(*                                                                         *)
(* The invariant follows the requests in flight: which of them restore the *)
(* session, that puts are in the order of their numbers and everything     *)
(* confirmed is older, how many listens wait for an answer, and what the   *)
(* last request of a session will make of the server's idea of it.         *)
(***************************************************************************)
EXTENDS PersistentConnection, TLAPS, FiniteSetTheorems, SequenceTheorems, WellFoundedInduction

USE ConnectionAssumption

MaybeUser == DbUser \cup {NoUser}
LinkState == {"Disconnected", "GettingToken", "Connecting", "Authenticating", "Connected"}
PutState == [out : BOOLEAN, sent : BOOLEAN, hash : BOOLEAN]
HeldAnswer == [put : Nat, ok : BOOLEAN, lost : BOOLEAN]
ToldAnswer == [put : Nat, status : {"ok", "refused", "disconnect", "canceled"}]
RequestState ==
  [kind : {"listen"}, arg : Query \X Nat, restore : {FALSE}, ok : BOOLEAN] \cup
  [kind : {"put"}, arg : Nat, restore : {FALSE}, ok : BOOLEAN] \cup
  [kind : {"auth"}, arg : DbUser, restore : BOOLEAN, ok : BOOLEAN] \cup
  [kind : {"unauth"}, arg : {NoUser}, restore : {FALSE}, ok : BOOLEAN]

ConnectionTypeOK ==
  /\ connectionState \in LinkState /\ scheduledRetry \in BOOLEAN
  /\ interruptReasons \subseteq {"waiting_for_open", "repo_interrupt", "server_kill"}
  /\ fetch \in [on : BOOLEAN, user : MaybeUser]
  /\ authToken \in MaybeUser /\ authUser \in MaybeUser /\ serverAuth \in MaybeUser
  /\ overtaken \in BOOLEAN
  /\ listens \in [Query -> Nat] /\ IsFiniteSet(Listening)
  /\ puts \in Seq(PutState) /\ putsToAck \in Seq(HeldAnswer) /\ told \in Seq(ToldAnswer)
  /\ inFlight \in Seq(RequestState) /\ served \in 0..Len(inFlight)
  /\ value \in Nat /\ unackedListensCount \in Nat

\* Nothing is in flight on a connection that is not there, and a retry or a
\* token is awaited only before there is one.
Linked ==
  /\ ~connected => inFlight = <<>> /\ serverAuth = NoUser
  /\ scheduledRetry => connectionState = "Disconnected"
  /\ fetch.on => connectionState \in {"Disconnected", "GettingToken"}

\* The request that restores the session is the first of its connection, and
\* nothing is restored before it is answered.
Restoring ==
  /\ \A i \in DOMAIN inFlight :
       inFlight[i].restore <=> connectionState = "Authenticating" /\ i = 1
  /\ connectionState = "Authenticating" => inFlight # <<>> /\ RequestsOf("put") = {}

\* The puts in flight are in their order, and all that are outstanding are
\* among them, once the session is restored.
PutsSent ==
  /\ \A i \in RequestsOf("put") : inFlight[i].arg \in DOMAIN puts
  /\ \A i, j \in RequestsOf("put") : i < j => inFlight[i].arg < inFlight[j].arg
  /\ connectionState = "Connected" =>
       \A p \in Outstanding : \E i \in RequestsOf("put") : inFlight[i].arg = p

\* The puts that answers are of, no two of the same.
PutsIn(s) == {s[j].put : j \in DOMAIN s}
Distinct(s) == \A j, k \in DOMAIN s : s[j].put = s[k].put => j = k

\* A put is answered, its answer is withheld, or it is outstanding.
Once ==
  /\ Distinct(told) /\ Distinct(putsToAck)
  /\ PutsIn(told) \cap PutsIn(putsToAck) = {}
  /\ PutsIn(told) \cup PutsIn(putsToAck) = DOMAIN puts \ Outstanding

\* The puts whose success is told or will be.
OkIn(s) == {s[j].put : j \in {k \in DOMAIN s : s[k].status = "ok"}}
HeldOk(s) == {s[j].put : j \in {k \in DOMAIN s : s[k].ok}}
Confirmed == OkIn(told) \cup HeldOk(putsToAck)

\* What the server or the program may still apply is later than what is
\* confirmed.
Kept ==
  /\ \A a \in Confirmed :
       /\ a <= value
       /\ \A p \in Outstanding : a < p
       /\ \A i \in RequestsOf("put") : a < inFlight[i].arg
  /\ \A i \in RequestsOf("put") : i <= served /\ inFlight[i].ok => inFlight[i].arg <= value

\* The last request about the session in the sequence s, of which the server
\* has handled n, leaves it with the user u, if it is sa's now.
Auths(s) == {i \in DOMAIN s : s[i].kind \in {"auth", "unauth"}}
Leads(s, n, sa, u) ==
  \/ Auths(s) = {} /\ sa = u
  \/ \E k \in Auths(s) : /\ \A j \in Auths(s) : j <= k
                         /\ s[k].arg = u
                         /\ k <= n /\ s[k].ok => sa = u

SessionFollowed ==
  /\ connectionState = "Connecting" /\ ~overtaken => authToken = authUser
  /\ connected /\ ~overtaken => Leads(inFlight, served, serverAuth, authUser)
  /\ \A i \in DOMAIN inFlight : i <= served /\ inFlight[i].kind = "unauth" => inFlight[i].ok

ConnectionInv ==
  /\ ConnectionTypeOK /\ Linked /\ Restoring /\ PutsSent /\ Once /\ Kept
  /\ WithheldForListens /\ SessionFollowed

-----------------------------------------------------------------------------
(* Numbers and sequences.                                                  *)

\* A finite set of numbers has a greatest.
LEMMA FiniteHasGreatest ==
  ASSUME NEW S \in SUBSET Nat, IsFiniteSet(S), S # {}
  PROVE  \E x \in S : \A y \in S : x >= y
<1> DEFINE Above(x) == {y \in S : x < y}
           Aboves == {Above(x) : x \in S}
<1>1. Aboves \subseteq FiniteSubsetsOf(S) /\ Aboves # {}
  <2>1. FiniteSubsetsOf(S) = SUBSET S
    BY FS_FiniteSubsetsOfFinite
  <2>2. Aboves \subseteq SUBSET S
    OBVIOUS
  <2>3. PICK x \in S : TRUE
    OBVIOUS
  <2>4. Above(x) \in Aboves
    OBVIOUS
  <2> QED
    BY <2>1, <2>2, <2>4
<1>2. PICK U \in Aboves : \A V \in Aboves : <<V, U>> \notin StrictSubsetOrdering(S)
  <2> HIDE DEF Aboves
  <2> QED
    BY <1>1, FS_StrictSubsetOrderingWellFounded, WFMin
<1>3. PICK x \in S : U = Above(x)
  BY <1>2
<1>4. ASSUME NEW y \in S, x < y PROVE FALSE
  <2>1. x \in Nat /\ y \in Nat
    OBVIOUS
  <2>2. Above(y) \subseteq Above(x)
    <3>1. ASSUME NEW z \in S, y < z PROVE x < z
      BY <1>4, <2>1, <3>1, z \in Nat
    <3> QED
      BY <3>1
  <2>3. y \in Above(x) /\ y \notin Above(y)
    BY <1>4, <2>1
  <2>4. <<Above(y), Above(x)>> \in StrictSubsetOrdering(S)
    BY <2>2, <2>3 DEF StrictSubsetOrdering
  <2> QED
    BY <1>2, <1>3, <2>4
<1> QED
  BY <1>4

Increasing(s) == \A i, j \in DOMAIN s : i < j => s[i] < s[j]

\* The elements of a finite set of numbers can be put in order.
LEMMA OrderExists ==
  ASSUME NEW S \in SUBSET Nat, IsFiniteSet(S)
  PROVE  \E s \in [1..Cardinality(S) -> S] : Increasing(s)
<1> DEFINE Bad == {T \in SUBSET S : ~\E s \in [1..Cardinality(T) -> T] : Increasing(s)}
<1>1. SUFFICES ASSUME Bad # {} PROVE FALSE
  OBVIOUS
<1>2. Bad \subseteq FiniteSubsetsOf(S)
  BY FS_FiniteSubsetsOfFinite
<1>3. PICK T \in Bad : \A U \in Bad : <<U, T>> \notin StrictSubsetOrdering(S)
  <2> HIDE DEF Bad
  <2> QED
    BY <1>1, <1>2, FS_StrictSubsetOrderingWellFounded, WFMin
<1>4. T \in SUBSET Nat /\ T \in SUBSET S /\ IsFiniteSet(T) /\ Cardinality(T) \in Nat
  BY FS_Subset, FS_CardinalityType
<1>5. T # {}
  <2>1. ASSUME T = {} PROVE FALSE
    <3>1. Cardinality(T) = 0 /\ 1..0 = {}
      BY <2>1, FS_EmptySet
    <3>2. [i \in 1..0 |-> 0] \in [1..Cardinality(T) -> T] /\ Increasing([i \in 1..0 |-> 0])
      BY <3>1 DEF Increasing
    <3> QED
      BY <1>3, <3>2
  <2> QED
    BY <2>1
<1>6. PICK b \in T : \A y \in T : b >= y
  BY <1>4, <1>5, FiniteHasGreatest
<1> DEFINE U == T \ {b}
           n == Cardinality(U)
<1>7. n \in Nat /\ Cardinality(T) = n + 1
  <2>1. IsFiniteSet(U) /\ n = Cardinality(T) - 1
    BY <1>4, <1>6, FS_RemoveElement
  <2>2. n \in Nat
    BY <2>1, FS_CardinalityType
  <2> HIDE DEF n
  <2> QED
    BY <1>4, <2>1, <2>2
<1>8. U \in SUBSET S /\ <<U, T>> \in StrictSubsetOrdering(S)
  BY <1>4, <1>6 DEF StrictSubsetOrdering
<1>9. PICK s \in [1..n -> U] : Increasing(s)
  <2>1. U \notin Bad
    BY <1>3, <1>8
  <2> QED
    BY <1>8, <2>1
<1> DEFINE r == [i \in 1..Cardinality(T) |-> IF i <= n THEN s[i] ELSE b]
<1>10. r \in [1..Cardinality(T) -> T]
  <2> HIDE DEF n, U
  <2>1. \A i \in 1..n + 1 : i <= n => s[i] \in U
    BY <1>7, <1>9
  <2>2. \A x \in U : x \in T
    BY DEF U
  <2> QED
    BY <1>6, <1>7, <2>1, <2>2
<1>11. Increasing(r)
  <2> SUFFICES ASSUME NEW i \in 1..n + 1, NEW j \in 1..n + 1, i < j PROVE r[i] < r[j]
    BY <1>7 DEF Increasing
  <2> HIDE DEF n, U
  <2>1. i \in 1..n /\ r[i] = s[i] /\ s[i] \in U
    BY <1>7, <1>9
  <2>2. CASE j <= n
    BY <1>7, <1>9, <2>1, <2>2 DEF Increasing
  <2>3. CASE ~(j <= n)
    <3>1. r[j] = b
      BY <1>7, <2>3
    <3>2. s[i] # b /\ b >= s[i] /\ b \in Nat /\ s[i] \in Nat
      BY <1>4, <1>6, <2>1 DEF U
    <3> QED
      BY <2>1, <3>1, <3>2
  <2> QED
    BY <2>2, <2>3
<1> QED
  BY <1>3, <1>10, <1>11

\* What PutsInOrder gives: all of them, in order.
LEMMA PutsInOrderFacts ==
  ASSUME NEW S \in SUBSET Nat, IsFiniteSet(S)
  PROVE  /\ PutsInOrder(S) \in [1..Cardinality(S) -> S] /\ Cardinality(S) \in Nat
         /\ Increasing(PutsInOrder(S))
         /\ \A x \in S : \E i \in 1..Cardinality(S) : PutsInOrder(S)[i] = x
<1> DEFINE n == Cardinality(S)
<1>1. n \in Nat
  BY FS_CardinalityType
<1>2. PutsInOrder(S) \in [1..n -> S] /\ Increasing(PutsInOrder(S))
  BY OrderExists DEF PutsInOrder, Increasing
<1>3. PutsInOrder(S) \in Injection(1..n, S)
  <2>1. \A i, j \in 1..n : i # j => i < j \/ j < i
    BY <1>1
  <2>2. \A i \in 1..n : PutsInOrder(S)[i] \in Nat
    BY <1>2
  <2>3. \A i, j \in 1..n : PutsInOrder(S)[i] = PutsInOrder(S)[j] => i = j
    BY <1>1, <1>2, <2>1, <2>2 DEF Increasing
  <2> QED
    BY <1>2, <2>3 DEF Injection, IsInjective
<1>4. PutsInOrder(S) \in Surjection(1..n, S)
  <2>1. IsFiniteSet(1..n) /\ Cardinality(1..n) = n
    BY <1>1, FS_Interval
  <2> QED
    BY <1>3, <2>1, FS_Injection
<1> QED
  BY <1>1, <1>2, <1>4 DEF Surjection

\* A finite set as a sequence without repetition.
LEMMA SetToSeqFacts ==
  ASSUME NEW S, IsFiniteSet(S)
  PROVE  LET s == SetToSeq(S)
         IN  /\ Cardinality(S) \in Nat /\ s \in [1..Cardinality(S) -> S]
             /\ \A i, j \in 1..Cardinality(S) : s[i] = s[j] => i = j
             /\ \A x \in S : \E i \in 1..Cardinality(S) : s[i] = x
<1> DEFINE n == Cardinality(S)
           s == SetToSeq(S)
<1>1. n \in Nat /\ ExistsBijection(1..n, S)
  BY FS_CardinalityType
<1>2. \E f \in [1..n -> S] : IsInjective(f)
  BY <1>1 DEF ExistsBijection, Bijection, Injection
<1>3. s \in [1..n -> S] /\ IsInjective(s)
  BY <1>2 DEF SetToSeq
<1>4. s \in Injection(1..n, S)
  BY <1>3 DEF Injection
<1>5. s \in Surjection(1..n, S)
  <2>1. IsFiniteSet(1..n) /\ Cardinality(1..n) = n
    BY <1>1, FS_Interval
  <2> QED
    BY <1>4, <2>1, FS_Injection
<1> QED
  BY <1>1, <1>3, <1>5 DEF Surjection, IsInjective

\* Positions and elements after Append and Tail.
LEMMA AppendFacts ==
  ASSUME NEW S, NEW s \in Seq(S), NEW e \in S
  PROVE  LET t == Append(s, e)
         IN  /\ t \in Seq(S) /\ Len(t) = Len(s) + 1 /\ Len(s) \in Nat /\ t # << >>
             /\ \A i \in 1..Len(s) : t[i] = s[i]
             /\ t[Len(s) + 1] = e
             /\ DOMAIN s = 1..Len(s) /\ DOMAIN t = 1..Len(s) + 1
  OBVIOUS

\* Positions and elements after Tail.
LEMMA TailFacts ==
  ASSUME NEW S, NEW s \in Seq(S), s # << >>
  PROVE  LET t == Tail(s)
         IN  /\ Head(s) = s[1] /\ s[1] \in S
             /\ t \in Seq(S) /\ Len(t) = Len(s) - 1 /\ Len(s) \in Nat \ {0}
             /\ \A i \in 1..Len(t) : t[i] = s[i + 1]
             /\ DOMAIN s = 1..Len(s) /\ DOMAIN t = 1..Len(s) - 1
  OBVIOUS

\* u is s, and then t.
Joined(u, s, t) ==
  /\ Len(u) = Len(s) + Len(t) /\ Len(s) \in Nat /\ Len(t) \in Nat
  /\ \A i \in 1..Len(s) : u[i] = s[i]
  /\ \A i \in 1..Len(t) : u[Len(s) + i] = t[i] /\ Len(s) + i \in 1..Len(u)
  /\ \A i \in 1..Len(u) : i <= Len(s) \/ (i - Len(s) \in 1..Len(t) /\ u[i] = t[i - Len(s)])
  /\ DOMAIN s = 1..Len(s) /\ DOMAIN t = 1..Len(t) /\ DOMAIN u = 1..Len(u)

\* Where the elements of s \o t come from.
LEMMA JoinFacts ==
  ASSUME NEW S, NEW s \in Seq(S), NEW t \in Seq(S)
  PROVE  s \o t \in Seq(S) /\ Joined(s \o t, s, t)
<1>1. /\ s \o t \in Seq(S) /\ Len(s \o t) = Len(s) + Len(t) /\ Len(s) \in Nat /\ Len(t) \in Nat
      /\ \A i \in 1..Len(s) + Len(t) :
           (s \o t)[i] = IF i <= Len(s) THEN s[i] ELSE t[i - Len(s)]
  BY ConcatProperties
<1>2. DOMAIN s = 1..Len(s) /\ DOMAIN t = 1..Len(t) /\ DOMAIN (s \o t) = 1..Len(s \o t)
  BY <1>1
<1> DEFINE u == s \o t
<1> HIDE DEF u
<1>3. \A i \in 1..Len(t) : u[Len(s) + i] = t[i] /\ Len(s) + i \in 1..Len(u)
  BY <1>1 DEF u
<1>4. \A i \in 1..Len(u) : i <= Len(s) \/ (i - Len(s) \in 1..Len(t) /\ u[i] = t[i - Len(s)])
  <2>1. ASSUME NEW i \in 1..Len(u), ~(i <= Len(s))
        PROVE  i - Len(s) \in 1..Len(t) /\ u[i] = t[i - Len(s)]
    <3>1. i \in 1..Len(s) + Len(t)
      BY <1>1 DEF u
    <3>2. u[i] = t[i - Len(s)]
      BY <1>1, <2>1, <3>1 DEF u
    <3> QED
      BY <1>1, <2>1, <3>1, <3>2
  <2> QED
    BY <2>1
<1>5. \A i \in 1..Len(s) : u[i] = s[i]
  BY <1>1 DEF u
<1>6. u \in Seq(S) /\ Len(u) = Len(s) + Len(t) /\ DOMAIN u = 1..Len(u)
  BY <1>1, <1>2 DEF u
<1> QED
  BY <1>1, <1>2, <1>3, <1>4, <1>5, <1>6 DEF u, Joined

-----------------------------------------------------------------------------
(* The listens in flight are counted.                                      *)

ListensIn(s) == {i \in DOMAIN s : s[i].kind = "listen"}

\* The positions of a sequence that has another before it.
LEMMA ListensMoved ==
  ASSUME NEW s \in Seq(RequestState), NEW n \in Nat
  PROVE  LET T == {n + i : i \in ListensIn(s)}
         IN  /\ IsFiniteSet(ListensIn(s)) /\ Cardinality(ListensIn(s)) \in Nat
             /\ IsFiniteSet(T) /\ Cardinality(T) = Cardinality(ListensIn(s))
<1> DEFINE L == ListensIn(s)
           T == {n + i : i \in L}
           f == [i \in L |-> n + i]
<1>1. IsFiniteSet(L) /\ Cardinality(L) \in Nat
  <2>1. L \subseteq 1..Len(s) /\ Len(s) \in Nat
    BY DEF ListensIn
  <2>2. IsFiniteSet(1..Len(s))
    BY <2>1, FS_Interval
  <2> QED
    BY <2>1, <2>2, FS_Subset, FS_CardinalityType
<1>2. L \subseteq Nat
  BY DEF ListensIn
<1> HIDE DEF L
<1>3. f \in [L -> T] /\ \A x \in T : \E i \in L : f[i] = x
  OBVIOUS
<1>4. \A i, j \in L : f[i] = f[j] => i = j
  <2>1. \A i, j \in L : i \in Nat /\ j \in Nat /\ (n + i = n + j => i = j)
    BY <1>2
  <2> QED
    BY <2>1
<1>5. f \in Bijection(L, T)
  <2>1. f \in Injection(L, T)
    BY <1>3, <1>4 DEF Injection, IsInjective
  <2>2. f \in Surjection(L, T)
    BY <1>3 DEF Surjection
  <2> QED
    BY <2>1, <2>2 DEF Bijection
<1>6. ExistsBijection(L, T)
  BY <1>5 DEF ExistsBijection
<1> QED
  BY <1>1, <1>6, FS_Bijection DEF L

\* One sequence after another: the sum.
LEMMA ListensJoin ==
  ASSUME NEW s \in Seq(RequestState), NEW t \in Seq(RequestState)
  PROVE  /\ Cardinality(ListensIn(s)) \in Nat /\ Cardinality(ListensIn(t)) \in Nat
         /\ Cardinality(ListensIn(s \o t)) = Cardinality(ListensIn(s)) + Cardinality(ListensIn(t))
<1> DEFINE T == {Len(s) + i : i \in ListensIn(t)}
<1>1. /\ Len(s) \in Nat /\ IsFiniteSet(ListensIn(s)) /\ Cardinality(ListensIn(s)) \in Nat
      /\ Cardinality(ListensIn(t)) \in Nat
      /\ IsFiniteSet(T) /\ Cardinality(T) = Cardinality(ListensIn(t))
  <2>1. Len(s) \in Nat
    OBVIOUS
  <2>2. IsFiniteSet(ListensIn(s)) /\ Cardinality(ListensIn(s)) \in Nat
    BY <2>1, ListensMoved
  <2>3. IsFiniteSet(T) /\ Cardinality(T) = Cardinality(ListensIn(t)) /\ Cardinality(ListensIn(t)) \in Nat
    BY <2>1, ListensMoved
  <2> QED
    BY <2>1, <2>2, <2>3
<1>2. ListensIn(s \o t) = ListensIn(s) \cup T
  <2>1. ASSUME NEW i \in ListensIn(s \o t) PROVE i \in ListensIn(s) \cup T
    <3>1. i \in 1..Len(s \o t) /\ (s \o t)[i].kind = "listen"
      BY <2>1, JoinFacts DEF ListensIn, Joined
    <3>2. CASE i <= Len(s)
      BY <3>1, <3>2, JoinFacts DEF ListensIn, Joined
    <3>3. CASE ~(i <= Len(s))
      <4>1. i - Len(s) \in 1..Len(t) /\ (s \o t)[i] = t[i - Len(s)]
        BY <3>1, <3>3, JoinFacts DEF Joined
      <4>2. i - Len(s) \in ListensIn(t) /\ i = Len(s) + (i - Len(s))
        BY <1>1, <3>1, <4>1, JoinFacts DEF ListensIn, Joined
      <4> QED
        BY <4>2
    <3> QED
      BY <3>2, <3>3
  <2>2. ListensIn(s) \subseteq ListensIn(s \o t)
    BY JoinFacts DEF ListensIn, Joined
  <2>3. ASSUME NEW i \in ListensIn(t) PROVE Len(s) + i \in ListensIn(s \o t)
    BY <2>3, JoinFacts DEF ListensIn, Joined
  <2> QED
    BY <2>1, <2>2, <2>3
<1>3. ListensIn(s) \cap T = {}
  BY <1>1 DEF ListensIn
<1>4. Cardinality(ListensIn(s) \cap T) = 0
  BY <1>3, FS_EmptySet
<1> HIDE DEF T
<1>5. Cardinality(ListensIn(s) \cup T) =
        Cardinality(ListensIn(s)) + Cardinality(T) - Cardinality(ListensIn(s) \cap T)
  BY <1>1, FS_Union
<1> QED
  BY <1>1, <1>2, <1>4, <1>5

\* Sequences of listens, and without.
LEMMA ListensAll ==
  ASSUME NEW s \in Seq(RequestState)
  PROVE  /\ (\A i \in DOMAIN s : s[i].kind = "listen") => Cardinality(ListensIn(s)) = Len(s)
         /\ (\A i \in DOMAIN s : s[i].kind # "listen") => Cardinality(ListensIn(s)) = 0
<1>1. Len(s) \in Nat /\ DOMAIN s = 1..Len(s) /\ Cardinality(1..Len(s)) = Len(s)
  <2>1. Len(s) \in Nat /\ DOMAIN s = 1..Len(s)
    OBVIOUS
  <2>2. ASSUME NEW n \in Nat PROVE Cardinality(1..n) = n
    <3>1. Cardinality(1..n) = IF 1 > n THEN 0 ELSE n - 1 + 1
      BY FS_Interval
    <3> QED
      BY <3>1
  <2> QED
    BY <2>1, <2>2
<1>2. ASSUME \A i \in DOMAIN s : s[i].kind = "listen" PROVE Cardinality(ListensIn(s)) = Len(s)
  <2>1. ListensIn(s) = 1..Len(s)
    BY <1>1, <1>2 DEF ListensIn
  <2> QED
    BY <1>1, <2>1
<1>3. ASSUME \A i \in DOMAIN s : s[i].kind # "listen" PROVE Cardinality(ListensIn(s)) = 0
  <2>1. ListensIn(s) = {}
    BY <1>3 DEF ListensIn
  <2> QED
    BY <2>1, FS_EmptySet
<1> QED
  BY <1>2, <1>3

\* One request more, or less.
LEMMA ListensAppend ==
  ASSUME NEW s \in Seq(RequestState), NEW r \in RequestState
  PROVE  Cardinality(ListensIn(Append(s, r))) =
           Cardinality(ListensIn(s)) + (IF r.kind = "listen" THEN 1 ELSE 0)
<1>1. <<r>> \in Seq(RequestState) /\ Append(s, r) = s \o <<r>>
      /\ Len(<<r>>) = 1 /\ DOMAIN <<r>> = {1} /\ <<r>>[1] = r
  OBVIOUS
<1>2. Cardinality(ListensIn(<<r>>)) = IF r.kind = "listen" THEN 1 ELSE 0
  BY <1>1, ListensAll
<1> QED
  BY <1>1, <1>2, ListensJoin

\* The oldest request is taken away: it was a listen, or it was not.
LEMMA ListensTail ==
  ASSUME NEW s \in Seq(RequestState), s # << >>
  PROVE  /\ Cardinality(ListensIn(s)) =
              Cardinality(ListensIn(Tail(s))) + (IF Head(s).kind = "listen" THEN 1 ELSE 0)
         /\ Cardinality(ListensIn(Tail(s))) \in Nat
<1> DEFINE r == Head(s)
<1>1. <<r>> \in Seq(RequestState) /\ s = <<r>> \o Tail(s) /\ Tail(s) \in Seq(RequestState)
      /\ Len(<<r>>) = 1 /\ DOMAIN <<r>> = {1} /\ <<r>>[1] = r
  OBVIOUS
<1>2. Cardinality(ListensIn(<<r>>)) = IF r.kind = "listen" THEN 1 ELSE 0
  BY <1>1, ListensAll
<1>3. /\ Cardinality(ListensIn(s)) = Cardinality(ListensIn(<<r>>)) + Cardinality(ListensIn(Tail(s)))
      /\ Cardinality(ListensIn(Tail(s))) \in Nat
  BY <1>1, ListensJoin
<1> QED
  BY <1>2, <1>3

-----------------------------------------------------------------------------
(* Answers.                                                                *)

\* More answers after those given.
LEMMA AnswersJoin ==
  ASSUME NEW S, NEW s \in Seq(S), NEW t \in Seq(S)
  PROVE  /\ s \o t \in Seq(S)
         /\ PutsIn(s \o t) = PutsIn(s) \cup PutsIn(t)
         /\ OkIn(s \o t) = OkIn(s) \cup OkIn(t)
         /\ Distinct(s) /\ Distinct(t) /\ PutsIn(s) \cap PutsIn(t) = {} => Distinct(s \o t)
<1> DEFINE u == s \o t
<1>1. u \in Seq(S) /\ Joined(u, s, t)
  BY JoinFacts
<1> HIDE DEF u
<1> USE DEF Joined
<1>2. ASSUME NEW i \in DOMAIN u
      PROVE  \/ i \in DOMAIN s /\ u[i] = s[i]
             \/ \E k \in DOMAIN t : i = Len(s) + k /\ u[i] = t[k]
  <2>1. CASE i <= Len(s)
    BY <1>1, <2>1
  <2>2. CASE ~(i <= Len(s))
    <3>1. i - Len(s) \in DOMAIN t /\ i = Len(s) + (i - Len(s)) /\ u[i] = t[i - Len(s)]
      BY <1>1, <2>2
    <3> QED
      BY <3>1
  <2> QED
    BY <2>1, <2>2
<1>3. /\ \A i \in DOMAIN s : i \in DOMAIN u /\ u[i] = s[i]
      /\ \A k \in DOMAIN t : \E i \in DOMAIN u : u[i] = t[k]
  <2>1. \A i \in DOMAIN s : i \in DOMAIN u /\ u[i] = s[i]
    BY <1>1
  <2>2. ASSUME NEW k \in DOMAIN t PROVE \E i \in DOMAIN u : u[i] = t[k]
    <3>1. Len(s) + k \in DOMAIN u /\ u[Len(s) + k] = t[k]
      BY <1>1
    <3> QED
      BY <3>1
  <2> QED
    BY <2>1, <2>2
<1>4. PutsIn(u) = PutsIn(s) \cup PutsIn(t)
  <2>1. ASSUME NEW i \in DOMAIN u PROVE u[i].put \in PutsIn(s) \cup PutsIn(t)
    BY <1>2 DEF PutsIn
  <2>2. ASSUME NEW i \in DOMAIN s PROVE s[i].put \in PutsIn(u)
    BY <1>3 DEF PutsIn
  <2>3. ASSUME NEW k \in DOMAIN t PROVE t[k].put \in PutsIn(u)
    BY <1>3 DEF PutsIn
  <2> QED
    BY <2>1, <2>2, <2>3 DEF PutsIn
<1>5. OkIn(u) = OkIn(s) \cup OkIn(t)
  <2>1. ASSUME NEW i \in DOMAIN u, u[i].status = "ok" PROVE u[i].put \in OkIn(s) \cup OkIn(t)
    BY <1>2, <2>1 DEF OkIn
  <2>2. ASSUME NEW i \in DOMAIN s, s[i].status = "ok" PROVE s[i].put \in OkIn(u)
    BY <1>3, <2>2 DEF OkIn
  <2>3. ASSUME NEW k \in DOMAIN t, t[k].status = "ok" PROVE t[k].put \in OkIn(u)
    BY <1>3, <2>3 DEF OkIn
  <2> QED
    BY <2>1, <2>2, <2>3 DEF OkIn
<1>6. ASSUME Distinct(s), Distinct(t), PutsIn(s) \cap PutsIn(t) = {} PROVE Distinct(u)
  <2> SUFFICES ASSUME NEW i \in DOMAIN u, NEW j \in DOMAIN u, u[i].put = u[j].put PROVE i = j
    BY DEF Distinct
  <2>1. ASSUME NEW k \in DOMAIN s, NEW l \in DOMAIN t, s[k].put = t[l].put PROVE FALSE
    BY <1>6, <2>1 DEF PutsIn
  <2>2. CASE i \in DOMAIN s /\ u[i] = s[i] /\ j \in DOMAIN s /\ u[j] = s[j]
    BY <1>6, <2>2 DEF Distinct
  <2>3. ASSUME NEW k \in DOMAIN t, i = Len(s) + k, u[i] = t[k],
               NEW l \in DOMAIN t, j = Len(s) + l, u[j] = t[l]
        PROVE  i = j
    BY <1>6, <2>3 DEF Distinct
  <2> QED
    BY <1>2, <2>1, <2>2, <2>3
<1> QED
  BY <1>1, <1>4, <1>5, <1>6 DEF u

\* One answer more.
LEMMA AnswersAppend ==
  ASSUME NEW S, NEW s \in Seq(S), NEW a \in S
  PROVE  /\ Append(s, a) \in Seq(S)
         /\ PutsIn(Append(s, a)) = PutsIn(s) \cup {a.put}
         /\ OkIn(Append(s, a)) = OkIn(s) \cup (IF a.status = "ok" THEN {a.put} ELSE {})
         /\ HeldOk(Append(s, a)) = HeldOk(s) \cup (IF a.ok THEN {a.put} ELSE {})
         /\ Distinct(s) /\ a.put \notin PutsIn(s) => Distinct(Append(s, a))
<1> DEFINE t == Append(s, a)
<1>1. /\ t \in Seq(S) /\ Len(s) \in Nat
      /\ \A i \in 1..Len(s) : t[i] = s[i]
      /\ t[Len(s) + 1] = a
      /\ DOMAIN s = 1..Len(s) /\ DOMAIN t = 1..Len(s) + 1
  BY AppendFacts
<1> HIDE DEF t
<1>2. DOMAIN t = DOMAIN s \cup {Len(s) + 1} /\ Len(s) + 1 \notin DOMAIN s
  BY <1>1
<1>3. PutsIn(t) = PutsIn(s) \cup {a.put}
  BY <1>1, <1>2 DEF PutsIn
<1>4. OkIn(t) = OkIn(s) \cup (IF a.status = "ok" THEN {a.put} ELSE {})
  BY <1>1, <1>2 DEF OkIn
<1>5. HeldOk(t) = HeldOk(s) \cup (IF a.ok THEN {a.put} ELSE {})
  BY <1>1, <1>2 DEF HeldOk
<1>6. Distinct(s) /\ a.put \notin PutsIn(s) => Distinct(t)
  BY <1>1, <1>2 DEF Distinct, PutsIn
<1> QED
  BY <1>1, <1>3, <1>4, <1>5, <1>6 DEF t

\* ackPuts tells what was withheld.
LEMMA AckedFacts ==
  ASSUME putsToAck \in Seq(HeldAnswer)
  PROVE  /\ Acked \in Seq(ToldAnswer)
         /\ PutsIn(Acked) = PutsIn(putsToAck) /\ OkIn(Acked) = HeldOk(putsToAck)
         /\ Distinct(putsToAck) => Distinct(Acked)
<1>1. /\ DOMAIN putsToAck = 1..Len(putsToAck) /\ Len(putsToAck) \in Nat
      /\ \A j \in DOMAIN putsToAck : putsToAck[j] \in HeldAnswer
  OBVIOUS
<1>2. /\ DOMAIN Acked = DOMAIN putsToAck
      /\ \A j \in DOMAIN putsToAck :
           /\ Acked[j].put = putsToAck[j].put
           /\ Acked[j].status = IF putsToAck[j].ok THEN "ok" ELSE "refused"
           /\ Acked[j] \in ToldAnswer
  BY <1>1 DEF Acked, HeldAnswer, ToldAnswer
<1>3. Acked \in Seq(ToldAnswer)
  <2>1. Acked \in [1..Len(putsToAck) -> ToldAnswer]
    BY <1>1, <1>2 DEF Acked
  <2> QED
    BY <1>1, <2>1
<1>4. PutsIn(Acked) = PutsIn(putsToAck)
  BY <1>2 DEF PutsIn
<1>5. OkIn(Acked) = HeldOk(putsToAck)
  BY <1>2 DEF OkIn, HeldOk
<1> QED
  BY <1>2, <1>3, <1>4, <1>5 DEF Distinct

\* Answers to the puts of S, none of them "ok".
Cancels(u, S) == u \in Seq(ToldAnswer) /\ PutsIn(u) = S /\ OkIn(u) = {} /\ Distinct(u)

\* purgeOutstandingWrites cancels in order.
LEMMA CanceledInOrder ==
  ASSUME NEW S \in SUBSET Nat, IsFiniteSet(S)
  PROVE  Cancels([j \in DOMAIN PutsInOrder(S) |->
                    [put |-> PutsInOrder(S)[j], status |-> "canceled"]], S)
<1> DEFINE n == Cardinality(S)
           ord == PutsInOrder(S)
           u == [j \in DOMAIN ord |-> [put |-> ord[j], status |-> "canceled"]]
<1>1. /\ ord \in [1..n -> S] /\ n \in Nat /\ Increasing(ord)
      /\ \A x \in S : \E i \in 1..n : ord[i] = x
  BY PutsInOrderFacts
<1> HIDE DEF ord, n
<1>2. /\ DOMAIN u = 1..n
      /\ \A j \in 1..n : u[j].put = ord[j] /\ u[j].status = "canceled" /\ u[j] \in ToldAnswer
  BY <1>1 DEF ToldAnswer
<1>3. u \in Seq(ToldAnswer)
  <2>1. u \in [1..n -> ToldAnswer]
    BY <1>1, <1>2
  <2> QED
    BY <1>1, <2>1
<1> HIDE DEF u
<1>4. PutsIn(u) = S
  <2>1. \A j \in 1..n : u[j].put \in S
    BY <1>1, <1>2
  <2>2. ASSUME NEW x \in S PROVE \E j \in 1..n : u[j].put = x
    BY <1>1, <1>2
  <2> QED
    BY <1>2, <2>1, <2>2 DEF PutsIn
<1>5. OkIn(u) = {}
  BY <1>2 DEF OkIn
<1>6. Distinct(u)
  <2> SUFFICES ASSUME NEW i \in 1..n, NEW j \in 1..n, u[i].put = u[j].put PROVE i = j
    BY <1>2 DEF Distinct
  <2>1. ord[i] = ord[j] /\ ord[i] \in Nat
    BY <1>1, <1>2
  <2>2. ~(i < j) /\ ~(j < i)
    BY <1>1, <2>1 DEF Increasing
  <2> QED
    BY <1>1, <2>2
<1> QED
  BY <1>3, <1>4, <1>5, <1>6 DEF Cancels, u, ord

\* cancelSentTransactions tells in some order.
LEMMA CanceledSomehow ==
  ASSUME NEW S \in SUBSET Nat, IsFiniteSet(S)
  PROVE  Cancels(SetToSeq({[put |-> i, status |-> "disconnect"] : i \in S}), S)
<1> DEFINE T == {[put |-> i, status |-> "disconnect"] : i \in S}
           n == Cardinality(T)
           u == SetToSeq(T)
           f == [i \in S |-> [put |-> i, status |-> "disconnect"]]
<1>1. IsFiniteSet(T)
  <2>1. f \in Surjection(S, T)
    BY DEF Surjection
  <2> QED
    BY <2>1, FS_Surjection
<1>2. /\ n \in Nat /\ u \in [1..n -> T]
      /\ \A i, j \in 1..n : u[i] = u[j] => i = j
      /\ \A x \in T : \E i \in 1..n : u[i] = x
  <2> HIDE DEF T
  <2> QED
    BY <1>1, SetToSeqFacts
<1>3. /\ \A x \in T : /\ x.status = "disconnect" /\ x.put \in S
                      /\ x = [put |-> x.put, status |-> "disconnect"]
                      /\ x \in ToldAnswer
      /\ \A i \in S : \E x \in T : x.put = i
  <2>1. ASSUME NEW i \in S
        PROVE  LET x == [put |-> i, status |-> "disconnect"]
               IN  x.put = i /\ x.status = "disconnect" /\ x \in ToldAnswer
    BY DEF ToldAnswer
  <2> QED
    BY <2>1
<1> HIDE DEF T, n, u
<1>4. \A x, y \in T : x.put = y.put => x = y
  BY <1>3
<1>5. DOMAIN u = 1..n /\ \A j \in 1..n : u[j] \in T
  BY <1>2
<1>6. u \in Seq(ToldAnswer)
  <2>1. u \in [1..n -> ToldAnswer]
    BY <1>2, <1>3
  <2> QED
    BY <1>2, <2>1
<1>7. PutsIn(u) = S
  BY <1>2, <1>3, <1>5 DEF PutsIn
<1>8. OkIn(u) = {}
  BY <1>3, <1>5 DEF OkIn
<1>9. Distinct(u)
  BY <1>2, <1>4, <1>5 DEF Distinct
<1> QED
  BY <1>6, <1>7, <1>8, <1>9 DEF Cancels, u, T

-----------------------------------------------------------------------------
(* The parts of a step.                                                    *)

\* Puts have numbers, finitely many.
LEMMA OutstandingFacts ==
  ASSUME ConnectionTypeOK
  PROVE  /\ Outstanding \in SUBSET Nat /\ IsFiniteSet(Outstanding)
         /\ Outstanding \subseteq DOMAIN puts /\ DOMAIN puts = 1..Len(puts) /\ Len(puts) \in Nat
<1>1. DOMAIN puts = 1..Len(puts) /\ Len(puts) \in Nat /\ Outstanding \subseteq DOMAIN puts
  BY DEF ConnectionTypeOK, Outstanding
<1>2. IsFiniteSet(1..Len(puts))
  BY <1>1, FS_Interval
<1>3. IsFiniteSet(Outstanding)
  BY <1>1, <1>2, FS_Subset
<1> QED
  BY <1>1, <1>3

\* Nothing that is kept or sent changes.
Still ==
  /\ UNCHANGED <<puts, putsToAck, unackedListensCount, inFlight, served, serverAuth, value, told>>
  /\ connectionState' = connectionState \/ (~connected /\ ~connected')

\* The connection is lost: of the outstanding puts those of S are told, in t.
Lost(S, t) ==
  /\ connectionState' = "Disconnected" /\ ~connected' /\ inFlight' = << >> /\ served' = 0
  /\ serverAuth' = NoUser /\ unackedListensCount' = 0 /\ value' = value
  /\ S \subseteq Outstanding /\ Cancels(t, S) /\ told' = told \o t
  /\ puts' \in Seq(PutState) /\ DOMAIN puts' = DOMAIN puts /\ Outstanding' = Outstanding \ S
  /\ putsToAck' \in Seq(HeldAnswer) /\ \A j \in DOMAIN putsToAck' : putsToAck'[j].lost
  /\ PutsIn(putsToAck') = PutsIn(putsToAck) /\ HeldOk(putsToAck') = HeldOk(putsToAck)
  /\ Distinct(putsToAck) => Distinct(putsToAck')

\* onDisconnect, with cancelSentTransactions, is such a loss, and asks for a
\* retry when nothing forbids it.
LEMMA DisconnectsFacts ==
  ASSUME ConnectionTypeOK, NEW reasons, Disconnects(reasons)
  PROVE  /\ \E S, t : Lost(S, t)
         /\ scheduledRetry' = (reasons = {} \/ scheduledRetry)
<1> DEFINE S == {i \in Outstanding : puts[i].hash /\ puts[i].sent}
           t == SetToSeq({[put |-> i, status |-> "disconnect"] : i \in S})
<1>1. /\ connectionState' = "Disconnected" /\ inFlight' = << >> /\ served' = 0
      /\ serverAuth' = NoUser /\ unackedListensCount' = 0 /\ value' = value
      /\ told' = told \o t
      /\ puts' = [i \in DOMAIN puts |-> [puts[i] EXCEPT !.out = @ /\ i \notin S]]
      /\ putsToAck' = [j \in DOMAIN putsToAck |-> [putsToAck[j] EXCEPT !.lost = TRUE]]
      /\ scheduledRetry' = (reasons = {} \/ scheduledRetry)
  BY DEF Disconnects, tryScheduleReconnect
<1>2. S \subseteq Outstanding /\ Cancels(t, S)
  <2>1. S \in SUBSET Nat /\ IsFiniteSet(S)
    BY OutstandingFacts, FS_Subset
  <2> QED
    BY <2>1, CanceledSomehow
<1> HIDE DEF S, t
<1>3. /\ DOMAIN puts' = DOMAIN puts /\ DOMAIN puts = 1..Len(puts) /\ Len(puts) \in Nat
      /\ \A i \in DOMAIN puts : puts'[i].out <=> puts[i].out /\ i \notin S
      /\ \A i \in DOMAIN puts : puts'[i] \in PutState
  <2>1. \A i \in DOMAIN puts : puts[i] \in PutState
    BY DEF ConnectionTypeOK
  <2> QED
    BY <1>1, <2>1, OutstandingFacts DEF PutState
<1>4. puts' \in Seq(PutState)
  <2>1. puts' \in [1..Len(puts) -> PutState]
    BY <1>1, <1>3
  <2> QED
    BY <1>3, <2>1
<1>5. Outstanding' = Outstanding \ S
  BY <1>3 DEF Outstanding
<1>6. /\ DOMAIN putsToAck' = DOMAIN putsToAck
      /\ DOMAIN putsToAck = 1..Len(putsToAck) /\ Len(putsToAck) \in Nat
      /\ \A j \in DOMAIN putsToAck : /\ putsToAck'[j].put = putsToAck[j].put
                                     /\ putsToAck'[j].ok = putsToAck[j].ok
                                     /\ putsToAck'[j].lost
                                     /\ putsToAck'[j] \in HeldAnswer
  <2>1. \A j \in DOMAIN putsToAck : putsToAck[j] \in HeldAnswer
    BY DEF ConnectionTypeOK
  <2>2. DOMAIN putsToAck = 1..Len(putsToAck) /\ Len(putsToAck) \in Nat
    BY DEF ConnectionTypeOK
  <2> QED
    BY <1>1, <2>1, <2>2 DEF HeldAnswer
<1>7. putsToAck' \in Seq(HeldAnswer)
  <2>1. putsToAck' \in [1..Len(putsToAck) -> HeldAnswer]
    BY <1>1, <1>6
  <2> QED
    BY <1>6, <2>1
<1>8. PutsIn(putsToAck') = PutsIn(putsToAck)
  BY <1>6 DEF PutsIn
<1>9. HeldOk(putsToAck') = HeldOk(putsToAck)
  BY <1>6 DEF HeldOk
<1>10. Distinct(putsToAck) => Distinct(putsToAck')
  BY <1>6 DEF Distinct
<1>11. ~connected'
  BY <1>1 DEF connected
<1>12. Lost(S, t)
  BY <1>1, <1>2, <1>3, <1>4, <1>5, <1>6, <1>7, <1>8, <1>9, <1>10, <1>11 DEF Lost
<1> QED
  BY <1>1, <1>12

\* restoreState sends, after the requests in rest, listens and then all puts
\* that are outstanding.
Restored(rest) ==
  /\ inFlight' \in Seq(RequestState) /\ Len(rest) \in 0..Len(inFlight')
  /\ \A i \in 1..Len(rest) : inFlight'[i] = rest[i]
  /\ \A i \in DOMAIN inFlight' : i > Len(rest) =>
       /\ inFlight'[i].kind \in {"listen", "put"} /\ ~inFlight'[i].restore
       /\ inFlight'[i].kind = "put" => inFlight'[i].arg \in Outstanding
  /\ \A i, j \in DOMAIN inFlight' :
       i > Len(rest) /\ i < j /\ inFlight'[i].kind = "put" /\ inFlight'[j].kind = "put" =>
         inFlight'[i].arg < inFlight'[j].arg
  /\ \A p \in Outstanding : \E i \in DOMAIN inFlight' :
       inFlight'[i].kind = "put" /\ inFlight'[i].arg = p
  /\ Cardinality(ListensIn(inFlight')) = Cardinality(ListensIn(rest)) + Cardinality(Listening)
  /\ Cardinality(Listening) \in Nat
  /\ unackedListensCount' = unackedListensCount + Cardinality(Listening)
  /\ puts' \in Seq(PutState) /\ DOMAIN puts' = DOMAIN puts /\ Outstanding' = Outstanding

\* restoreState does this, whatever the order of the listens.
LEMMA RestoreFacts ==
  ASSUME ConnectionTypeOK, NEW rest \in Seq(RequestState), restoreState(rest)
  PROVE  Restored(rest)
<1> DEFINE ls == ListenRequests(Listening)
           ord == PutsInOrder(Outstanding)
           ps == [j \in DOMAIN ord |-> Request("put", ord[j], FALSE)]
           n == Cardinality(Listening)
           m == Cardinality(Outstanding)
<1>1. /\ inFlight' = (rest \o ls) \o ps /\ unackedListensCount' = unackedListensCount + n
      /\ puts' = [i \in DOMAIN puts |-> [puts[i] EXCEPT !.sent = @ \/ puts[i].out]]
  BY DEF restoreState
<1>2. ls \in Seq(RequestState) /\ Len(ls) = n /\ n \in Nat /\ DOMAIN ls = 1..n
      /\ \A i \in 1..n : ls[i].kind = "listen" /\ ~ls[i].restore
  <2>1. IsFiniteSet(Listening) /\ listens \in [Query -> Nat] /\ Listening \subseteq Query
    BY DEF ConnectionTypeOK, Listening
  <2>2. n \in Nat /\ SetToSeq(Listening) \in [1..n -> Listening]
    BY <2>1, SetToSeqFacts
  <2>3. ls = [j \in 1..n |-> Request("listen", <<SetToSeq(Listening)[j], listens[SetToSeq(Listening)[j]]>>, FALSE)]
    BY DEF ListenRequests
  <2>4. ASSUME NEW q \in Query, NEW k \in Nat
        PROVE  LET x == Request("listen", <<q, k>>, FALSE)
               IN  x \in RequestState /\ x.kind = "listen" /\ ~x.restore
    BY DEF Request, RequestState
  <2>5. ASSUME NEW j \in 1..n
        PROVE  ls[j] \in RequestState /\ ls[j].kind = "listen" /\ ~ls[j].restore
    <3> DEFINE q == SetToSeq(Listening)[j]
    <3>1. q \in Query /\ listens[q] \in Nat
      BY <2>1, <2>2
    <3>2. ls[j] = Request("listen", <<q, listens[q]>>, FALSE)
      BY <2>3
    <3> HIDE DEF q, ls
    <3> QED
      BY <2>4, <3>1, <3>2
  <2>6. ls \in [1..n -> RequestState]
    BY <2>3, <2>5
  <2> HIDE DEF ls, n
  <2> QED
    BY <2>2, <2>5, <2>6
<1>3. ps \in Seq(RequestState) /\ Len(ps) = m /\ m \in Nat /\ DOMAIN ps = 1..m
      /\ \A i \in 1..m : ps[i].kind = "put" /\ ~ps[i].restore /\ ps[i].arg = ord[i]
  <2>1. ord \in [1..m -> Outstanding] /\ m \in Nat /\ Outstanding \in SUBSET Nat
    BY OutstandingFacts, PutsInOrderFacts
  <2>2. ASSUME NEW p \in Nat
        PROVE  LET x == Request("put", p, FALSE)
               IN  x \in RequestState /\ x.kind = "put" /\ ~x.restore /\ x.arg = p
    BY DEF Request, RequestState
  <2> HIDE DEF ord, m
  <2>3. DOMAIN ps = 1..m /\ \A i \in 1..m : ps[i] = Request("put", ord[i], FALSE) /\ ord[i] \in Nat
    BY <2>1
  <2>4. \A i \in 1..m : ps[i] \in RequestState /\ ps[i].kind = "put" /\ ~ps[i].restore /\ ps[i].arg = ord[i]
    BY <2>2, <2>3
  <2>5. ps \in [1..m -> RequestState]
    BY <2>3, <2>4
  <2> HIDE DEF ps
  <2> QED
    BY <2>1, <2>4, <2>5
<1>4. /\ ord \in [1..m -> Outstanding] /\ Increasing(ord)
      /\ \A x \in Outstanding : \E i \in 1..m : ord[i] = x
  BY OutstandingFacts, PutsInOrderFacts
<1> HIDE DEF ls, ps, n, m, ord
<1> DEFINE a == rest \o ls
           u == a \o ps
           k == Len(rest)
<1>5. /\ a \in Seq(RequestState) /\ Len(a) = k + n /\ k \in Nat
      /\ \A i \in 1..k : a[i] = rest[i]
      /\ \A i \in 1..Len(a) : i <= k \/ (i - k \in 1..n /\ a[i] = ls[i - k])
  <2>1. a \in Seq(RequestState) /\ Joined(a, rest, ls)
    BY <1>2, JoinFacts
  <2> HIDE DEF a
  <2> QED
    BY <1>2, <2>1 DEF Joined
<1> HIDE DEF a, k
<1>6. /\ u \in Seq(RequestState) /\ Len(u) = k + n + m
      /\ \A i \in 1..Len(a) : u[i] = a[i]
      /\ \A i \in 1..m : u[k + n + i] = ps[i] /\ k + n + i \in 1..Len(u)
      /\ \A i \in 1..Len(u) : i <= k + n \/ (i - (k + n) \in 1..m /\ u[i] = ps[i - (k + n)])
      /\ DOMAIN u = 1..Len(u)
  <2>1. u \in Seq(RequestState) /\ Joined(u, a, ps)
    BY <1>3, <1>5, JoinFacts
  <2> HIDE DEF u
  <2> QED
    BY <1>3, <1>5, <2>1 DEF Joined
<1>7. /\ Cardinality(ListensIn(u)) = Cardinality(ListensIn(rest)) + n
  <2>1. Cardinality(ListensIn(ls)) = n /\ Cardinality(ListensIn(ps)) = 0
    BY <1>2, <1>3, ListensAll
  <2>2. Cardinality(ListensIn(a)) = Cardinality(ListensIn(rest)) + n
    BY <1>2, <2>1, ListensJoin DEF a
  <2>3. Cardinality(ListensIn(u)) = Cardinality(ListensIn(a)) + 0 /\ Cardinality(ListensIn(a)) \in Nat
    BY <1>3, <1>5, <2>1, ListensJoin
  <2> QED
    BY <2>2, <2>3
<1>8. inFlight' = u
  BY <1>1 DEF a
<1> HIDE DEF u
<1>9. ASSUME NEW i \in DOMAIN u, i > k
      PROVE  \/ u[i].kind = "listen" /\ ~u[i].restore /\ i <= k + n
             \/ /\ i - (k + n) \in 1..m /\ u[i].kind = "put" /\ ~u[i].restore
                /\ u[i].arg = ord[i - (k + n)] /\ ord[i - (k + n)] \in Outstanding
  <2>1. CASE i <= k + n
    <3>1. i \in 1..Len(a) /\ u[i] = a[i]
      BY <1>2, <1>5, <1>6, <1>9, <2>1
    <3>2. i - k \in 1..n /\ a[i] = ls[i - k]
      BY <1>5, <1>9, <3>1
    <3> QED
      BY <1>2, <2>1, <3>1, <3>2
  <2>2. CASE ~(i <= k + n)
    <3>1. i - (k + n) \in 1..m /\ u[i] = ps[i - (k + n)]
      BY <1>6, <2>2
    <3> QED
      BY <1>3, <1>4, <3>1
  <2> QED
    BY <2>1, <2>2
<1>10. ASSUME NEW i \in DOMAIN u, NEW j \in DOMAIN u, i > k, i < j,
              u[i].kind = "put", u[j].kind = "put"
       PROVE  u[i].arg < u[j].arg
  <2>1. k \in Nat /\ n \in Nat /\ i \in Int /\ j \in Int /\ j > k
    BY <1>2, <1>5, <1>6, <1>10
  <2>2. i - (k + n) \in 1..m /\ u[i].arg = ord[i - (k + n)]
    BY <1>9, <1>10
  <2>3. j - (k + n) \in 1..m /\ u[j].arg = ord[j - (k + n)]
    BY <1>9, <1>10, <2>1
  <2>4. i - (k + n) < j - (k + n)
    BY <1>10, <2>1
  <2>5. DOMAIN ord = 1..m
    BY <1>4
  <2> QED
    BY <1>4, <2>2, <2>3, <2>4, <2>5 DEF Increasing
<1>11. ASSUME NEW p \in Outstanding
       PROVE  \E i \in DOMAIN u : u[i].kind = "put" /\ u[i].arg = p
  <2>1. PICK i \in 1..m : ord[i] = p
    BY <1>4
  <2>2. k + n + i \in DOMAIN u /\ u[k + n + i] = ps[i]
    BY <1>6
  <2>3. ps[i].kind = "put" /\ ps[i].arg = p
    BY <1>3, <2>1
  <2> QED
    BY <2>2, <2>3
<1>12. \A i \in 1..k : u[i] = rest[i]
  BY <1>2, <1>5, <1>6
<1>13. Len(rest) \in 0..Len(u)
  BY <1>2, <1>3, <1>5, <1>6 DEF k
<1>14. /\ puts' \in Seq(PutState) /\ DOMAIN puts' = DOMAIN puts
       /\ \A i \in DOMAIN puts : puts'[i].out = puts[i].out
  <2>1. \A i \in DOMAIN puts : puts[i] \in PutState
    BY DEF ConnectionTypeOK
  <2>2. DOMAIN puts' = DOMAIN puts /\ DOMAIN puts = 1..Len(puts) /\ Len(puts) \in Nat
    BY <1>1, OutstandingFacts
  <2>3. \A i \in DOMAIN puts : puts'[i] \in PutState /\ puts'[i].out = puts[i].out
    BY <1>1, <2>1 DEF PutState
  <2>4. puts' \in [1..Len(puts) -> PutState]
    BY <1>1, <2>2, <2>3
  <2> QED
    BY <2>2, <2>3, <2>4
<1>15. Outstanding' = Outstanding
  BY <1>14 DEF Outstanding
<1>16. Cardinality(Listening) = n /\ n \in Nat
  BY <1>2 DEF n
<1>17. \A i \in DOMAIN u : i > k =>
         /\ u[i].kind \in {"listen", "put"} /\ ~u[i].restore
         /\ u[i].kind = "put" => u[i].arg \in Outstanding
  BY <1>9
<1>18. \A i, j \in DOMAIN u : i > k /\ i < j /\ u[i].kind = "put" /\ u[j].kind = "put" =>
         u[i].arg < u[j].arg
  BY <1>10
<1>19. unackedListensCount' = unackedListensCount + n /\ u \in Seq(RequestState)
  BY <1>1, <1>6
<1> QED
  BY <1>7, <1>8, <1>11, <1>12, <1>13, <1>14, <1>15, <1>16, <1>17, <1>18, <1>19 DEF Restored, k

\* A request is sent.
Sent(r) ==
  /\ r \in RequestState /\ inFlight' \in Seq(RequestState) /\ served' = served
  /\ Len(inFlight') = Len(inFlight) + 1
  /\ \A i \in 1..Len(inFlight) : inFlight'[i] = inFlight[i]
  /\ inFlight'[Len(inFlight) + 1] = r
  /\ Cardinality(ListensIn(inFlight')) =
       Cardinality(ListensIn(inFlight)) + (IF r.kind = "listen" THEN 1 ELSE 0)

\* A request that is appended is sent.
LEMMA SentFacts ==
  ASSUME ConnectionTypeOK, NEW r \in RequestState, inFlight' = Append(inFlight, r), served' = served
  PROVE  Sent(r)
<1>1. inFlight \in Seq(RequestState)
  BY DEF ConnectionTypeOK
<1> DEFINE t == Append(inFlight, r)
<1>2. /\ t \in Seq(RequestState) /\ Len(t) = Len(inFlight) + 1
      /\ \A i \in 1..Len(inFlight) : t[i] = inFlight[i]
      /\ t[Len(inFlight) + 1] = r
  BY <1>1, AppendFacts
<1>3. Cardinality(ListensIn(t)) =
        Cardinality(ListensIn(inFlight)) + (IF r.kind = "listen" THEN 1 ELSE 0)
  BY <1>1, ListensAppend
<1> HIDE DEF t
<1>4. inFlight' = t
  BY DEF t
<1> QED
  BY <1>2, <1>3, <1>4 DEF Sent

\* The answer of the oldest request is taken.
Taken(f) ==
  /\ f \in Seq(RequestState) /\ Len(f) = Len(inFlight) - 1 /\ Len(inFlight) \in Nat \ {0}
  /\ served \in 1..Len(inFlight) /\ Head(inFlight) = inFlight[1] /\ inFlight[1] \in RequestState
  /\ \A i \in 1..Len(f) : f[i] = inFlight[i + 1]
  /\ DOMAIN f = 1..Len(inFlight) - 1 /\ DOMAIN inFlight = 1..Len(inFlight)
  /\ Cardinality(ListensIn(inFlight)) =
       Cardinality(ListensIn(f)) + (IF inFlight[1].kind = "listen" THEN 1 ELSE 0)
  /\ Cardinality(ListensIn(f)) \in Nat

\* An answer takes the oldest request, once the server has handled one.
LEMMA TakenFacts ==
  ASSUME ConnectionTypeOK, served > 0
  PROVE  Taken(Tail(inFlight))
<1>1. inFlight \in Seq(RequestState) /\ served \in 1..Len(inFlight)
  BY DEF ConnectionTypeOK
<1>2. inFlight # << >>
  BY <1>1
<1> DEFINE t == Tail(inFlight)
<1>3. /\ Head(inFlight) = inFlight[1] /\ inFlight[1] \in RequestState
      /\ t \in Seq(RequestState) /\ Len(t) = Len(inFlight) - 1 /\ Len(inFlight) \in Nat \ {0}
      /\ \A i \in 1..Len(t) : t[i] = inFlight[i + 1]
      /\ DOMAIN inFlight = 1..Len(inFlight) /\ DOMAIN t = 1..Len(inFlight) - 1
  BY <1>1, <1>2, TailFacts
<1>4. /\ Cardinality(ListensIn(inFlight)) =
           Cardinality(ListensIn(t)) + (IF Head(inFlight).kind = "listen" THEN 1 ELSE 0)
      /\ Cardinality(ListensIn(t)) \in Nat
  BY <1>1, <1>2, ListensTail
<1> HIDE DEF t
<1>5. Taken(t)
  BY <1>1, <1>3, <1>4 DEF Taken
<1> QED
  BY <1>5 DEF t

\* The server handles a request.
Handles(n, ok) ==
  /\ n \in 1..Len(inFlight) /\ n = served + 1 /\ served' = n /\ ok \in BOOLEAN
  /\ inFlight' \in Seq(RequestState) /\ Len(inFlight') = Len(inFlight)
  /\ \A i \in 1..Len(inFlight) :
       /\ inFlight'[i].kind = inFlight[i].kind /\ inFlight'[i].arg = inFlight[i].arg
       /\ inFlight'[i].restore = inFlight[i].restore
       /\ inFlight'[i].ok = IF i = n THEN ok ELSE inFlight[i].ok
  /\ ListensIn(inFlight') = ListensIn(inFlight)
  /\ inFlight[n].kind = "unauth" => ok
  /\ serverAuth' = IF inFlight[n].kind \in {"auth", "unauth"} /\ ok
                   THEN inFlight[n].arg ELSE serverAuth
  /\ value' = IF inFlight[n].kind = "put" /\ ok THEN inFlight[n].arg ELSE value

\* The server handles the oldest request it has not handled.
LEMMA HandlesFacts ==
  ASSUME ConnectionTypeOK, NEW ok \in BOOLEAN, ServerHandles(ok)
  PROVE  Handles(served + 1, ok)
<1> DEFINE n == served + 1
           r == [inFlight[n] EXCEPT !.ok = ok]
<1>1. /\ inFlight \in Seq(RequestState) /\ served \in Nat /\ n \in 1..Len(inFlight) /\ served' = n
      /\ DOMAIN inFlight = 1..Len(inFlight)
      /\ inFlight' = [inFlight EXCEPT ![n] = r]
  BY DEF ConnectionTypeOK, ServerHandles
<1>2. inFlight[n] \in RequestState
  BY <1>1
<1>3. /\ r \in RequestState /\ r.ok = ok /\ r.kind = inFlight[n].kind
      /\ r.arg = inFlight[n].arg /\ r.restore = inFlight[n].restore
  BY <1>2 DEF RequestState
<1> HIDE DEF r, n
<1>4. /\ inFlight' \in Seq(RequestState) /\ Len(inFlight') = Len(inFlight)
      /\ \A i \in 1..Len(inFlight) : inFlight'[i] = IF i = n THEN r ELSE inFlight[i]
  BY <1>1, <1>3, ExceptSeq
<1>5. \A i \in 1..Len(inFlight) :
       /\ inFlight'[i].kind = inFlight[i].kind /\ inFlight'[i].arg = inFlight[i].arg
       /\ inFlight'[i].restore = inFlight[i].restore
       /\ inFlight'[i].ok = IF i = n THEN ok ELSE inFlight[i].ok
  BY <1>3, <1>4
<1>6. DOMAIN inFlight' = DOMAIN inFlight
  BY <1>1, <1>4
<1>7. ListensIn(inFlight') = ListensIn(inFlight)
  BY <1>1, <1>5, <1>6 DEF ListensIn
<1>8. /\ inFlight[n].kind = "unauth" => ok
      /\ serverAuth' = IF inFlight[n].kind \in {"auth", "unauth"} /\ ok
                       THEN inFlight[n].arg ELSE serverAuth
      /\ value' = IF inFlight[n].kind = "put" /\ ok THEN inFlight[n].arg ELSE value
  BY DEF ServerHandles, n
<1>9. Handles(n, ok)
  BY <1>1, <1>4, <1>5, <1>7, <1>8 DEF Handles, n
<1> QED
  BY <1>9 DEF n

-----------------------------------------------------------------------------
(* What the steps do.                                                      *)

\* The requests the program makes.
LEMMA RequestTyped ==
  /\ \A q \in Query, n \in Nat : Request("listen", <<q, n>>, FALSE) \in RequestState
  /\ \A p \in Nat : Request("put", p, FALSE) \in RequestState
  /\ \A u \in DbUser, b \in BOOLEAN : Request("auth", u, b) \in RequestState
  /\ Request("unauth", NoUser, FALSE) \in RequestState
BY DEF Request, RequestState

\* A step changes nothing that is kept or sent, or it is one of these.
LEMMA Kinds ==
  ASSUME ConnectionTypeOK, Linked, [ConnectionNext]_connectionVars
  PROVE  \/ Still
         \/ \E S, t : Lost(S, t)
         \/ onReady
         \/ \E q \in Query : listen(q) /\ connected
         \/ \E hash \in BOOLEAN : put(hash)
         \/ \E u \in MaybeUser : refreshAuthToken(u) /\ connected
         \/ \E ok \in BOOLEAN : ServerHandles(ok)
         \/ AuthAnswered /\ Head(inFlight).ok
         \/ UnauthAnswered \/ ListenAnswered \/ PutAnswered \/ purgeOutstandingWrites
<1> USE DEF Still
<1>1. ASSUME NEW r, interruptForReason(r) PROVE Still \/ \E S, t : Lost(S, t)
  <2>1. CASE realtime
    BY <1>1, <2>1, DisconnectsFacts DEF interruptForReason
  <2>2. CASE ~realtime
    BY <1>1, <2>2 DEF interruptForReason, realtime, connected, serverVars
  <2> QED
    BY <2>1, <2>2
<1>2. CASE Interrupt
  BY <1>1, <1>2 DEF Interrupt
<1>3. CASE onKill
  BY <1>1, <1>3 DEF onKill
<1>4. CASE Reachable
  BY <1>4 DEF Reachable, serverVars
<1>5. CASE Retry
  BY <1>5 DEF Retry, serverVars, connected, Linked
<1>6. ASSUME NEW r \in {"waiting_for_open", "repo_interrupt"}, resumeForReason(r) PROVE Still
  BY <1>6 DEF resumeForReason, serverVars
<1>7. ASSUME NEW ok \in BOOLEAN, TokenFetched(ok) PROVE Still
  BY <1>7 DEF TokenFetched, serverVars, connected, Linked
<1>8. CASE onDisconnect
  BY <1>8, DisconnectsFacts DEF onDisconnect
<1>9. CASE onAuthRevoked
  BY <1>9, DisconnectsFacts DEF onAuthRevoked
<1>10. ASSUME NEW q \in Query, listen(q) PROVE Still \/ connected
  BY <1>10 DEF listen, linkVars, serverVars
<1>11. ASSUME NEW q \in Query, unlisten(q) PROVE Still
  BY <1>11 DEF unlisten, linkVars, serverVars
<1>12. ASSUME NEW u \in MaybeUser, refreshAuthToken(u) PROVE Still \/ connected
  BY <1>12 DEF refreshAuthToken, linkVars, serverVars
<1>13. CASE AuthAnswered
  BY <1>13, DisconnectsFacts DEF AuthAnswered
<1>14. CASE UNCHANGED connectionVars
  BY <1>14 DEF connectionVars
<1> QED
  BY <1>2, <1>3, <1>4, <1>5, <1>6, <1>7, <1>8, <1>9, <1>10, <1>11, <1>12, <1>13, <1>14
     DEF ConnectionNext, MaybeUser

\* An address for a listen.
LEMMA FreshAddress ==
  ASSUME NEW S, IsFiniteSet(S)
  PROVE  \E n \in 1..Cardinality(S) + 1 : n \notin S
<1> DEFINE k == Cardinality(S)
<1>1. k \in Nat
  BY FS_CardinalityType
<1>2. Cardinality(1..k + 1) = k + 1
  <2> HIDE DEF k
  <2>1. Cardinality(1..k + 1) = IF 1 > k + 1 THEN 0 ELSE (k + 1) - 1 + 1
    BY <1>1, FS_Interval, k + 1 \in Int
  <2> QED
    BY <1>1, <2>1
<1>3. ASSUME 1..k + 1 \subseteq S PROVE FALSE
  <2>1. Cardinality(1..k + 1) <= Cardinality(S)
    <3>1. 1..k + 1 \in SUBSET S
      BY <1>3
    <3> HIDE DEF k
    <3> QED
      BY <3>1, FS_Subset
  <2> QED
    BY <1>1, <1>2, <2>1
<1> QED
  BY <1>3

\* The state of the connection, its tokens and listens.
LinkTypes ==
  /\ connectionState \in LinkState /\ scheduledRetry \in BOOLEAN
  /\ interruptReasons \subseteq {"waiting_for_open", "repo_interrupt", "server_kill"}
  /\ fetch \in [on : BOOLEAN, user : MaybeUser]
  /\ authToken \in MaybeUser /\ authUser \in MaybeUser /\ overtaken \in BOOLEAN
  /\ listens \in [Query -> Nat] /\ IsFiniteSet(Listening)

\* listen finds an address, so that the listens stay finite and typed.
LEMMA ListenTyped ==
  ASSUME ConnectionTypeOK, NEW q \in Query, listen(q)
  PROVE  /\ listens' \in [Query -> Nat] /\ IsFiniteSet(Listening')
         /\ connected => inFlight' = Append(inFlight, Request("listen", <<q, listens'[q]>>, FALSE))
<1> DEFINE A == {listens[p] : p \in Query}
           B == {inFlight[i].arg[2] : i \in RequestsOf("listen")}
           used == A \cup B
           new == CHOOSE n \in 1..Cardinality(used) + 1 : n \notin used
<1>1. listens \in [Query -> Nat] /\ IsFiniteSet(Listening) /\ Listening \subseteq Query
  BY DEF ConnectionTypeOK, Listening
<1>2. IsFiniteSet(A)
  <2> DEFINE f == [p \in Listening |-> listens[p]]
             C == {listens[p] : p \in Listening}
  <2>1. f \in Surjection(Listening, C)
    BY DEF Surjection
  <2>2. IsFiniteSet(C)
    BY <1>1, <2>1, FS_Surjection
  <2>3. A \subseteq C \cup {0}
    BY DEF Listening
  <2>4. IsFiniteSet(C \cup {0})
    BY <2>2, FS_AddElement
  <2> QED
    BY <2>3, <2>4, FS_Subset
<1>3. IsFiniteSet(B)
  <2> DEFINE L == RequestsOf("listen")
             f == [i \in L |-> inFlight[i].arg[2]]
  <2>1. f \in Surjection(L, B)
    BY DEF Surjection
  <2>2. IsFiniteSet(L)
    <3>1. L = ListensIn(inFlight)
      BY DEF RequestsOf, ListensIn
    <3>2. inFlight \in Seq(RequestState)
      BY DEF ConnectionTypeOK
    <3> QED
      BY <3>1, <3>2, ListensMoved
  <2> QED
    BY <2>1, <2>2, FS_Surjection
<1>4. IsFiniteSet(used)
  BY <1>2, <1>3, FS_Union
<1>5. new \in Nat
  <2> HIDE DEF used
  <2>1. Cardinality(used) \in Nat
    BY <1>4, FS_CardinalityType
  <2>2. new \in 1..Cardinality(used) + 1
    BY <1>4, FreshAddress
  <2> QED
    BY <2>1, <2>2
<1>6. /\ listens' = [listens EXCEPT ![q] = new]
      /\ connected => inFlight' = Append(inFlight, Request("listen", <<q, new>>, FALSE))
  BY DEF listen
<1> HIDE DEF new
<1>7. listens' \in [Query -> Nat] /\ listens'[q] = new
  BY <1>1, <1>5, <1>6
<1>8. Listening' \subseteq Listening \cup {q}
  BY <1>1, <1>6 DEF Listening
<1>9. IsFiniteSet(Listening')
  BY <1>1, <1>8, FS_AddElement, FS_Subset
<1> QED
  BY <1>6, <1>7, <1>9

\* Every step keeps them of their types.
LEMMA LinkTypesKept ==
  ASSUME ConnectionTypeOK, Linked, [ConnectionNext]_connectionVars
  PROVE  LinkTypes'
<1>1. LinkTypes
  BY DEF ConnectionTypeOK, LinkTypes
<1> USE DEF LinkTypes
<1>2. ASSUME UNCHANGED listens PROVE listens' \in [Query -> Nat] /\ IsFiniteSet(Listening')
  <2>1. Listening' = Listening
    BY <1>2 DEF Listening
  <2> QED
    BY <1>1, <1>2, <2>1
<1>3. ASSUME NEW q \in Query, NEW b, listens' = IF b THEN [listens EXCEPT ![q] = 0] ELSE listens
      PROVE  listens' \in [Query -> Nat] /\ IsFiniteSet(Listening')
  <2>1. listens' \in [Query -> Nat]
    BY <1>1, <1>3
  <2>2. Listening' \subseteq Listening
    BY <1>1, <1>3 DEF Listening
  <2> QED
    BY <1>1, <2>1, <2>2, FS_Subset
<1>4. ASSUME NEW reasons, Disconnects(reasons)
      PROVE  connectionState' \in LinkState /\ scheduledRetry' \in BOOLEAN
  BY <1>1, <1>4 DEF Disconnects, tryScheduleReconnect, LinkState
<1>5. ASSUME NEW r \in {"repo_interrupt", "server_kill"}, interruptForReason(r) PROVE LinkTypes'
  BY <1>1, <1>2, <1>4, <1>5 DEF interruptForReason, LinkState
<1>6. CASE Interrupt
  BY <1>5, <1>6 DEF Interrupt
<1>7. CASE onKill
  BY <1>5, <1>7 DEF onKill
<1>8. CASE Reachable
  BY <1>1, <1>2, <1>8 DEF Reachable, tryScheduleReconnect
<1>9. CASE Retry
  BY <1>1, <1>2, <1>9 DEF Retry, LinkState
<1>10. ASSUME NEW r \in {"waiting_for_open", "repo_interrupt"}, resumeForReason(r) PROVE LinkTypes'
  BY <1>1, <1>2, <1>10 DEF resumeForReason, tryScheduleReconnect
<1>11. ASSUME NEW ok \in BOOLEAN, TokenFetched(ok) PROVE LinkTypes'
  BY <1>1, <1>2, <1>11 DEF TokenFetched, tryScheduleReconnect, LinkState, NoFetch, MaybeUser
<1>12. CASE onReady
  BY <1>1, <1>2, <1>12 DEF onReady, LinkState
<1>13. CASE onDisconnect
  BY <1>1, <1>2, <1>4, <1>13 DEF onDisconnect
<1>14. CASE onAuthRevoked
  BY <1>1, <1>2, <1>4, <1>14 DEF onAuthRevoked, MaybeUser
<1>15. ASSUME NEW q \in Query, listen(q) PROVE LinkTypes'
  BY <1>1, <1>15, ListenTyped DEF listen, linkVars
<1>16. ASSUME NEW q \in Query, unlisten(q) PROVE LinkTypes'
  BY <1>1, <1>3, <1>16 DEF unlisten, linkVars
<1>17. ASSUME NEW hash \in BOOLEAN, put(hash) PROVE LinkTypes'
  BY <1>1, <1>2, <1>17 DEF put, linkVars
<1>18. ASSUME NEW u \in DbUser \cup {NoUser}, refreshAuthToken(u) PROVE LinkTypes'
  BY <1>1, <1>2, <1>18 DEF refreshAuthToken, linkVars, MaybeUser
<1>19. ASSUME NEW ok \in BOOLEAN, ServerHandles(ok) PROVE LinkTypes'
  BY <1>1, <1>2, <1>19 DEF ServerHandles, linkVars
<1>20. CASE AuthAnswered
  <2>1. CASE Head(inFlight).ok
    BY <1>1, <1>2, <1>20, <2>1 DEF AuthAnswered, LinkState
  <2>2. CASE ~Head(inFlight).ok
    BY <1>1, <1>2, <1>4, <1>20, <2>2 DEF AuthAnswered, MaybeUser
  <2> QED
    BY <2>1, <2>2
<1>21. CASE UnauthAnswered
  BY <1>1, <1>2, <1>21 DEF UnauthAnswered, linkVars
<1>22. CASE ListenAnswered
  <2>1. served > 0 /\ Head(inFlight).kind = "listen"
    BY <1>22 DEF ListenAnswered, Reply
  <2>2. Head(inFlight) \in RequestState
    BY <2>1, TakenFacts DEF Taken
  <2>3. Head(inFlight).arg[1] \in Query
    BY <2>1, <2>2 DEF RequestState
  <2>4. listens' \in [Query -> Nat] /\ IsFiniteSet(Listening')
    BY <1>3, <1>22, <2>3 DEF ListenAnswered
  <2> QED
    BY <1>1, <1>22, <2>4 DEF ListenAnswered, linkVars
<1>23. CASE PutAnswered
  BY <1>1, <1>2, <1>23 DEF PutAnswered, linkVars
<1>24. CASE purgeOutstandingWrites
  BY <1>1, <1>2, <1>24 DEF purgeOutstandingWrites, linkVars
<1>25. CASE UNCHANGED connectionVars
  BY <1>1, <1>2, <1>25 DEF connectionVars
<1> QED
  BY <1>6, <1>7, <1>8, <1>9, <1>10, <1>11, <1>12, <1>13, <1>14, <1>15, <1>16, <1>17, <1>18,
     <1>19, <1>20, <1>21, <1>22, <1>23, <1>24, <1>25 DEF ConnectionNext

\* What is in flight is on a connection.
LEMMA InFlightConnected ==
  ASSUME ConnectionTypeOK, Linked
  PROVE  /\ served \in Nat /\ Len(inFlight) \in Nat /\ served <= Len(inFlight)
         /\ DOMAIN inFlight = 1..Len(inFlight)
         /\ \A i \in DOMAIN inFlight : connected /\ inFlight[i] \in RequestState
         /\ served > 0 => connected
<1>1. /\ inFlight \in Seq(RequestState) /\ served \in 0..Len(inFlight)
  BY DEF ConnectionTypeOK
<1>2. /\ DOMAIN inFlight = 1..Len(inFlight) /\ Len(inFlight) \in Nat
      /\ served \in Nat /\ served <= Len(inFlight)
  BY <1>1
<1>3. ~connected => Len(inFlight) = 0
  BY DEF Linked
<1>4. \A i \in DOMAIN inFlight : inFlight[i] \in RequestState
  BY <1>1
<1> QED
  BY <1>2, <1>3, <1>4

\* Only the request that restores the session is asked of it.
LEMMA HeadWhenConnected ==
  ASSUME ConnectionTypeOK, Linked, Restoring, served > 0
  PROVE  /\ Head(inFlight) = inFlight[1] /\ 1 \in DOMAIN inFlight
         /\ connectionState = "Authenticating" <=> inFlight[1].restore
         /\ connectionState = "Connected" <=> ~inFlight[1].restore
         /\ inFlight[1].restore => inFlight[1].kind = "auth"
<1>1. Taken(Tail(inFlight))
  BY TakenFacts
<1>2. 1 \in DOMAIN inFlight /\ inFlight[1] \in RequestState
  BY <1>1 DEF Taken
<1>3. inFlight[1].restore \in BOOLEAN /\ (inFlight[1].restore => inFlight[1].kind = "auth")
  BY <1>2 DEF RequestState
<1>4. connected
  BY InFlightConnected
<1> QED
  BY <1>1, <1>2, <1>3, <1>4 DEF Taken, Restoring, connected

\* An answer is taken and nothing is restored.
Takes ==
  /\ Taken(inFlight') /\ served' = served - 1
  /\ connectionState = "Connected" /\ connectionState' = "Connected" /\ ~inFlight[1].restore
  /\ serverAuth' = serverAuth /\ value' = value

\* Every answer does, but the one that restores the session.
LEMMA TakesFacts ==
  ASSUME ConnectionTypeOK, Linked, Restoring,
         \/ UnauthAnswered \/ ListenAnswered \/ PutAnswered
         \/ AuthAnswered /\ Head(inFlight).ok /\ ~Head(inFlight).restore
  PROVE  Takes
<1>1. served > 0
  BY DEF UnauthAnswered, ListenAnswered, PutAnswered, AuthAnswered, Reply
<1>2. /\ Taken(Tail(inFlight)) /\ Head(inFlight) = inFlight[1]
      /\ connectionState = "Connected" <=> ~inFlight[1].restore
      /\ inFlight[1].restore => inFlight[1].kind = "auth"
  BY <1>1, TakenFacts, HeadWhenConnected
<1>3. inFlight' = Tail(inFlight) /\ served' = served - 1 /\ serverAuth' = serverAuth /\ value' = value
  BY DEF UnauthAnswered, ListenAnswered, PutAnswered, AuthAnswered
<1>4. ~inFlight[1].restore
  BY <1>2 DEF UnauthAnswered, ListenAnswered, PutAnswered, Reply
<1>5. connectionState' = "Connected"
  BY <1>2, <1>4 DEF UnauthAnswered, ListenAnswered, PutAnswered, AuthAnswered, linkVars
<1> QED
  BY <1>2, <1>3, <1>4, <1>5 DEF Takes

\* The session is restored, or there is none; rest was sent since.
Restores(rest) ==
  /\ Restored(rest) /\ connectionState' = "Connected" /\ rest \in Seq(RequestState)
  /\ UNCHANGED <<told, putsToAck, value, serverAuth, authToken, authUser, overtaken>>
  /\ served' \in 0..Len(rest)
  /\ \A i \in 1..Len(rest) : rest[i].kind # "put" /\ ~rest[i].restore
  /\ \/ /\ connectionState = "Connecting" /\ authToken = NoUser
        /\ rest = << >> /\ inFlight = << >> /\ served' = 0
     \/ /\ connectionState = "Authenticating" /\ Taken(rest) /\ served' = served - 1
        /\ inFlight[1].kind = "auth" /\ inFlight[1].ok

\* onReady without a token, and the answer to the session's token.
LEMMA RestoresFacts ==
  ASSUME ConnectionTypeOK, Linked, Restoring,
         \/ onReady /\ authToken = NoUser
         \/ AuthAnswered /\ Head(inFlight).ok /\ Head(inFlight).restore
  PROVE  \E rest : Restores(rest)
<1>1. CASE onReady /\ authToken = NoUser
  <2>1. /\ connectionState = "Connecting" /\ connectionState' = "Connected" /\ restoreState(inFlight)
        /\ UNCHANGED <<told, putsToAck, value, serverAuth, authToken, authUser, overtaken>>
        /\ served' = served
    BY <1>1 DEF onReady, serverVars
  <2>2. inFlight = << >> /\ Len(inFlight) = 0 /\ served = 0
    <3>1. inFlight = << >>
      BY <2>1 DEF Linked, connected
    <3>2. served \in 0..Len(inFlight)
      BY DEF ConnectionTypeOK
    <3> QED
      BY <3>1, <3>2
  <2>3. inFlight \in Seq(RequestState)
    BY DEF ConnectionTypeOK
  <2>4. Restored(inFlight)
    BY <2>1, <2>3, RestoreFacts
  <2>5. Restores(inFlight)
    BY <1>1, <2>1, <2>2, <2>3, <2>4 DEF Restores
  <2> QED
    BY <2>5
<1>2. CASE AuthAnswered /\ Head(inFlight).ok /\ Head(inFlight).restore
  <2> DEFINE f == Tail(inFlight)
  <2>1. /\ served > 0 /\ Head(inFlight).kind = "auth" /\ restoreState(f) /\ served' = served - 1
        /\ UNCHANGED <<told, putsToAck, value, serverAuth, authToken, authUser, overtaken>>
        /\ connectionState' = "Connected"
    BY <1>2 DEF AuthAnswered, Reply
  <2>2. Taken(f)
    BY <2>1, TakenFacts
  <2>3. connectionState = "Authenticating"
    BY <1>2, <2>1, HeadWhenConnected
  <2> HIDE DEF f
  <2>4. f \in Seq(RequestState) /\ Head(inFlight) = inFlight[1]
    BY <2>2 DEF Taken
  <2>5. Restored(f)
    BY <2>1, <2>4, RestoreFacts
  <2>6. ASSUME NEW i \in 1..Len(f) PROVE f[i].kind # "put" /\ ~f[i].restore
    <3>1. f[i] = inFlight[i + 1] /\ i + 1 \in DOMAIN inFlight /\ i + 1 # 1
      BY <2>2 DEF Taken
    <3> QED
      BY <2>3, <3>1 DEF Restoring, RequestsOf
  <2>7. served' \in 0..Len(f)
    BY <2>1, <2>2 DEF Taken
  <2>8. Restores(f)
    BY <1>2, <2>1, <2>2, <2>3, <2>4, <2>5, <2>6, <2>7 DEF Restores
  <2> QED
    BY <2>8
<1> QED
  BY <1>1, <1>2

\* The session's token is sent first.
LEMMA BeginsFacts ==
  ASSUME ConnectionTypeOK, Linked, onReady, authToken # NoUser
  PROVE  /\ Sent(Request("auth", authToken, TRUE)) /\ connectionState' = "Authenticating"
         /\ connectionState = "Connecting" /\ inFlight = << >> /\ served = 0 /\ Len(inFlight) = 0
         /\ UNCHANGED <<puts, putsToAck, unackedListensCount, told, serverAuth, value,
                        authToken, authUser, overtaken>>
<1>1. authToken \in DbUser
  BY DEF ConnectionTypeOK, MaybeUser
<1>2. Request("auth", authToken, TRUE) \in RequestState
  BY <1>1, RequestTyped
<1>3. /\ connectionState = "Connecting" /\ connectionState' = "Authenticating"
      /\ inFlight' = Append(inFlight, Request("auth", authToken, TRUE)) /\ served' = served
      /\ UNCHANGED <<puts, putsToAck, unackedListensCount, told, serverAuth, value,
                     authToken, authUser, overtaken>>
  BY DEF onReady, serverVars
<1>4. inFlight = << >>
  BY <1>3 DEF Linked, connected
<1>5. served \in 0..Len(inFlight)
  BY DEF ConnectionTypeOK
<1>6. Sent(Request("auth", authToken, TRUE))
  BY <1>2, <1>3, SentFacts
<1>7. Len(inFlight) = 0 /\ served = 0
  BY <1>4, <1>5
<1> QED
  BY <1>3, <1>4, <1>6, <1>7

\* A request is sent on the connection as it is.
Sends(r) ==
  /\ Sent(r) /\ connected /\ connectionState' = connectionState
  /\ ~r.restore /\ ~r.ok /\ serverAuth' = serverAuth /\ value' = value
  /\ r.kind = "put" => connectionState = "Connected"

\* listen, refreshAuthToken and put on a connection that is there.
LEMMA SendsFacts ==
  ASSUME ConnectionTypeOK
  PROVE  /\ \A q \in Query : listen(q) /\ connected =>
              \E n \in Nat : Sends(Request("listen", <<q, n>>, FALSE))
         /\ \A u \in MaybeUser : refreshAuthToken(u) /\ connected =>
              Sends(Request(IF u = NoUser THEN "unauth" ELSE "auth", u, FALSE))
         /\ \A hash \in BOOLEAN : put(hash) /\ canSendWrites =>
              Sends(Request("put", Len(puts) + 1, FALSE))
<1>1. ASSUME NEW q \in Query, listen(q), connected
      PROVE  \E n \in Nat : Sends(Request("listen", <<q, n>>, FALSE))
  <2> DEFINE n == listens'[q]
             r == Request("listen", <<q, n>>, FALSE)
  <2>1. n \in Nat /\ inFlight' = Append(inFlight, r)
    BY <1>1, ListenTyped
  <2>2. r \in RequestState /\ ~r.restore /\ ~r.ok /\ r.kind # "put"
    BY <2>1, RequestTyped DEF Request
  <2>3. /\ served' = served /\ connectionState' = connectionState
        /\ serverAuth' = serverAuth /\ value' = value
    BY <1>1 DEF listen, linkVars, serverVars
  <2> HIDE DEF n, r
  <2>4. Sends(r)
    BY <1>1, <2>1, <2>2, <2>3, SentFacts DEF Sends
  <2> QED
    BY <2>1, <2>4 DEF r
<1>2. ASSUME NEW u \in MaybeUser, refreshAuthToken(u), connected
      PROVE  Sends(Request(IF u = NoUser THEN "unauth" ELSE "auth", u, FALSE))
  <2> DEFINE r == Request(IF u = NoUser THEN "unauth" ELSE "auth", u, FALSE)
  <2>1. inFlight' = Append(inFlight, r)
    BY <1>2 DEF refreshAuthToken
  <2>2. r \in RequestState /\ ~r.restore /\ ~r.ok /\ r.kind # "put"
    BY RequestTyped DEF Request, MaybeUser
  <2>3. /\ served' = served /\ connectionState' = connectionState
        /\ serverAuth' = serverAuth /\ value' = value
    BY <1>2 DEF refreshAuthToken, linkVars, serverVars
  <2> HIDE DEF r
  <2>4. Sends(r)
    BY <1>2, <2>1, <2>2, <2>3, SentFacts DEF Sends
  <2> QED
    BY <2>4 DEF r
<1>3. ASSUME NEW hash \in BOOLEAN, put(hash), canSendWrites
      PROVE  Sends(Request("put", Len(puts) + 1, FALSE))
  <2> DEFINE r == Request("put", Len(puts) + 1, FALSE)
  <2>1. Len(puts) \in Nat /\ Len(puts') = Len(puts) + 1
    BY <1>3, AppendFacts DEF put, ConnectionTypeOK, PutState
  <2>2. inFlight' = Append(inFlight, r)
    BY <1>3, <2>1 DEF put
  <2>3. r \in RequestState /\ ~r.restore /\ ~r.ok
    BY <2>1, RequestTyped DEF Request
  <2>4. /\ served' = served /\ connectionState' = connectionState
        /\ serverAuth' = serverAuth /\ value' = value
    BY <1>3 DEF put, linkVars, serverVars
  <2> HIDE DEF r
  <2>5. Sends(r)
    BY <1>3, <2>2, <2>3, <2>4, SentFacts DEF Sends, canSendWrites, connected
  <2> QED
    BY <2>5 DEF r
<1> QED
  BY <1>1, <1>2, <1>3

-----------------------------------------------------------------------------
(* The connection and its first request.                                   *)

\* A connection that is lost takes its requests with it, and a retry and a
\* token are awaited only before the next one.
LEMMA LinkedKept ==
  ASSUME ConnectionTypeOK, Linked, [ConnectionNext]_connectionVars
  PROVE  Linked'
<1> USE DEF Linked, connected
<1>1. ASSUME NEW reasons, Disconnects(reasons)
      PROVE  inFlight' = << >> /\ serverAuth' = NoUser /\ connectionState' = "Disconnected"
  BY <1>1 DEF Disconnects
<1>2. ASSUME NEW r, interruptForReason(r) PROVE Linked'
  BY <1>1, <1>2 DEF interruptForReason, serverVars, realtime
<1>3. CASE Interrupt
  BY <1>2, <1>3 DEF Interrupt
<1>4. CASE onKill
  BY <1>2, <1>4 DEF onKill
<1>5. CASE Reachable
  BY <1>5 DEF Reachable, serverVars
<1>6. CASE Retry
  BY <1>6 DEF Retry, serverVars
<1>7. ASSUME NEW r \in {"waiting_for_open", "repo_interrupt"}, resumeForReason(r) PROVE Linked'
  BY <1>7 DEF resumeForReason, serverVars
<1>8. ASSUME NEW ok \in BOOLEAN, TokenFetched(ok) PROVE Linked'
  BY <1>8 DEF TokenFetched, serverVars, NoFetch
<1>9. CASE onReady
  BY <1>9 DEF onReady
<1>10. CASE onDisconnect
  BY <1>1, <1>10 DEF onDisconnect
<1>11. CASE onAuthRevoked
  BY <1>1, <1>11 DEF onAuthRevoked
<1>12. ASSUME NEW q \in Query, listen(q) PROVE Linked'
  BY <1>12 DEF listen, linkVars, serverVars
<1>13. ASSUME NEW q \in Query, unlisten(q) PROVE Linked'
  BY <1>13 DEF unlisten, linkVars, serverVars
<1>14. ASSUME NEW hash \in BOOLEAN, put(hash) PROVE Linked'
  BY <1>14 DEF put, linkVars, serverVars, canSendWrites
<1>15. ASSUME NEW u \in DbUser \cup {NoUser}, refreshAuthToken(u) PROVE Linked'
  BY <1>15 DEF refreshAuthToken, linkVars, serverVars
<1>16. ASSUME NEW ok \in BOOLEAN, ServerHandles(ok) PROVE Linked'
  BY <1>16, InFlightConnected DEF ServerHandles, linkVars
<1>17. CASE AuthAnswered
  <2>1. connected
    BY <1>17, InFlightConnected DEF AuthAnswered, Reply
  <2> QED
    BY <1>1, <1>17, <2>1 DEF AuthAnswered
<1>18. CASE UnauthAnswered \/ ListenAnswered \/ PutAnswered
  <2>1. connected
    BY <1>18, InFlightConnected DEF UnauthAnswered, ListenAnswered, PutAnswered, Reply
  <2> QED
    BY <1>18, <2>1 DEF UnauthAnswered, ListenAnswered, PutAnswered, linkVars
<1>19. CASE purgeOutstandingWrites
  BY <1>19 DEF purgeOutstandingWrites, linkVars, serverVars
<1>20. CASE UNCHANGED connectionVars
  BY <1>20 DEF connectionVars
<1> QED
  BY <1>3, <1>4, <1>5, <1>6, <1>7, <1>8, <1>9, <1>10, <1>11, <1>12, <1>13, <1>14, <1>15, <1>16,
     <1>17, <1>18, <1>19, <1>20 DEF ConnectionNext

\* What the steps do to the requests in flight.
Flight(rest) ==
  \/ Still
  \/ UNCHANGED <<inFlight, served, connectionState, serverAuth, value, unackedListensCount>>
  \/ /\ connectionState' = "Disconnected" /\ inFlight' = << >> /\ served' = 0
     /\ serverAuth' = NoUser /\ value' = value
  \/ onReady /\ authToken # NoUser
  \/ \E r \in RequestState : Sends(r)
  \/ \E n, ok : Handles(n, ok) /\ connectionState' = connectionState
  \/ Takes
  \/ Restores(rest)

\* Every step does one of these to them.
LEMMA FlightFacts ==
  ASSUME ConnectionTypeOK, Linked, Restoring, [ConnectionNext]_connectionVars
  PROVE  \E rest : Flight(rest)
<1> USE DEF Flight
<1>1. CASE \E S, t : Lost(S, t)
  BY <1>1 DEF Lost
<1>2. CASE onReady
  BY <1>2, RestoresFacts
<1>3. ASSUME NEW q \in Query, listen(q), connected PROVE \E r \in RequestState : Sends(r)
  BY <1>3, SendsFacts, RequestTyped
<1>4. ASSUME NEW hash \in BOOLEAN, put(hash) PROVE \E rest : Flight(rest)
  <2>1. CASE canSendWrites
    <3>1. Len(puts) + 1 \in Nat
      BY DEF ConnectionTypeOK
    <3> QED
      BY <1>4, <2>1, <3>1, SendsFacts, RequestTyped
  <2>2. CASE ~canSendWrites
    BY <1>4, <2>2 DEF put, linkVars, serverVars
  <2> QED
    BY <2>1, <2>2
<1>5. ASSUME NEW u \in MaybeUser, refreshAuthToken(u), connected PROVE \E r \in RequestState : Sends(r)
  <2>1. Request(IF u = NoUser THEN "unauth" ELSE "auth", u, FALSE) \in RequestState
    BY RequestTyped DEF MaybeUser
  <2> QED
    BY <1>5, <2>1, SendsFacts
<1>6. ASSUME NEW ok \in BOOLEAN, ServerHandles(ok)
      PROVE  Handles(served + 1, ok) /\ connectionState' = connectionState
  BY <1>6, HandlesFacts DEF ServerHandles, linkVars
<1>7. CASE AuthAnswered /\ Head(inFlight).ok
  BY <1>7, TakesFacts, RestoresFacts
<1>8. CASE UnauthAnswered \/ ListenAnswered \/ PutAnswered
  BY <1>8, TakesFacts
<1>9. CASE purgeOutstandingWrites
  BY <1>9 DEF purgeOutstandingWrites, linkVars, serverVars
<1> QED
  BY <1>1, <1>2, <1>3, <1>4, <1>5, <1>6, <1>7, <1>8, <1>9, Kinds

\* What restores the session stays the first request, and nothing is written
\* before it is answered.
LEMMA RestoringKept ==
  ASSUME ConnectionTypeOK, Linked, Restoring, [ConnectionNext]_connectionVars
  PROVE  Restoring'
<1>1. PICK rest : Flight(rest)
  BY FlightFacts
<1>2. /\ DOMAIN inFlight = 1..Len(inFlight) /\ Len(inFlight) \in Nat
      /\ \A i \in DOMAIN inFlight : connected /\ inFlight[i] \in RequestState
  BY InFlightConnected
<1> USE DEF Restoring, RequestsOf
<1>3. CASE Still
  <2>1. CASE connectionState' = connectionState
    BY <1>3, <2>1 DEF Still
  <2>2. CASE ~connected /\ ~connected'
    BY <1>3, <2>2 DEF Still, Linked, connected
  <2> QED
    BY <1>3, <2>1, <2>2 DEF Still
<1>4. CASE UNCHANGED <<inFlight, served, connectionState, serverAuth, value, unackedListensCount>>
  BY <1>4
<1>5. CASE connectionState' = "Disconnected" /\ inFlight' = << >> /\ served' = 0
  BY <1>5
<1>6. CASE onReady /\ authToken # NoUser
  <2> DEFINE r == Request("auth", authToken, TRUE)
  <2>1. Sent(r) /\ connectionState' = "Authenticating" /\ Len(inFlight) = 0
    BY <1>6, BeginsFacts
  <2>2. r.restore /\ r.kind = "auth"
    BY DEF Request
  <2> HIDE DEF r
  <2>3. DOMAIN inFlight' = 1..1 /\ inFlight'[1] = r
    BY <2>1 DEF Sent
  <2> QED
    BY <2>1, <2>2, <2>3
<1>7. ASSUME NEW r \in RequestState, Sends(r) PROVE Restoring'
  <2>1. /\ DOMAIN inFlight' = 1..Len(inFlight) + 1 /\ inFlight'[Len(inFlight) + 1] = r
        /\ \A i \in 1..Len(inFlight) : inFlight'[i] = inFlight[i]
        /\ ~r.restore /\ connected /\ connectionState' = connectionState
    BY <1>7 DEF Sends, Sent
  <2>2. connectionState = "Authenticating" => Len(inFlight) # 0 /\ r.kind # "put"
    BY <1>2, <1>7 DEF Sends
  <2>3. \A i \in DOMAIN inFlight' : inFlight'[i].restore <=> connectionState' = "Authenticating" /\ i = 1
    <3>1. Len(inFlight) + 1 # 1 \/ connectionState # "Authenticating"
      BY <1>2, <2>2
    <3>2. \A i \in DOMAIN inFlight' : i \in DOMAIN inFlight \/ i = Len(inFlight) + 1
      BY <1>2, <2>1
    <3> QED
      BY <1>2, <2>1, <3>1, <3>2
  <2>4. connectionState = "Authenticating" => \A i \in DOMAIN inFlight' : inFlight'[i].kind # "put"
    BY <1>2, <2>1, <2>2
  <2>5. inFlight' # << >>
    BY <1>2, <2>1
  <2> QED
    BY <2>1, <2>3, <2>4, <2>5
<1>8. ASSUME NEW n, NEW ok, Handles(n, ok), connectionState' = connectionState PROVE Restoring'
  <2>1. DOMAIN inFlight' = 1..Len(inFlight)
    BY <1>8 DEF Handles
  <2> QED
    BY <1>2, <1>8, <2>1 DEF Handles
<1>9. CASE Takes
  <2>1. \A i \in DOMAIN inFlight' : inFlight'[i] = inFlight[i + 1] /\ i + 1 \in DOMAIN inFlight
    BY <1>9 DEF Takes, Taken
  <2> QED
    BY <1>9, <2>1 DEF Takes
<1>10. CASE Restores(rest)
  <2>1. \A i \in DOMAIN inFlight' : ~inFlight'[i].restore
    BY <1>10 DEF Restores, Restored
  <2> QED
    BY <1>10, <2>1 DEF Restores
<1> QED
  BY <1>1, <1>3, <1>4, <1>5, <1>6, <1>7, <1>8, <1>9, <1>10 DEF Flight

-----------------------------------------------------------------------------
(* The puts in flight.                                                     *)

\* A put is made.
Made ==
  /\ Len(puts) \in Nat /\ puts' \in Seq(PutState) /\ DOMAIN puts' = DOMAIN puts \cup {Len(puts) + 1}
  /\ DOMAIN puts = 1..Len(puts) /\ Outstanding' = Outstanding \cup {Len(puts) + 1}
  /\ UNCHANGED <<putsToAck, told, unackedListensCount, value, connectionState>>

\* putInternal makes a put that is outstanding, later than all others.
LEMMA MadeFacts ==
  ASSUME ConnectionTypeOK, NEW hash \in BOOLEAN, put(hash)
  PROVE  Made
<1> DEFINE x == [out |-> TRUE, sent |-> canSendWrites, hash |-> hash]
<1>1. x \in PutState
  BY DEF PutState, canSendWrites
<1>2. puts \in Seq(PutState) /\ puts' = Append(puts, x) /\ x.out
  BY DEF ConnectionTypeOK, put
<1> HIDE DEF x
<1>3. /\ puts' \in Seq(PutState) /\ Len(puts) \in Nat /\ DOMAIN puts = 1..Len(puts)
      /\ DOMAIN puts' = 1..Len(puts) + 1
      /\ \A i \in 1..Len(puts) : puts'[i] = puts[i]
      /\ puts'[Len(puts) + 1] = x
  BY <1>1, <1>2, AppendFacts
<1>4. DOMAIN puts' = DOMAIN puts \cup {Len(puts) + 1}
  BY <1>3
<1>5. Outstanding' = Outstanding \cup {Len(puts) + 1}
  BY <1>2, <1>3, <1>4 DEF Outstanding
<1>6. UNCHANGED <<putsToAck, told, unackedListensCount, value, connectionState>>
  BY DEF put, linkVars, serverVars
<1> QED
  BY <1>3, <1>4, <1>5, <1>6 DEF Made

\* The put a is answered.
Ends(a) ==
  /\ a \in Outstanding /\ Outstanding' = Outstanding \ {a}
  /\ puts' \in Seq(PutState) /\ DOMAIN puts' = DOMAIN puts

\* Its answer, which is told or withheld.
PutEnds ==
  LET r == inFlight[1] IN
    \/ r.arg \notin Outstanding /\ UNCHANGED <<puts, told, putsToAck>>
    \/ /\ Ends(r.arg) /\ unackedListensCount = 0 /\ UNCHANGED putsToAck
       /\ told' = Append(told, [put |-> r.arg, status |-> IF r.ok THEN "ok" ELSE "refused"])
    \/ /\ Ends(r.arg) /\ unackedListensCount # 0 /\ UNCHANGED told
       /\ putsToAck' = Append(putsToAck, [put |-> r.arg, ok |-> r.ok, lost |-> FALSE])

\* The answer to a put ends it, unless it was purged or cancelled.
LEMMA PutEndsFacts ==
  ASSUME ConnectionTypeOK, PutsSent, PutAnswered
  PROVE  /\ inFlight[1].kind = "put" /\ inFlight[1].ok \in BOOLEAN
         /\ inFlight[1].arg \in DOMAIN puts /\ inFlight[1].arg \in Nat
         /\ PutEnds /\ UNCHANGED unackedListensCount
<1> DEFINE r == inFlight[1]
<1>1. served > 0 /\ Head(inFlight).kind = "put"
  BY DEF PutAnswered, Reply
<1>2. Head(inFlight) = r /\ 1 \in DOMAIN inFlight /\ r \in RequestState
  BY <1>1, TakenFacts DEF Taken
<1>3. r.kind = "put" /\ r.ok \in BOOLEAN /\ r.arg \in DOMAIN puts /\ r.arg \in Nat
  BY <1>1, <1>2 DEF RequestState, PutsSent, RequestsOf
<1>4. \/ ~puts[r.arg].out /\ UNCHANGED <<puts, told, putsToAck>>
      \/ /\ puts[r.arg].out /\ unackedListensCount = 0 /\ UNCHANGED putsToAck
         /\ puts' = [puts EXCEPT ![r.arg].out = FALSE]
         /\ told' = Append(told, [put |-> r.arg, status |-> IF r.ok THEN "ok" ELSE "refused"])
      \/ /\ puts[r.arg].out /\ unackedListensCount # 0 /\ UNCHANGED told
         /\ puts' = [puts EXCEPT ![r.arg].out = FALSE]
         /\ putsToAck' = Append(putsToAck, [put |-> r.arg, ok |-> r.ok, lost |-> FALSE])
  BY <1>2 DEF PutAnswered
<1>5. UNCHANGED unackedListensCount
  BY DEF PutAnswered
<1> HIDE DEF r
<1>6. ASSUME puts[r.arg].out, puts' = [puts EXCEPT ![r.arg].out = FALSE] PROVE Ends(r.arg)
  <2> DEFINE a == r.arg
             x == [puts[a] EXCEPT !.out = FALSE]
  <2>1. puts \in Seq(PutState) /\ a \in 1..Len(puts) /\ DOMAIN puts = 1..Len(puts)
    BY <1>3, OutstandingFacts DEF ConnectionTypeOK
  <2>2. puts[a] \in PutState
    BY <2>1
  <2>3. x \in PutState /\ ~x.out
    BY <2>2 DEF PutState
  <2>4. puts' = [puts EXCEPT ![a] = x]
    BY <1>6
  <2> HIDE DEF x, a
  <2>5. /\ puts' \in Seq(PutState) /\ Len(puts') = Len(puts)
        /\ \A i \in 1..Len(puts) : puts'[i] = IF i = a THEN x ELSE puts[i]
    BY <2>1, <2>3, <2>4, ExceptSeq
  <2>6. DOMAIN puts' = DOMAIN puts
    BY <2>1, <2>5
  <2>7. Outstanding' = Outstanding \ {a}
    BY <2>1, <2>3, <2>5, <2>6 DEF Outstanding
  <2>8. a \in Outstanding
    BY <1>3, <1>6 DEF Outstanding, a
  <2> QED
    BY <2>5, <2>6, <2>7, <2>8 DEF Ends, a
<1>7. r.arg \in Outstanding <=> puts[r.arg].out
  BY <1>3 DEF Outstanding
<1> QED
  BY <1>3, <1>4, <1>5, <1>6, <1>7 DEF PutEnds, r

\* The outstanding puts are cancelled.
Purged(t) ==
  /\ Cancels(t, Outstanding) /\ told' = (told \o Acked) \o t /\ putsToAck' = << >>
  /\ puts' \in Seq(PutState) /\ DOMAIN puts' = DOMAIN puts /\ Outstanding' = {}
  /\ UNCHANGED <<inFlight, served, connectionState, serverAuth, value, unackedListensCount>>

\* purgeOutstandingWrites does this.
LEMMA PurgedFacts ==
  ASSUME ConnectionTypeOK, purgeOutstandingWrites
  PROVE  \E t : Purged(t)
<1> DEFINE ord == PutsInOrder(Outstanding)
           t == [j \in DOMAIN ord |-> [put |-> ord[j], status |-> "canceled"]]
<1>1. /\ told' = (told \o Acked) \o t /\ putsToAck' = << >>
      /\ puts' = [i \in DOMAIN puts |-> [puts[i] EXCEPT !.out = FALSE]]
      /\ UNCHANGED <<inFlight, served, connectionState, serverAuth, value, unackedListensCount>>
  BY DEF purgeOutstandingWrites, linkVars, serverVars
<1>2. Cancels(t, Outstanding)
  BY OutstandingFacts, CanceledInOrder
<1> HIDE DEF t
<1>3. /\ DOMAIN puts' = DOMAIN puts /\ DOMAIN puts = 1..Len(puts) /\ Len(puts) \in Nat
      /\ \A i \in DOMAIN puts : puts'[i] \in PutState /\ ~puts'[i].out
  <2>1. \A i \in DOMAIN puts : puts[i] \in PutState
    BY DEF ConnectionTypeOK
  <2> QED
    BY <1>1, <2>1, OutstandingFacts DEF PutState
<1>4. puts' \in Seq(PutState)
  <2>1. puts' \in [1..Len(puts) -> PutState]
    BY <1>1, <1>3
  <2> QED
    BY <1>3, <2>1
<1>5. Outstanding' = {}
  BY <1>3 DEF Outstanding
<1>6. Purged(t)
  BY <1>1, <1>2, <1>3, <1>4, <1>5 DEF Purged
<1> QED
  BY <1>6

\* The puts in flight stay in their order, and every outstanding put is among
\* them once the session is restored.
LEMMA PutsSentKept ==
  ASSUME ConnectionTypeOK, Linked, Restoring, PutsSent, [ConnectionNext]_connectionVars
  PROVE  PutsSent'
<1>1. /\ DOMAIN inFlight = 1..Len(inFlight) /\ Len(inFlight) \in Nat
      /\ \A i \in DOMAIN inFlight : connected /\ inFlight[i] \in RequestState
  BY InFlightConnected
<1>2. \A i \in DOMAIN inFlight : inFlight[i].kind = "put" => inFlight[i].arg \in Nat
  BY <1>1 DEF RequestState
<1> USE DEF PutsSent, RequestsOf
<1>3. CASE Still
  <2>1. Outstanding' = Outstanding
    BY <1>3 DEF Still, Outstanding
  <2>2. connectionState' = "Connected" => connectionState = "Connected"
    BY <1>3 DEF Still, connected
  <2> QED
    BY <1>3, <2>1, <2>2 DEF Still
<1>4. CASE \E S, t : Lost(S, t)
  BY <1>4 DEF Lost
<1>5. ASSUME NEW rest, Restores(rest) PROVE PutsSent'
  <2>1. \A i \in DOMAIN inFlight' : inFlight'[i].kind = "put" => i > Len(rest)
    <3>1. /\ inFlight' \in Seq(RequestState) /\ Len(rest) \in Nat
          /\ \A i \in 1..Len(rest) : inFlight'[i] = rest[i] /\ rest[i].kind # "put"
      BY <1>5 DEF Restores, Restored
    <3> QED
      BY <3>1
  <2>2. Outstanding' = Outstanding /\ DOMAIN puts' = DOMAIN puts /\ Outstanding \subseteq DOMAIN puts
    BY <1>5, OutstandingFacts DEF Restores, Restored
  <2>3. /\ \A i \in DOMAIN inFlight' : i > Len(rest) /\ inFlight'[i].kind = "put" =>
             inFlight'[i].arg \in Outstanding
        /\ \A i, j \in DOMAIN inFlight' :
             i > Len(rest) /\ i < j /\ inFlight'[i].kind = "put" /\ inFlight'[j].kind = "put" =>
               inFlight'[i].arg < inFlight'[j].arg
        /\ \A p \in Outstanding : \E i \in DOMAIN inFlight' :
             inFlight'[i].kind = "put" /\ inFlight'[i].arg = p
    BY <1>5 DEF Restores, Restored
  <2> QED
    BY <2>1, <2>2, <2>3
<1>6. CASE onReady
  <2>1. CASE authToken = NoUser
    BY <1>5, <1>6, <2>1, RestoresFacts
  <2>2. CASE authToken # NoUser
    <3> DEFINE r == Request("auth", authToken, TRUE)
    <3>1. Sent(r) /\ connectionState' = "Authenticating" /\ Len(inFlight) = 0
      BY <1>6, <2>2, BeginsFacts
    <3>2. r.kind = "auth"
      BY DEF Request
    <3> HIDE DEF r
    <3>3. DOMAIN inFlight' = 1..1 /\ inFlight'[1] = r
      BY <3>1 DEF Sent
    <3> QED
      BY <3>1, <3>2, <3>3
  <2> QED
    BY <2>1, <2>2
<1>7. ASSUME NEW r \in RequestState, Sends(r), r.kind # "put", UNCHANGED puts PROVE PutsSent'
  <2>1. /\ DOMAIN inFlight' = 1..Len(inFlight) + 1 /\ inFlight'[Len(inFlight) + 1] = r
        /\ \A i \in 1..Len(inFlight) : inFlight'[i] = inFlight[i]
        /\ connectionState' = connectionState
    BY <1>7 DEF Sends, Sent
  <2>2. Outstanding' = Outstanding
    BY <1>7 DEF Outstanding
  <2>3. \A i \in DOMAIN inFlight' : inFlight'[i].kind = "put" => i \in DOMAIN inFlight /\ inFlight'[i] = inFlight[i]
    BY <1>1, <1>7, <2>1
  <2>4. \A i \in DOMAIN inFlight : i \in DOMAIN inFlight' /\ inFlight'[i] = inFlight[i]
    BY <1>1, <2>1
  <2> HIDE DEF Outstanding
  <2> QED
    BY <1>7, <2>1, <2>2, <2>3, <2>4
<1>8. ASSUME NEW q \in Query, listen(q), connected PROVE PutsSent'
  <2>1. PICK n \in Nat : Sends(Request("listen", <<q, n>>, FALSE))
    BY <1>8, SendsFacts
  <2>2. /\ Request("listen", <<q, n>>, FALSE) \in RequestState
        /\ Request("listen", <<q, n>>, FALSE).kind = "listen"
    BY RequestTyped DEF Request
  <2> QED
    BY <1>7, <1>8, <2>1, <2>2 DEF listen
<1>9. ASSUME NEW u \in MaybeUser, refreshAuthToken(u), connected PROVE PutsSent'
  <2> DEFINE r == Request(IF u = NoUser THEN "unauth" ELSE "auth", u, FALSE)
  <2>1. r \in RequestState /\ r.kind # "put"
    BY RequestTyped DEF Request, MaybeUser
  <2>2. Sends(r)
    BY <1>9, SendsFacts
  <2> HIDE DEF r
  <2> QED
    BY <1>7, <1>9, <2>1, <2>2 DEF refreshAuthToken
<1>10. ASSUME NEW hash \in BOOLEAN, put(hash) PROVE PutsSent'
  <2>1. Made
    BY <1>10, MadeFacts
  <2> DEFINE a == Len(puts) + 1
             r == Request("put", a, FALSE)
  <2>2. /\ a \in Nat /\ DOMAIN puts' = DOMAIN puts \cup {a} /\ Outstanding' = Outstanding \cup {a}
        /\ \A p \in DOMAIN puts : p \in Nat /\ p < a
        /\ connectionState' = connectionState
    BY <2>1 DEF Made
  <2>3. CASE canSendWrites
    <3>1. Sends(r)
      BY <1>10, <2>3, SendsFacts
    <3>2. r.kind = "put" /\ r.arg = a
      BY DEF Request
    <3> HIDE DEF r, a
    <3>3. /\ DOMAIN inFlight' = 1..Len(inFlight) + 1 /\ inFlight'[Len(inFlight) + 1] = r
          /\ \A i \in 1..Len(inFlight) : inFlight'[i] = inFlight[i]
      BY <3>1 DEF Sends, Sent
    <3>4. /\ \A i \in DOMAIN inFlight' : i \in DOMAIN inFlight \/ i = Len(inFlight) + 1
          /\ \A i \in DOMAIN inFlight : i \in DOMAIN inFlight' /\ inFlight'[i] = inFlight[i] /\ i < Len(inFlight) + 1
          /\ Len(inFlight) + 1 \in DOMAIN inFlight'
      BY <1>1, <3>3
    <3>5. \A i \in DOMAIN inFlight' : inFlight'[i].kind = "put" => inFlight'[i].arg \in DOMAIN puts'
      BY <2>2, <3>2, <3>3, <3>4
    <3>6. ASSUME NEW i \in DOMAIN inFlight', NEW j \in DOMAIN inFlight', i < j,
                 inFlight'[i].kind = "put", inFlight'[j].kind = "put"
          PROVE  inFlight'[i].arg < inFlight'[j].arg
      <4>1. i \in DOMAIN inFlight
        BY <1>1, <3>3, <3>6
      <4>2. CASE j \in DOMAIN inFlight
        BY <3>4, <3>6, <4>1, <4>2
      <4>3. CASE j = Len(inFlight) + 1
        BY <2>2, <3>2, <3>3, <3>4, <3>6, <4>1, <4>3
      <4> QED
        BY <3>4, <4>2, <4>3
    <3>7. connectionState' = "Connected" =>
            \A p \in Outstanding' : \E i \in DOMAIN inFlight' :
              inFlight'[i].kind = "put" /\ inFlight'[i].arg = p
      <4>1. connectionState = "Connected"
        BY <2>3 DEF canSendWrites
      <4>2. ASSUME NEW p \in Outstanding
            PROVE  \E i \in DOMAIN inFlight' : inFlight'[i].kind = "put" /\ inFlight'[i].arg = p
        BY <3>4, <4>1
      <4>3. inFlight'[Len(inFlight) + 1].kind = "put" /\ inFlight'[Len(inFlight) + 1].arg = a
        BY <3>2, <3>3
      <4> QED
        BY <2>2, <3>4, <4>2, <4>3
    <3> QED
      BY <3>5, <3>6, <3>7
  <2>4. CASE ~canSendWrites
    <3>1. inFlight' = inFlight /\ connectionState' # "Connected"
      BY <1>10, <2>2, <2>4 DEF put, canSendWrites
    <3> QED
      BY <2>2, <3>1
  <2> QED
    BY <2>3, <2>4
<1>11. ASSUME NEW ok \in BOOLEAN, ServerHandles(ok) PROVE PutsSent'
  <2>1. Handles(served + 1, ok) /\ UNCHANGED <<puts, connectionState>>
    BY <1>11, HandlesFacts DEF ServerHandles, linkVars
  <2>2. /\ DOMAIN inFlight' = DOMAIN inFlight
        /\ \A i \in DOMAIN inFlight :
             inFlight'[i].kind = inFlight[i].kind /\ inFlight'[i].arg = inFlight[i].arg
    BY <1>1, <2>1 DEF Handles
  <2>3. Outstanding' = Outstanding
    BY <2>1 DEF Outstanding
  <2> HIDE DEF Outstanding
  <2> QED
    BY <1>1, <2>1, <2>2, <2>3
<1>12. ASSUME Takes, DOMAIN puts' = DOMAIN puts,
              \A p \in Outstanding' : p \in Outstanding /\
                (inFlight[1].kind = "put" => p # inFlight[1].arg)
       PROVE  PutsSent'
  <2>1. \A i \in DOMAIN inFlight' :
          inFlight'[i] = inFlight[i + 1] /\ i + 1 \in DOMAIN inFlight /\ i \in Int
    BY <1>12 DEF Takes, Taken
  <2>2. \A i, j \in DOMAIN inFlight' : i < j => i + 1 < j + 1
    BY <2>1
  <2>3. ASSUME NEW p \in Outstanding'
        PROVE  \E i \in DOMAIN inFlight' : inFlight'[i].kind = "put" /\ inFlight'[i].arg = p
    <3>1. PICK i \in DOMAIN inFlight : inFlight[i].kind = "put" /\ inFlight[i].arg = p
      BY <1>12 DEF Takes
    <3>2. i # 1
      BY <1>12, <3>1
    <3>3. i - 1 \in DOMAIN inFlight' /\ inFlight'[i - 1] = inFlight[i]
      BY <1>1, <1>12, <3>1, <3>2 DEF Takes, Taken
    <3> QED
      BY <3>1, <3>3
  <2>4. \A i \in DOMAIN inFlight' : inFlight'[i].kind = "put" => inFlight'[i].arg \in DOMAIN puts'
    BY <1>12, <2>1
  <2>5. \A i, j \in DOMAIN inFlight' : i < j /\ inFlight'[i].kind = "put" /\ inFlight'[j].kind = "put" =>
           inFlight'[i].arg < inFlight'[j].arg
    BY <2>1, <2>2
  <2> QED
    BY <2>3, <2>4, <2>5
<1>13. CASE UnauthAnswered \/ ListenAnswered \/ (AuthAnswered /\ Head(inFlight).ok /\ ~Head(inFlight).restore)
  <2>1. Takes
    BY <1>13, TakesFacts
  <2>2. UNCHANGED puts /\ Head(inFlight).kind # "put" /\ Head(inFlight) = inFlight[1]
    BY <1>13, <2>1 DEF UnauthAnswered, ListenAnswered, AuthAnswered, Reply, Takes, Taken
  <2>3. Outstanding' = Outstanding
    BY <2>2 DEF Outstanding
  <2> QED
    BY <1>12, <2>1, <2>2, <2>3
<1>14. CASE PutAnswered
  <2>1. Takes
    BY <1>14, TakesFacts
  <2>2. PutEnds
    BY <1>14, PutEndsFacts
  <2>3. \/ inFlight[1].arg \notin Outstanding /\ UNCHANGED puts
        \/ Ends(inFlight[1].arg)
    BY <2>2 DEF PutEnds
  <2>4. CASE inFlight[1].arg \notin Outstanding /\ UNCHANGED puts
    <3>1. Outstanding' = Outstanding
      BY <2>4 DEF Outstanding
    <3> HIDE DEF PutsSent
    <3> QED
      BY <1>12, <2>1, <2>4, <3>1
  <2>5. CASE Ends(inFlight[1].arg)
    <3> HIDE DEF PutsSent
    <3> QED
      BY <1>12, <2>1, <2>5 DEF Ends
  <2> QED
    BY <2>3, <2>4, <2>5
<1>15. CASE AuthAnswered /\ Head(inFlight).ok /\ Head(inFlight).restore
  BY <1>5, <1>15, RestoresFacts
<1>16. CASE purgeOutstandingWrites
  <2>1. PICK t : Purged(t)
    BY <1>16, PurgedFacts
  <2> QED
    BY <2>1 DEF Purged
<1> QED
  BY <1>3, <1>4, <1>6, <1>8, <1>9, <1>10, <1>11, <1>13, <1>14, <1>15, <1>16, Kinds

-----------------------------------------------------------------------------
(* The listens that wait for an answer.                                    *)

\* The counter is that of the listens in flight, and what is withheld waits
\* for one of them.
LEMMA WithheldKept ==
  ASSUME ConnectionTypeOK, Linked, Restoring, PutsSent, WithheldForListens,
         [ConnectionNext]_connectionVars
  PROVE  WithheldForListens' /\ unackedListensCount' \in Nat
<1> DEFINE count(s) == Cardinality(ListensIn(s))
           lost == \A j \in DOMAIN putsToAck : putsToAck[j].lost
<1>1. RequestsOf("listen") = ListensIn(inFlight) /\ RequestsOf("listen")' = ListensIn(inFlight')
  BY DEF RequestsOf, ListensIn
<1>2. /\ unackedListensCount = count(inFlight) /\ unackedListensCount \in Nat
      /\ unackedListensCount = 0 => lost
  BY <1>1 DEF WithheldForListens, ConnectionTypeOK
<1>3. SUFFICES /\ unackedListensCount' = count(inFlight') /\ unackedListensCount' \in Nat
               /\ unackedListensCount' = 0 => \A j \in DOMAIN putsToAck' : putsToAck'[j].lost
  BY <1>1 DEF WithheldForListens
<1> DEFINE Goal == /\ unackedListensCount' = count(inFlight') /\ unackedListensCount' \in Nat
                   /\ unackedListensCount' = 0 => \A j \in DOMAIN putsToAck' : putsToAck'[j].lost
<1>4. CASE Still
  BY <1>2, <1>4 DEF Still
<1>5. CASE \E S, t : Lost(S, t)
  <2>1. inFlight' = << >> /\ unackedListensCount' = 0 /\ \A j \in DOMAIN putsToAck' : putsToAck'[j].lost
    BY <1>5 DEF Lost
  <2>2. ListensIn(<< >>) = {}
    BY DEF ListensIn
  <2> QED
    BY <2>1, <2>2, FS_EmptySet
<1>6. ASSUME NEW rest, Restores(rest) PROVE Goal
  <2>1. /\ count(inFlight') = count(rest) + Cardinality(Listening) /\ Cardinality(Listening) \in Nat
        /\ unackedListensCount' = unackedListensCount + Cardinality(Listening)
        /\ UNCHANGED putsToAck
    BY <1>6 DEF Restores, Restored
  <2>2. count(rest) = count(inFlight)
    <3>1. CASE rest = << >> /\ inFlight = << >>
      BY <3>1
    <3>2. CASE Taken(rest) /\ inFlight[1].kind = "auth"
      <4>1. count(inFlight) = count(rest) + 0 /\ count(rest) \in Nat
        BY <3>2 DEF Taken
      <4> QED
        BY <4>1
    <3> QED
      BY <1>6, <3>1, <3>2 DEF Restores
  <2> QED
    BY <1>2, <2>1, <2>2
<1>7. ASSUME NEW r, Sent(r), r.kind # "listen", UNCHANGED <<unackedListensCount, putsToAck>>
      PROVE  Goal
  BY <1>2, <1>7 DEF Sent
<1>8. CASE onReady
  <2>1. CASE authToken = NoUser
    BY <1>6, <1>8, <2>1, RestoresFacts
  <2>2. CASE authToken # NoUser
    <3> DEFINE r == Request("auth", authToken, TRUE)
    <3>1. Sent(r) /\ UNCHANGED <<unackedListensCount, putsToAck>>
      BY <1>8, <2>2, BeginsFacts
    <3>2. r.kind # "listen"
      BY DEF Request
    <3> HIDE DEF r
    <3> QED
      BY <1>7, <3>1, <3>2
  <2> QED
    BY <2>1, <2>2
<1>9. ASSUME NEW q \in Query, listen(q), connected PROVE Goal
  <2>1. PICK n \in Nat : Sends(Request("listen", <<q, n>>, FALSE))
    BY <1>9, SendsFacts
  <2> DEFINE r == Request("listen", <<q, n>>, FALSE)
  <2>2. Sent(r) /\ r.kind = "listen"
    BY <2>1 DEF Sends, Request
  <2> HIDE DEF r
  <2>3. count(inFlight') = count(inFlight) + 1
    BY <2>2 DEF Sent
  <2>4. unackedListensCount' = unackedListensCount + 1
    BY <1>9 DEF listen
  <2> QED
    BY <1>2, <2>3, <2>4
<1>10. ASSUME NEW u \in MaybeUser, refreshAuthToken(u), connected PROVE Goal
  <2> DEFINE r == Request(IF u = NoUser THEN "unauth" ELSE "auth", u, FALSE)
  <2>1. Sent(r) /\ UNCHANGED <<unackedListensCount, putsToAck>>
    BY <1>10, SendsFacts DEF Sends, refreshAuthToken
  <2>2. r.kind # "listen"
    BY DEF Request
  <2> HIDE DEF r
  <2> QED
    BY <1>7, <2>1, <2>2
<1>11. ASSUME NEW hash \in BOOLEAN, put(hash) PROVE Goal
  <2>1. UNCHANGED <<unackedListensCount, putsToAck>>
    BY <1>11 DEF put
  <2>2. CASE canSendWrites
    <3> DEFINE r == Request("put", Len(puts) + 1, FALSE)
    <3>1. Sent(r)
      BY <1>11, <2>2, SendsFacts DEF Sends
    <3>2. r.kind # "listen"
      BY DEF Request
    <3> HIDE DEF r
    <3> QED
      BY <1>7, <2>1, <3>1, <3>2
  <2>3. CASE ~canSendWrites
    BY <1>2, <1>11, <2>1, <2>3 DEF put
  <2> QED
    BY <2>2, <2>3
<1>12. ASSUME NEW ok \in BOOLEAN, ServerHandles(ok) PROVE Goal
  <2>1. ListensIn(inFlight') = ListensIn(inFlight) /\ UNCHANGED <<unackedListensCount, putsToAck>>
    BY <1>12, HandlesFacts DEF Handles, ServerHandles
  <2> QED
    BY <1>2, <2>1
<1>13. ASSUME Takes, inFlight[1].kind # "listen", UNCHANGED unackedListensCount,
              unackedListensCount = 0 => UNCHANGED putsToAck
       PROVE  Goal
  <2>1. count(inFlight) = count(inFlight') + 0 /\ count(inFlight') \in Nat
    BY <1>13 DEF Takes, Taken
  <2> QED
    BY <1>2, <1>13, <2>1
<1>14. CASE UnauthAnswered \/ (AuthAnswered /\ Head(inFlight).ok /\ ~Head(inFlight).restore)
  <2>1. Takes
    BY <1>14, TakesFacts
  <2>2. inFlight[1].kind # "listen" /\ UNCHANGED <<unackedListensCount, putsToAck>>
    BY <1>14, <2>1 DEF UnauthAnswered, AuthAnswered, Reply, Takes, Taken
  <2> QED
    BY <1>13, <2>1, <2>2
<1>15. CASE AuthAnswered /\ Head(inFlight).ok /\ Head(inFlight).restore
  BY <1>6, <1>15, RestoresFacts
<1>16. CASE ListenAnswered
  <2>1. Takes
    BY <1>16, TakesFacts
  <2>2. inFlight[1].kind = "listen" /\ unackedListensCount' = unackedListensCount - 1
        /\ (unackedListensCount' = 0 => putsToAck' = << >>)
    BY <1>16, <2>1 DEF ListenAnswered, Reply, Takes, Taken
  <2>3. count(inFlight) = count(inFlight') + 1 /\ count(inFlight') \in Nat
    BY <2>1, <2>2 DEF Takes, Taken
  <2> QED
    BY <1>2, <2>2, <2>3
<1>17. CASE PutAnswered
  <2>1. Takes
    BY <1>17, TakesFacts
  <2>2. inFlight[1].kind = "put" /\ UNCHANGED unackedListensCount /\ PutEnds
    BY <1>17, PutEndsFacts
  <2>3. unackedListensCount = 0 => UNCHANGED putsToAck
    BY <2>2 DEF PutEnds
  <2> QED
    BY <1>13, <2>1, <2>2, <2>3
<1>18. CASE purgeOutstandingWrites
  <2>1. inFlight' = inFlight /\ UNCHANGED unackedListensCount /\ putsToAck' = << >>
    BY <1>18 DEF purgeOutstandingWrites
  <2> QED
    BY <1>2, <2>1
<1> QED
  BY <1>4, <1>5, <1>8, <1>9, <1>10, <1>11, <1>12, <1>14, <1>15, <1>16, <1>17, <1>18, Kinds

-----------------------------------------------------------------------------
(* Every put is answered once.                                             *)

\* The puts, and the answers told and withheld, are of their types, and no put
\* is answered twice.
LEMMA OnceKept ==
  ASSUME ConnectionTypeOK, Linked, Restoring, PutsSent, Once, [ConnectionNext]_connectionVars
  PROVE  /\ puts' \in Seq(PutState) /\ putsToAck' \in Seq(HeldAnswer) /\ told' \in Seq(ToldAnswer)
         /\ Once'
<1> DEFINE Typed == /\ puts' \in Seq(PutState) /\ putsToAck' \in Seq(HeldAnswer)
                    /\ told' \in Seq(ToldAnswer)
           OnceNow == /\ Distinct(told') /\ Distinct(putsToAck')
                      /\ PutsIn(told') \cap PutsIn(putsToAck') = {}
                      /\ PutsIn(told') \cup PutsIn(putsToAck') = DOMAIN puts' \ Outstanding'
           Goal == Typed /\ OnceNow
<1>1. /\ puts \in Seq(PutState) /\ putsToAck \in Seq(HeldAnswer) /\ told \in Seq(ToldAnswer)
      /\ Outstanding \subseteq DOMAIN puts
  BY OutstandingFacts DEF ConnectionTypeOK
<1>2. /\ Distinct(told) /\ Distinct(putsToAck) /\ PutsIn(told) \cap PutsIn(putsToAck) = {}
      /\ PutsIn(told) \cup PutsIn(putsToAck) = DOMAIN puts \ Outstanding
  BY DEF Once
<1>3. PutsIn(<< >>) = {} /\ Distinct(<< >>) /\ << >> \in Seq(HeldAnswer)
  BY DEF PutsIn, Distinct
<1>4. SUFFICES Goal
  BY DEF Once
<1>5. ASSUME UNCHANGED <<puts, putsToAck, told>> PROVE Goal
  <2>1. Outstanding' = Outstanding
    BY <1>5 DEF Outstanding
  <2> QED
    BY <1>1, <1>2, <1>5, <2>1
<1>6. ASSUME NEW S, NEW t, Lost(S, t) PROVE Goal
  <2>1. /\ S \subseteq Outstanding /\ told' = told \o t /\ t \in Seq(ToldAnswer)
        /\ PutsIn(t) = S /\ Distinct(t)
        /\ puts' \in Seq(PutState) /\ DOMAIN puts' = DOMAIN puts /\ Outstanding' = Outstanding \ S
        /\ putsToAck' \in Seq(HeldAnswer) /\ PutsIn(putsToAck') = PutsIn(putsToAck)
        /\ Distinct(putsToAck')
    BY <1>2, <1>6 DEF Lost, Cancels
  <2>2. PutsIn(told) \cap PutsIn(t) = {}
    BY <1>2, <2>1
  <2>3. told' \in Seq(ToldAnswer) /\ PutsIn(told') = PutsIn(told) \cup S /\ Distinct(told')
    BY <1>1, <1>2, <2>1, <2>2, AnswersJoin
  <2>4. PutsIn(told') \cap PutsIn(putsToAck') = {}
    BY <1>1, <1>2, <2>1, <2>3
  <2>5. PutsIn(told') \cup PutsIn(putsToAck') = DOMAIN puts' \ Outstanding'
    BY <1>1, <1>2, <2>1, <2>3
  <2> QED
    BY <2>1, <2>3, <2>4, <2>5
<1>7. ASSUME NEW rest, Restores(rest) PROVE Goal
  <2>1. /\ UNCHANGED <<told, putsToAck>> /\ puts' \in Seq(PutState)
        /\ DOMAIN puts' = DOMAIN puts /\ Outstanding' = Outstanding
    BY <1>7 DEF Restores, Restored
  <2> QED
    BY <1>1, <1>2, <2>1
<1>8. CASE onReady
  <2>1. CASE authToken = NoUser
    BY <1>7, <1>8, <2>1, RestoresFacts
  <2>2. CASE authToken # NoUser
    BY <1>5, <1>8, <2>2, BeginsFacts
  <2> QED
    BY <2>1, <2>2
<1>9. ASSUME NEW hash \in BOOLEAN, put(hash) PROVE Goal
  <2>1. Made
    BY <1>9, MadeFacts
  <2>2. Len(puts) + 1 \notin DOMAIN puts
    BY <2>1 DEF Made
  <2>3. DOMAIN puts' \ Outstanding' = DOMAIN puts \ Outstanding
    BY <2>1, <2>2 DEF Made
  <2> QED
    BY <1>1, <1>2, <2>1, <2>3 DEF Made
<1>10. CASE ListenAnswered
  <2>1. \/ UNCHANGED <<told, putsToAck>>
        \/ told' = told \o Acked /\ putsToAck' = << >>
    BY <1>10 DEF ListenAnswered
  <2>2. puts' = puts
    BY <1>10 DEF ListenAnswered
  <2>3. CASE told' = told \o Acked /\ putsToAck' = << >>
    <3>1. /\ Acked \in Seq(ToldAnswer) /\ PutsIn(Acked) = PutsIn(putsToAck) /\ Distinct(Acked)
      BY <1>1, <1>2, AckedFacts
    <3>2. /\ told' \in Seq(ToldAnswer) /\ Distinct(told')
          /\ PutsIn(told') = PutsIn(told) \cup PutsIn(putsToAck)
      BY <1>1, <1>2, <2>3, <3>1, AnswersJoin
    <3>3. Outstanding' = Outstanding
      BY <2>2 DEF Outstanding
    <3>4. PutsIn(putsToAck') = {} /\ Distinct(putsToAck') /\ putsToAck' \in Seq(HeldAnswer)
      BY <1>3, <2>3
    <3> QED
      BY <1>1, <1>2, <2>2, <3>2, <3>3, <3>4
  <2> QED
    BY <1>5, <2>1, <2>2, <2>3
<1>11. CASE PutAnswered
  <2> DEFINE r == inFlight[1]
             a == r.arg
             x == [put |-> a, status |-> IF r.ok THEN "ok" ELSE "refused"]
             y == [put |-> a, ok |-> r.ok, lost |-> FALSE]
  <2>1. r.ok \in BOOLEAN /\ a \in DOMAIN puts /\ a \in Nat /\ PutEnds
    BY <1>11, PutEndsFacts
  <2>2. x \in ToldAnswer /\ x.put = a /\ y \in HeldAnswer /\ y.put = a
    BY <2>1 DEF ToldAnswer, HeldAnswer
  <2>3. \/ UNCHANGED <<puts, told, putsToAck>>
        \/ Ends(a) /\ UNCHANGED putsToAck /\ told' = Append(told, x)
        \/ Ends(a) /\ UNCHANGED told /\ putsToAck' = Append(putsToAck, y)
    BY <2>1 DEF PutEnds
  <2> HIDE DEF a, x, y
  <2>4. ASSUME Ends(a)
        PROVE  /\ a \notin PutsIn(told) /\ a \notin PutsIn(putsToAck) /\ puts' \in Seq(PutState)
               /\ DOMAIN puts' \ Outstanding' = (DOMAIN puts \ Outstanding) \cup {a}
    BY <1>1, <1>2, <2>4 DEF Ends
  <2>5. CASE Ends(a) /\ UNCHANGED putsToAck /\ told' = Append(told, x)
    <3>1. told' \in Seq(ToldAnswer) /\ PutsIn(told') = PutsIn(told) \cup {a} /\ Distinct(told')
      BY <1>1, <1>2, <2>2, <2>4, <2>5, AnswersAppend
    <3> QED
      BY <1>1, <1>2, <2>4, <2>5, <3>1
  <2>6. CASE Ends(a) /\ UNCHANGED told /\ putsToAck' = Append(putsToAck, y)
    <3>1. /\ putsToAck' \in Seq(HeldAnswer) /\ PutsIn(putsToAck') = PutsIn(putsToAck) \cup {a}
          /\ Distinct(putsToAck')
      BY <1>1, <1>2, <2>2, <2>4, <2>6, AnswersAppend
    <3> QED
      BY <1>1, <1>2, <2>4, <2>6, <3>1
  <2> QED
    BY <1>5, <2>3, <2>5, <2>6
<1>12. CASE purgeOutstandingWrites
  <2>1. PICK t : Purged(t)
    BY <1>12, PurgedFacts
  <2>2. /\ told' = (told \o Acked) \o t /\ t \in Seq(ToldAnswer) /\ PutsIn(t) = Outstanding /\ Distinct(t)
        /\ putsToAck' = << >> /\ puts' \in Seq(PutState) /\ DOMAIN puts' = DOMAIN puts
        /\ Outstanding' = {}
    BY <2>1 DEF Purged, Cancels
  <2> DEFINE s == told \o Acked
  <2>3. Acked \in Seq(ToldAnswer) /\ PutsIn(Acked) = PutsIn(putsToAck) /\ Distinct(Acked)
    BY <1>1, <1>2, AckedFacts
  <2>4. /\ s \in Seq(ToldAnswer) /\ Distinct(s)
        /\ PutsIn(s) = PutsIn(told) \cup PutsIn(putsToAck)
    BY <1>1, <1>2, <2>3, AnswersJoin
  <2> HIDE DEF s
  <2>5. PutsIn(s) \cap PutsIn(t) = {}
    BY <1>2, <2>2, <2>4
  <2>6. /\ s \o t \in Seq(ToldAnswer) /\ Distinct(s \o t) /\ PutsIn(s \o t) = PutsIn(s) \cup Outstanding
    BY <2>2, <2>4, <2>5, AnswersJoin
  <2>7. told' = s \o t
    BY <2>2 DEF s
  <2>8. PutsIn(told') = DOMAIN puts
    BY <1>1, <1>2, <2>4, <2>6, <2>7
  <2>9. PutsIn(putsToAck') = {} /\ Distinct(putsToAck') /\ putsToAck' \in Seq(HeldAnswer)
    BY <1>3, <2>2
  <2>10. Distinct(told') /\ told' \in Seq(ToldAnswer)
    BY <2>6, <2>7
  <2> QED
    BY <2>2, <2>8, <2>9, <2>10
<1>13. CASE Still
  BY <1>5, <1>13 DEF Still
<1>14. ASSUME NEW q \in Query, listen(q) PROVE Goal
  BY <1>5, <1>14 DEF listen
<1>15. ASSUME NEW u \in MaybeUser, refreshAuthToken(u) PROVE Goal
  BY <1>5, <1>15 DEF refreshAuthToken
<1>16. ASSUME NEW ok \in BOOLEAN, ServerHandles(ok) PROVE Goal
  BY <1>5, <1>16 DEF ServerHandles
<1>17. CASE UnauthAnswered
  BY <1>5, <1>17 DEF UnauthAnswered
<1>18. CASE AuthAnswered /\ Head(inFlight).ok
  <2>1. CASE Head(inFlight).restore
    BY <1>7, <1>18, <2>1, RestoresFacts
  <2>2. CASE ~Head(inFlight).restore
    BY <1>5, <1>18, <2>2 DEF AuthAnswered
  <2> QED
    BY <2>1, <2>2
<1> HIDE DEF Goal
<1> QED
  BY <1>6, <1>8, <1>9, <1>10, <1>11, <1>12, <1>13, <1>14, <1>15, <1>16, <1>17, <1>18, Kinds

\* Everything stays of its type.
LEMMA TypesKept ==
  ASSUME ConnectionTypeOK, Linked, Restoring, PutsSent, Once, WithheldForListens,
         [ConnectionNext]_connectionVars
  PROVE  ConnectionTypeOK'
<1>1. PICK rest : Flight(rest)
  BY FlightFacts
<1>2. /\ inFlight \in Seq(RequestState) /\ served \in 0..Len(inFlight) /\ Len(inFlight) \in Nat
      /\ serverAuth \in MaybeUser /\ value \in Nat /\ NoUser \in MaybeUser
  BY DEF ConnectionTypeOK, MaybeUser
<1> DEFINE Goal == /\ inFlight' \in Seq(RequestState) /\ served' \in 0..Len(inFlight')
                   /\ serverAuth' \in MaybeUser /\ value' \in Nat
<1>3. /\ puts' \in Seq(PutState) /\ putsToAck' \in Seq(HeldAnswer) /\ told' \in Seq(ToldAnswer)
       /\ unackedListensCount' \in Nat
  BY OnceKept, WithheldKept
<1>4. LinkTypes'
  BY LinkTypesKept
<1>5. SUFFICES Goal
  BY <1>3, <1>4 DEF LinkTypes, ConnectionTypeOK
<1>6. CASE Still
  BY <1>2, <1>6 DEF Still
<1>7. CASE UNCHANGED <<inFlight, served, connectionState, serverAuth, value, unackedListensCount>>
  BY <1>2, <1>7
<1>8. CASE /\ connectionState' = "Disconnected" /\ inFlight' = << >> /\ served' = 0
           /\ serverAuth' = NoUser /\ value' = value
  BY <1>2, <1>8
<1>9. ASSUME NEW r, Sent(r), UNCHANGED <<serverAuth, value>> PROVE Goal
  BY <1>2, <1>9 DEF Sent
<1>10. CASE onReady /\ authToken # NoUser
  BY <1>9, <1>10, BeginsFacts
<1>11. ASSUME NEW r \in RequestState, Sends(r) PROVE Goal
  BY <1>9, <1>11 DEF Sends
<1>12. ASSUME NEW n, NEW ok, Handles(n, ok) PROVE Goal
  <2>1. inFlight[n] \in RequestState
    BY <1>2, <1>12 DEF Handles
  <2>2. /\ inFlight[n].kind \in {"auth", "unauth"} => inFlight[n].arg \in MaybeUser
        /\ inFlight[n].kind = "put" => inFlight[n].arg \in Nat
    BY <2>1 DEF RequestState, MaybeUser
  <2> QED
    BY <1>2, <1>12, <2>2 DEF Handles
<1>13. CASE Takes
  BY <1>2, <1>13 DEF Takes, Taken
<1>14. CASE Restores(rest)
  <2>1. /\ inFlight' \in Seq(RequestState) /\ Len(rest) \in 0..Len(inFlight')
        /\ served' \in 0..Len(rest) /\ UNCHANGED <<value, serverAuth>>
    BY <1>14 DEF Restores, Restored
  <2>2. Len(inFlight') \in Nat
    BY <2>1
  <2> QED
    BY <1>2, <2>1, <2>2
<1>15. Goal
  BY <1>1, <1>6, <1>7, <1>8, <1>10, <1>11, <1>12, <1>13, <1>14 DEF Flight
<1> QED
  BY <1>15

-----------------------------------------------------------------------------
(* What is confirmed is kept.                                              *)

\* What is confirmed was put and is not outstanding.
LEMMA ConfirmedFacts ==
  ASSUME ConnectionTypeOK, Once
  PROVE  Confirmed \subseteq DOMAIN puts \ Outstanding /\ Confirmed \subseteq Nat
<1>1. OkIn(told) \subseteq PutsIn(told) /\ HeldOk(putsToAck) \subseteq PutsIn(putsToAck)
  BY DEF OkIn, HeldOk, PutsIn
<1>2. DOMAIN puts \subseteq Nat
  BY OutstandingFacts
<1> QED
  BY <1>1, <1>2 DEF Once, Confirmed

\* A put that is confirmed is older than all that may still be applied.
LEMMA KeptKept ==
  ASSUME ConnectionTypeOK, Linked, Restoring, PutsSent, Once, Kept,
         [ConnectionNext]_connectionVars
  PROVE  Kept'
<1> DEFINE Put(i) == i \in DOMAIN inFlight /\ inFlight[i].kind = "put"
           PutNow(i) == i \in DOMAIN inFlight' /\ inFlight'[i].kind = "put"
           Goal == /\ \A a \in Confirmed' : a <= value'
                   /\ \A a \in Confirmed' : \A p \in Outstanding' : a < p
                   /\ \A a \in Confirmed' : \A i : PutNow(i) => a < inFlight'[i].arg
                   /\ \A i : PutNow(i) /\ i <= served' /\ inFlight'[i].ok =>
                        inFlight'[i].arg <= value'
<1>1. SUFFICES Goal
  BY DEF Kept, RequestsOf
<1>2. /\ \A a \in Confirmed : a <= value
      /\ \A a \in Confirmed : \A p \in Outstanding : a < p
      /\ \A a \in Confirmed : \A i : Put(i) => a < inFlight[i].arg
      /\ \A i : Put(i) /\ i <= served /\ inFlight[i].ok => inFlight[i].arg <= value
  BY DEF Kept, RequestsOf
<1>3. /\ DOMAIN inFlight = 1..Len(inFlight) /\ Len(inFlight) \in Nat /\ served \in Nat
      /\ served <= Len(inFlight) /\ value \in Nat
      /\ \A i : Put(i) => inFlight[i].arg \in Nat
  <2>1. \A i \in DOMAIN inFlight : inFlight[i] \in RequestState
    BY InFlightConnected
  <2>2. \A i : Put(i) => inFlight[i].arg \in Nat
    BY <2>1 DEF RequestState
  <2> QED
    BY <2>2, InFlightConnected DEF ConnectionTypeOK
<1>4. \A i, j : Put(i) /\ Put(j) /\ i < j => inFlight[i].arg < inFlight[j].arg
  BY DEF PutsSent, RequestsOf
<1>5. /\ Confirmed \subseteq Nat /\ Confirmed \subseteq DOMAIN puts
      /\ Outstanding \subseteq Nat
  BY ConfirmedFacts, OutstandingFacts
<1>6. /\ putsToAck \in Seq(HeldAnswer) /\ told \in Seq(ToldAnswer)
      /\ HeldOk(<< >>) = {}
  BY DEF ConnectionTypeOK, HeldOk
<1>7. ASSUME UNCHANGED <<told, putsToAck>> PROVE Confirmed' = Confirmed
  BY <1>7 DEF Confirmed
<1>8. ASSUME Confirmed' = Confirmed, Outstanding' \subseteq Outstanding,
             UNCHANGED <<inFlight, served, value>>
      PROVE  Goal
  BY <1>2, <1>8
<1>9. ASSUME UNCHANGED <<told, putsToAck, puts, inFlight, served, value>> PROVE Goal
  <2>1. Outstanding' = Outstanding
    BY <1>9 DEF Outstanding
  <2> QED
    BY <1>7, <1>8, <1>9, <2>1
<1>10. ASSUME NEW S, NEW t, Lost(S, t) PROVE Goal
  <2>1. /\ told' = told \o t /\ t \in Seq(ToldAnswer) /\ OkIn(t) = {}
        /\ HeldOk(putsToAck') = HeldOk(putsToAck)
        /\ inFlight' = << >> /\ value' = value /\ Outstanding' \subseteq Outstanding
    BY <1>10 DEF Lost, Cancels
  <2>2. OkIn(told \o t) = OkIn(told) \cup OkIn(t)
    <3>1. told \in Seq(ToldAnswer) /\ t \in Seq(ToldAnswer)
      BY <1>6, <2>1
    <3> QED
      BY <3>1, AnswersJoin
  <2>3. Confirmed' = Confirmed
    BY <2>1, <2>2 DEF Confirmed
  <2>4. \A i : ~PutNow(i)
    BY <2>1
  <2> HIDE DEF PutNow
  <2> QED
    BY <1>2, <2>1, <2>3, <2>4
<1>11. ASSUME NEW rest, Restores(rest) PROVE Goal
  <2>1. /\ inFlight' \in Seq(RequestState) /\ Len(rest) \in Nat /\ served' <= Len(rest)
        /\ \A i \in 1..Len(rest) : inFlight'[i] = rest[i] /\ rest[i].kind # "put"
        /\ \A i \in DOMAIN inFlight' : i > Len(rest) /\ inFlight'[i].kind = "put" =>
             inFlight'[i].arg \in Outstanding
        /\ UNCHANGED <<told, putsToAck, value>> /\ Outstanding' = Outstanding /\ served' \in Nat
    BY <1>11 DEF Restores, Restored
  <2>2. \A i : PutNow(i) => i > Len(rest) /\ inFlight'[i].arg \in Outstanding /\ ~(i <= served')
    BY <2>1
  <2> HIDE DEF PutNow
  <2> QED
    BY <1>2, <1>7, <2>1, <2>2
<1>12. ASSUME NEW r, Sent(r), r.kind # "put", UNCHANGED <<told, putsToAck, puts, value>> PROVE Goal
  <2>1. \A i : PutNow(i) => Put(i) /\ inFlight'[i] = inFlight[i]
    BY <1>3, <1>12 DEF Sent
  <2>2. Outstanding' = Outstanding /\ served' = served
    BY <1>12 DEF Outstanding, Sent
  <2> HIDE DEF PutNow, Put
  <2> QED
    BY <1>2, <1>7, <1>12, <2>1, <2>2
<1>13. CASE onReady
  <2>1. CASE authToken = NoUser
    BY <1>11, <1>13, <2>1, RestoresFacts
  <2>2. CASE authToken # NoUser
    <3> DEFINE r == Request("auth", authToken, TRUE)
    <3>1. Sent(r) /\ UNCHANGED <<told, putsToAck, puts, value>>
      BY <1>13, <2>2, BeginsFacts
    <3>2. r.kind # "put"
      BY DEF Request
    <3> HIDE DEF r, Goal
    <3> QED
      BY <1>12, <3>1, <3>2
  <2> QED
    BY <2>1, <2>2
<1>14. ASSUME NEW q \in Query, listen(q), connected PROVE Goal
  <2>1. PICK n \in Nat : Sends(Request("listen", <<q, n>>, FALSE))
    BY <1>14, SendsFacts
  <2> DEFINE r == Request("listen", <<q, n>>, FALSE)
  <2>2. Sent(r) /\ r.kind # "put" /\ UNCHANGED <<told, putsToAck, puts, value>>
    BY <1>14, <2>1 DEF Sends, Request, listen, serverVars
  <2> HIDE DEF r, Goal
  <2> QED
    BY <1>12, <2>2
<1>15. ASSUME NEW u \in MaybeUser, refreshAuthToken(u), connected PROVE Goal
  <2> DEFINE r == Request(IF u = NoUser THEN "unauth" ELSE "auth", u, FALSE)
  <2>1. Sends(r)
    BY <1>15, SendsFacts
  <2>2. Sent(r) /\ r.kind # "put" /\ UNCHANGED <<told, putsToAck, puts, value>>
    BY <1>15, <2>1 DEF Sends, Request, refreshAuthToken, serverVars
  <2> HIDE DEF r, Goal
  <2> QED
    BY <1>12, <2>2
<1>16. ASSUME NEW hash \in BOOLEAN, put(hash) PROVE Goal
  <2> DEFINE p == Len(puts) + 1
             r == Request("put", p, FALSE)
  <2>1. Made
    BY <1>16, MadeFacts
  <2>2. /\ p \in Nat /\ UNCHANGED <<told, putsToAck, value>> /\ Outstanding' = Outstanding \cup {p}
        /\ served' = served /\ \A a \in Confirmed : a < p
    BY <1>5, <1>16, <2>1 DEF Made, put, serverVars
  <2>3. \A i : PutNow(i) => /\ \/ Put(i) /\ inFlight'[i] = inFlight[i]
                               \/ i > served /\ inFlight'[i].arg = p
                            /\ i \in Int
    <3>1. CASE canSendWrites
      <4>1. Sends(r)
        BY <1>16, <3>1, SendsFacts
      <4>2. r.arg = p
        BY DEF Request
      <4> HIDE DEF r, p
      <4>3. /\ DOMAIN inFlight' = 1..Len(inFlight) + 1 /\ inFlight'[Len(inFlight) + 1] = r
            /\ \A i \in 1..Len(inFlight) : inFlight'[i] = inFlight[i]
        BY <4>1 DEF Sends, Sent
      <4> QED
        BY <1>3, <4>2, <4>3
    <3>2. CASE ~canSendWrites
      BY <1>3, <1>16, <3>2 DEF put
    <3> QED
      BY <3>1, <3>2
  <2> HIDE DEF p, r, PutNow, Put
  <2>4. \A a \in Confirmed' : \A q \in Outstanding' : a < q
    BY <1>2, <1>7, <2>2
  <2>5. \A i : PutNow(i) /\ i <= served' => Put(i) /\ inFlight'[i] = inFlight[i]
    BY <1>3, <2>2, <2>3
  <2> QED
    BY <1>2, <1>7, <2>2, <2>3, <2>4, <2>5
<1>17. ASSUME NEW ok \in BOOLEAN, ServerHandles(ok) PROVE Goal
  <2> DEFINE n == served + 1
  <2>1. Handles(n, ok) /\ UNCHANGED <<told, putsToAck, puts>>
    BY <1>17, HandlesFacts DEF ServerHandles
  <2> HIDE DEF n
  <2>2. /\ DOMAIN inFlight' = DOMAIN inFlight /\ n \in DOMAIN inFlight /\ n = served + 1 /\ served' = n
        /\ \A i \in DOMAIN inFlight :
             /\ inFlight'[i].kind = inFlight[i].kind /\ inFlight'[i].arg = inFlight[i].arg
             /\ inFlight'[i].ok = IF i = n THEN ok ELSE inFlight[i].ok
        /\ value' = IF inFlight[n].kind = "put" /\ ok THEN inFlight[n].arg ELSE value
    BY <1>3, <2>1 DEF Handles
  <2>3. Outstanding' = Outstanding /\ Confirmed' = Confirmed
    BY <1>7, <2>1 DEF Outstanding
  <2>4. /\ \A i : PutNow(i) => /\ Put(i) /\ inFlight'[i].arg = inFlight[i].arg
                               /\ inFlight'[i].ok = IF i = n THEN ok ELSE inFlight[i].ok
                               /\ i \in Int
        /\ value' = IF Put(n) /\ ok THEN inFlight[n].arg ELSE value
    BY <1>3, <2>2
  <2> HIDE DEF PutNow, Put
  <2>5. \A a \in Confirmed' : a <= value'
    <3>1. CASE Put(n) /\ ok
      <4>1. \A a \in Confirmed' : a < inFlight[n].arg /\ inFlight[n].arg \in Nat /\ a \in Nat
        BY <1>2, <1>3, <1>5, <2>3, <3>1
      <4>2. value' = inFlight[n].arg
        BY <2>4, <3>1
      <4> QED
        BY <4>1, <4>2
    <3>2. CASE ~(Put(n) /\ ok)
      BY <1>2, <2>3, <2>4, <3>2
    <3> QED
      BY <3>1, <3>2
  <2>6. ASSUME NEW i, PutNow(i), i <= served', inFlight'[i].ok PROVE inFlight'[i].arg <= value'
    <3>1. Put(i) /\ inFlight'[i].arg = inFlight[i].arg /\ inFlight[i].arg \in Nat /\ i \in Int
      BY <1>3, <2>4, <2>6
    <3>2. CASE i = n
      BY <2>4, <2>6, <3>1, <3>2
    <3>3. CASE i # n
      <4>1. i <= served /\ i < n /\ inFlight[i].ok
        BY <1>3, <2>2, <2>4, <2>6, <3>1, <3>3
      <4>2. CASE Put(n) /\ ok
        <5>1. inFlight[i].arg < inFlight[n].arg /\ inFlight[n].arg \in Nat
          BY <1>3, <1>4, <3>1, <4>1, <4>2
        <5> QED
          BY <2>4, <3>1, <4>2, <5>1
      <4>3. CASE ~(Put(n) /\ ok)
        BY <1>2, <2>4, <3>1, <4>1, <4>3
      <4> QED
        BY <4>2, <4>3
    <3> QED
      BY <3>2, <3>3
  <2> QED
    BY <1>2, <2>3, <2>4, <2>5, <2>6
<1>18. ASSUME Takes, Outstanding' \subseteq Outstanding,
              \/ Confirmed' = Confirmed
              \/ /\ Confirmed' = Confirmed \cup {inFlight[1].arg}
                 /\ inFlight[1].kind = "put" /\ inFlight[1].ok /\ inFlight[1].arg \notin Outstanding'
       PROVE  Goal
  <2>1. /\ \A i \in DOMAIN inFlight' : inFlight'[i] = inFlight[i + 1] /\ i + 1 \in DOMAIN inFlight
                                       /\ i \in Int /\ 1 < i + 1
        /\ served' = served - 1 /\ value' = value /\ served >= 1 /\ 1 \in DOMAIN inFlight
        /\ connectionState = "Connected"
    BY <1>18 DEF Takes, Taken
  <2>2. \A i : PutNow(i) => /\ Put(i + 1) /\ inFlight'[i] = inFlight[i + 1] /\ i \in Int /\ 1 < i + 1
                            /\ i <= served' => i + 1 <= served
    BY <1>3, <2>1
  <2>3. CASE Confirmed' = Confirmed
    <3> HIDE DEF PutNow, Put
    <3> QED
      BY <1>2, <1>18, <2>1, <2>2, <2>3
  <2>4. CASE /\ Confirmed' = Confirmed \cup {inFlight[1].arg}
             /\ inFlight[1].kind = "put" /\ inFlight[1].ok /\ inFlight[1].arg \notin Outstanding'
    <3> DEFINE b == inFlight[1].arg
    <3>1. Put(1) /\ b \in Nat /\ b <= value
      BY <1>2, <1>3, <2>1, <2>4
    <3>2. \A i : Put(i) /\ 1 < i => b < inFlight[i].arg
      BY <1>4, <3>1
    <3>3. ASSUME NEW p \in Outstanding' PROVE b < p
      <4>1. PICK i \in RequestsOf("put") : inFlight[i].arg = p
        BY <1>18, <2>1 DEF PutsSent
      <4>2. Put(i) /\ i # 1 /\ i \in Nat \ {0}
        BY <1>3, <2>4, <4>1 DEF RequestsOf
      <4> QED
        BY <3>2, <4>1, <4>2
    <3> HIDE DEF PutNow, Put
    <3>4. \A a \in Confirmed' : a \in Confirmed \/ a = b
      BY <1>18, <2>4
    <3> HIDE DEF b
    <3>5. \A a \in Confirmed' : a <= value'
      BY <1>2, <2>1, <3>1, <3>4
    <3>6. \A a \in Confirmed' : \A p \in Outstanding' : a < p
      BY <1>2, <1>18, <3>3, <3>4
    <3>7. \A a \in Confirmed' : \A i : PutNow(i) => a < inFlight'[i].arg
      BY <1>2, <2>2, <3>2, <3>4
    <3> QED
      BY <1>2, <2>1, <2>2, <3>5, <3>6, <3>7
  <2> QED
    BY <1>18, <2>3, <2>4
<1>19. CASE UnauthAnswered \/ (AuthAnswered /\ Head(inFlight).ok /\ ~Head(inFlight).restore)
  <2>1. UNCHANGED <<told, putsToAck, puts>>
    BY <1>19 DEF UnauthAnswered, AuthAnswered
  <2>2. Outstanding' = Outstanding /\ Confirmed' = Confirmed
    BY <1>7, <2>1 DEF Outstanding
  <2> HIDE DEF Goal
  <2> QED
    BY <1>18, <1>19, <2>2, TakesFacts
<1>20. CASE AuthAnswered /\ Head(inFlight).ok /\ Head(inFlight).restore
  BY <1>11, <1>20, RestoresFacts
<1>21. CASE ListenAnswered
  <2>1. \/ UNCHANGED <<told, putsToAck>>
        \/ told' = told \o Acked /\ putsToAck' = << >>
    BY <1>21 DEF ListenAnswered
  <2>2. puts' = puts
    BY <1>21 DEF ListenAnswered
  <2>3. ASSUME told' = told \o Acked, putsToAck' = << >> PROVE Confirmed' = Confirmed
    <3>1. Acked \in Seq(ToldAnswer) /\ OkIn(Acked) = HeldOk(putsToAck)
      BY <1>6, AckedFacts
    <3>2. OkIn(told') = OkIn(told) \cup HeldOk(putsToAck)
      BY <1>6, <2>3, <3>1, AnswersJoin
    <3>3. HeldOk(putsToAck') = {}
      BY <1>6, <2>3
    <3> QED
      BY <3>2, <3>3 DEF Confirmed
  <2>4. Confirmed' = Confirmed
    BY <1>7, <2>1, <2>3
  <2>5. Outstanding' = Outstanding
    BY <2>2 DEF Outstanding
  <2> HIDE DEF Goal
  <2> QED
    BY <1>18, <1>21, <2>4, <2>5, TakesFacts
<1>22. CASE PutAnswered
  <2> DEFINE q == inFlight[1]
             a == q.arg
             x == [put |-> a, status |-> IF q.ok THEN "ok" ELSE "refused"]
             y == [put |-> a, ok |-> q.ok, lost |-> FALSE]
             C == IF q.ok THEN {a} ELSE {}
  <2>1. Takes /\ q.kind = "put" /\ q.ok \in BOOLEAN /\ a \in Nat /\ PutEnds
    BY <1>22, TakesFacts, PutEndsFacts
  <2>2. /\ x \in ToldAnswer /\ x.put = a /\ (x.status = "ok" <=> q.ok)
        /\ y \in HeldAnswer /\ y.put = a /\ y.ok = q.ok
    BY <2>1 DEF ToldAnswer, HeldAnswer
  <2>3. \/ UNCHANGED <<puts, told, putsToAck>>
        \/ Ends(a) /\ UNCHANGED putsToAck /\ told' = Append(told, x)
        \/ Ends(a) /\ UNCHANGED told /\ putsToAck' = Append(putsToAck, y)
    BY <2>1 DEF PutEnds
  <2> HIDE DEF x, y
  <2>4. CASE UNCHANGED <<puts, told, putsToAck>>
    <3>1. Outstanding' = Outstanding /\ Confirmed' = Confirmed
      BY <1>7, <2>4 DEF Outstanding
    <3> HIDE DEF Goal
    <3> QED
      BY <1>18, <2>1, <3>1
  <2>5. CASE Ends(a) /\ UNCHANGED putsToAck /\ told' = Append(told, x)
    <3>1. OkIn(told') = OkIn(told) \cup C
      BY <1>6, <2>2, <2>5, AnswersAppend
    <3>2. Confirmed' = Confirmed \cup C
      BY <2>5, <3>1 DEF Confirmed
    <3>3. Outstanding' \subseteq Outstanding /\ a \notin Outstanding'
      BY <2>5 DEF Ends
    <3>4. Confirmed' = Confirmed \/ (q.ok /\ Confirmed' = Confirmed \cup {a})
      BY <3>2
    <3> HIDE DEF Goal, C
    <3> QED
      BY <1>18, <2>1, <3>2, <3>3, <3>4
  <2>6. CASE Ends(a) /\ UNCHANGED told /\ putsToAck' = Append(putsToAck, y)
    <3>1. HeldOk(putsToAck') = HeldOk(putsToAck) \cup C
      BY <1>6, <2>2, <2>6, AnswersAppend
    <3>2. Confirmed' = Confirmed \cup C
      BY <2>6, <3>1 DEF Confirmed
    <3>3. Outstanding' \subseteq Outstanding /\ a \notin Outstanding'
      BY <2>6 DEF Ends
    <3>4. Confirmed' = Confirmed \/ (q.ok /\ Confirmed' = Confirmed \cup {a})
      BY <3>2
    <3> HIDE DEF Goal, C
    <3> QED
      BY <1>18, <2>1, <3>2, <3>3, <3>4
  <2> QED
    BY <2>3, <2>4, <2>5, <2>6
<1>23. CASE purgeOutstandingWrites
  <2>1. PICK t : Purged(t)
    BY <1>23, PurgedFacts
  <2>2. /\ told' = (told \o Acked) \o t /\ t \in Seq(ToldAnswer) /\ OkIn(t) = {}
        /\ putsToAck' = << >> /\ Outstanding' = {} /\ UNCHANGED <<inFlight, served, value>>
    BY <2>1 DEF Purged, Cancels
  <2> DEFINE s == told \o Acked
  <2>3. Acked \in Seq(ToldAnswer) /\ OkIn(Acked) = HeldOk(putsToAck)
    BY <1>6, AckedFacts
  <2>4. s \in Seq(ToldAnswer) /\ OkIn(s) = Confirmed
    BY <1>6, <2>3, AnswersJoin DEF Confirmed
  <2> HIDE DEF s
  <2>5. OkIn(s \o t) = OkIn(s) \cup OkIn(t)
    <3>1. s \in Seq(ToldAnswer) /\ t \in Seq(ToldAnswer)
      BY <2>2, <2>4
    <3> QED
      BY <3>1, AnswersJoin
  <2>6. told' = s \o t
    BY <2>2 DEF s
  <2>7. HeldOk(putsToAck') = {}
    BY <1>6, <2>2
  <2>8. Confirmed' = Confirmed
    BY <2>2, <2>4, <2>5, <2>6, <2>7 DEF Confirmed
  <2> HIDE DEF Goal
  <2> QED
    BY <1>8, <2>2, <2>8
<1>24. CASE Still
  BY <1>9, <1>24 DEF Still
<1> HIDE DEF Goal
<1> QED
  BY <1>10, <1>13, <1>14, <1>15, <1>16, <1>17, <1>19, <1>20, <1>21, <1>22, <1>23, <1>24, Kinds

-----------------------------------------------------------------------------
(* Whom the server takes the connection for.                               *)

\* The requests of g after those of f are not about the session.
LEMMA LeadsExtended ==
  ASSUME NEW f \in Seq(RequestState), NEW g \in Seq(RequestState), Len(f) <= Len(g),
         \A i \in DOMAIN f : g[i] = f[i],
         \A i \in DOMAIN g : i > Len(f) => g[i].kind \notin {"auth", "unauth"},
         NEW n, NEW sa, NEW u, Leads(f, n, sa, u)
  PROVE  Leads(g, n, sa, u)
<1>1. /\ DOMAIN f = 1..Len(f) /\ DOMAIN g = 1..Len(g) /\ Len(f) \in Nat /\ Len(g) \in Nat
  OBVIOUS
<1>2. Auths(g) = Auths(f) /\ \A i \in Auths(f) : g[i] = f[i]
  BY <1>1 DEF Auths
<1> QED
  BY <1>2 DEF Leads

\* The answer of the oldest request is taken.
LEMMA LeadsTaken ==
  ASSUME NEW f, Taken(f), NEW sa, NEW u, Leads(inFlight, served, sa, u),
         inFlight[1].kind \in {"auth", "unauth"} => inFlight[1].ok
  PROVE  Leads(f, served - 1, sa, u)
<1>1. /\ Len(inFlight) \in Nat /\ served \in 1..Len(inFlight) /\ DOMAIN f = 1..Len(inFlight) - 1
      /\ DOMAIN inFlight = 1..Len(inFlight)
      /\ \A i \in DOMAIN f : f[i] = inFlight[i + 1] /\ i \in Nat
  BY DEF Taken
<1>2. \A i : i \in Auths(f) <=> i \in Int /\ i + 1 \in Auths(inFlight) /\ i + 1 # 1
  BY <1>1 DEF Auths
<1>3. \A i \in Auths(inFlight) : i \in Int /\ i >= 1
  BY <1>1 DEF Auths
<1>4. CASE Auths(inFlight) = {} /\ sa = u
  BY <1>2, <1>4 DEF Leads
<1>5. ASSUME NEW k \in Auths(inFlight), \A j \in Auths(inFlight) : j <= k, inFlight[k].arg = u,
             k <= served /\ inFlight[k].ok => sa = u
      PROVE  Leads(f, served - 1, sa, u)
  <2>1. CASE k = 1
    <3>1. sa = u
      BY <1>1, <1>5, <2>1 DEF Auths
    <3>2. Auths(f) = {}
      <4>1. ASSUME NEW i \in Auths(f) PROVE FALSE
        <5>1. i \in Int /\ i + 1 \in Auths(inFlight) /\ i + 1 # 1 /\ i + 1 <= 1 /\ i + 1 >= 1
          BY <1>2, <1>3, <1>5, <2>1
        <5> QED
          BY <5>1
      <4> QED
        BY <4>1
    <3> QED
      BY <3>1, <3>2 DEF Leads
  <2>2. CASE k # 1
    <3>1. k \in Int /\ k - 1 \in Int /\ (k - 1) + 1 = k
      BY <1>3
    <3>2. k - 1 \in Auths(f)
      BY <1>2, <1>5, <2>2, <3>1
    <3>3. f[k - 1] = inFlight[k]
      BY <1>1, <3>1, <3>2 DEF Auths
    <3>4. \A j \in Auths(f) : j <= k - 1
      <4>1. ASSUME NEW j \in Auths(f) PROVE j <= k - 1
        <5>1. j \in Int /\ j + 1 <= k
          BY <1>2, <1>5
        <5> QED
          BY <3>1, <5>1
      <4> QED
        BY <4>1
    <3>5. k - 1 <= served - 1 /\ f[k - 1].ok => sa = u
      BY <1>1, <1>5, <3>1, <3>3
    <3> QED
      BY <1>5, <3>2, <3>3, <3>4, <3>5 DEF Leads
  <2> QED
    BY <2>1, <2>2
<1> QED
  BY <1>4, <1>5 DEF Leads

\* A request about the session is sent.
LEMMA LeadsSent ==
  ASSUME ConnectionTypeOK, NEW r, Sent(r), r.kind \in {"auth", "unauth"}, NEW sa
  PROVE  Leads(inFlight', served', sa, r.arg)
<1> DEFINE k == Len(inFlight) + 1
<1>1. /\ Len(inFlight) \in Nat /\ served' \in 0..Len(inFlight)
      /\ DOMAIN inFlight' = 1..k /\ inFlight'[k] = r
  BY DEF Sent, ConnectionTypeOK
<1>2. k \in Auths(inFlight') /\ (\A j \in Auths(inFlight') : j <= k) /\ ~(k <= served')
  BY <1>1 DEF Auths
<1> HIDE DEF k
<1> QED
  BY <1>1, <1>2 DEF Leads

\* The server handles a request.
LEMMA LeadsHandled ==
  ASSUME ConnectionTypeOK, NEW n, NEW ok, Handles(n, ok), NEW u,
         Leads(inFlight, served, serverAuth, u)
  PROVE  Leads(inFlight', served', serverAuth', u)
<1>1. /\ Len(inFlight) \in Nat /\ served \in Nat /\ n = served + 1 /\ served' = n
      /\ DOMAIN inFlight = 1..Len(inFlight) /\ DOMAIN inFlight' = 1..Len(inFlight)
      /\ n \in DOMAIN inFlight
      /\ \A i \in DOMAIN inFlight :
           /\ inFlight'[i].kind = inFlight[i].kind /\ inFlight'[i].arg = inFlight[i].arg
           /\ inFlight'[i].ok = IF i = n THEN ok ELSE inFlight[i].ok
  BY DEF Handles, ConnectionTypeOK
<1>2. serverAuth' = IF n \in Auths(inFlight) /\ ok THEN inFlight[n].arg ELSE serverAuth
  BY <1>1 DEF Handles, Auths
<1>3. Auths(inFlight') = Auths(inFlight) /\ \A i \in Auths(inFlight) : i \in DOMAIN inFlight /\ i \in Int
  BY <1>1 DEF Auths
<1>4. CASE Auths(inFlight) = {} /\ serverAuth = u
  BY <1>2, <1>3, <1>4 DEF Leads
<1>5. ASSUME NEW k \in Auths(inFlight), \A j \in Auths(inFlight) : j <= k, inFlight[k].arg = u,
             k <= served /\ inFlight[k].ok => serverAuth = u
      PROVE  Leads(inFlight', served', serverAuth', u)
  <2>1. inFlight'[k].arg = u /\ inFlight'[k].ok = IF k = n THEN ok ELSE inFlight[k].ok
    BY <1>1, <1>3, <1>5
  <2>2. k <= served' /\ inFlight'[k].ok => serverAuth' = u
    <3>1. CASE k = n
      BY <1>2, <1>5, <2>1, <3>1
    <3>2. CASE k # n
      <4>1. ASSUME k <= served' PROVE k <= served /\ n \notin Auths(inFlight)
        BY <1>1, <1>3, <1>5, <3>2, <4>1
      <4> QED
        BY <1>2, <1>5, <2>1, <3>2, <4>1
    <3> QED
      BY <3>1, <3>2
  <2> QED
    BY <1>3, <1>5, <2>1, <2>2 DEF Leads
<1> QED
  BY <1>4, <1>5 DEF Leads

\* The session changes with an announcement, and a connection begins with a
\* token.
LEMMA SessionFrame ==
  ASSUME ConnectionTypeOK, Linked, [ConnectionNext]_connectionVars
  PROVE  /\ connected' => \/ UNCHANGED <<authUser, overtaken>>
                          \/ \E u \in MaybeUser : refreshAuthToken(u)
         /\ connectionState' = "Connecting" /\ ~overtaken' =>
              \/ authToken' = authUser'
              \/ UNCHANGED <<connectionState, authToken, authUser, overtaken>>
<1> DEFINE Goal == /\ connected' => \/ UNCHANGED <<authUser, overtaken>>
                                    \/ \E u \in MaybeUser : refreshAuthToken(u)
                   /\ connectionState' = "Connecting" /\ ~overtaken' =>
                        \/ authToken' = authUser'
                        \/ UNCHANGED <<connectionState, authToken, authUser, overtaken>>
<1> SUFFICES Goal
  OBVIOUS
<1>1. ASSUME NEW reasons, Disconnects(reasons) PROVE connectionState' = "Disconnected"
  BY <1>1 DEF Disconnects
<1>2. ASSUME connectionState' \in {"Disconnected", "GettingToken"} PROVE Goal
  BY <1>2 DEF connected
<1>3. ASSUME UNCHANGED <<connectionState, authToken, authUser, overtaken>> PROVE Goal
  BY <1>3 DEF connected
<1>4. CASE Interrupt \/ onKill
  BY <1>1, <1>2, <1>4 DEF Interrupt, onKill, interruptForReason
<1>5. CASE Reachable \/ \E r \in {"waiting_for_open", "repo_interrupt"} : resumeForReason(r)
  BY <1>3, <1>5 DEF Reachable, resumeForReason
<1>6. CASE Retry
  BY <1>2, <1>6 DEF Retry
<1>7. ASSUME NEW ok \in BOOLEAN, TokenFetched(ok) PROVE Goal
  <2>1. CASE ~ok
    BY <1>2, <1>7, <2>1 DEF TokenFetched
  <2>2. CASE ok /\ connectionState = "GettingToken"
    BY <1>7, <2>2 DEF TokenFetched, connected
  <2>3. CASE ok /\ connectionState # "GettingToken"
    BY <1>3, <1>7, <2>3 DEF TokenFetched
  <2> QED
    BY <2>1, <2>2, <2>3
<1>8. CASE onReady
  BY <1>8 DEF onReady
<1>9. CASE onDisconnect \/ onAuthRevoked
  BY <1>1, <1>2, <1>9 DEF onDisconnect, onAuthRevoked
<1>10. ASSUME NEW q \in Query, listen(q) \/ unlisten(q) PROVE Goal
  BY <1>3, <1>10 DEF listen, unlisten, linkVars
<1>11. ASSUME NEW hash \in BOOLEAN, put(hash) PROVE Goal
  BY <1>3, <1>11 DEF put, linkVars
<1>12. ASSUME NEW u \in MaybeUser, refreshAuthToken(u) PROVE Goal
  BY <1>12 DEF refreshAuthToken
<1>13. ASSUME NEW ok \in BOOLEAN, ServerHandles(ok) PROVE Goal
  BY <1>3, <1>13 DEF ServerHandles, linkVars
<1>14. CASE AuthAnswered
  BY <1>1, <1>2, <1>14 DEF AuthAnswered
<1>15. CASE UnauthAnswered \/ ListenAnswered \/ PutAnswered \/ purgeOutstandingWrites
  BY <1>3, <1>15 DEF UnauthAnswered, ListenAnswered, PutAnswered, purgeOutstandingWrites, linkVars
<1>16. CASE UNCHANGED connectionVars
  BY <1>3, <1>16 DEF connectionVars
<1> HIDE DEF Goal
<1> QED
  BY <1>4, <1>5, <1>6, <1>7, <1>8, <1>9, <1>10, <1>11, <1>12, <1>13, <1>14, <1>15, <1>16
     DEF ConnectionNext, MaybeUser

\* Requests that stop a session are not refused.
LEMMA UnauthKept ==
  ASSUME ConnectionTypeOK, Linked, Restoring, SessionFollowed, [ConnectionNext]_connectionVars
  PROVE  \A i \in DOMAIN inFlight' : i <= served' /\ inFlight'[i].kind = "unauth" => inFlight'[i].ok
<1>1. PICK rest : Flight(rest)
  BY FlightFacts
<1>2. /\ \A i \in DOMAIN inFlight : i <= served /\ inFlight[i].kind = "unauth" => inFlight[i].ok
      /\ DOMAIN inFlight = 1..Len(inFlight) /\ Len(inFlight) \in Nat
      /\ served \in Nat /\ served <= Len(inFlight)
  BY InFlightConnected DEF SessionFollowed
<1> SUFFICES ASSUME NEW i \in DOMAIN inFlight', i <= served', inFlight'[i].kind = "unauth"
             PROVE  inFlight'[i].ok
  OBVIOUS
<1>3. CASE Still
  BY <1>2, <1>3 DEF Still
<1>4. CASE UNCHANGED <<inFlight, served, connectionState, serverAuth, value, unackedListensCount>>
  BY <1>2, <1>4
<1>5. CASE inFlight' = << >>
  BY <1>5
<1>6. ASSUME NEW r, Sent(r) PROVE inFlight'[i].ok
  <2>1. i \in DOMAIN inFlight /\ inFlight'[i] = inFlight[i] /\ i <= served
    BY <1>2, <1>6 DEF Sent
  <2> QED
    BY <1>2, <2>1
<1>7. CASE onReady /\ authToken # NoUser
  BY <1>6, <1>7, BeginsFacts
<1>8. ASSUME NEW r \in RequestState, Sends(r) PROVE inFlight'[i].ok
  BY <1>6, <1>8 DEF Sends
<1>9. ASSUME NEW n, NEW ok, Handles(n, ok) PROVE inFlight'[i].ok
  <2>1. i \in DOMAIN inFlight /\ inFlight[i].kind = "unauth" /\ i <= n /\ n = served + 1
        /\ inFlight'[i].ok = (IF i = n THEN ok ELSE inFlight[i].ok)
    BY <1>2, <1>9 DEF Handles
  <2>2. CASE i = n
    BY <1>9, <2>1, <2>2 DEF Handles
  <2>3. CASE i # n
    BY <1>2, <2>1, <2>3
  <2> QED
    BY <2>2, <2>3
<1>10. ASSUME NEW f, Taken(f), i \in DOMAIN f, inFlight'[i] = f[i], served' = served - 1
       PROVE  inFlight'[i].ok
  <2>1. f[i] = inFlight[i + 1] /\ i + 1 \in DOMAIN inFlight /\ i + 1 <= served
    BY <1>2, <1>10 DEF Taken
  <2> QED
    BY <1>2, <1>10, <2>1
<1>11. CASE Takes
  BY <1>10, <1>11 DEF Takes
<1>12. CASE Restores(rest)
  <2>1. i \in 1..Len(rest) /\ inFlight'[i] = rest[i] /\ DOMAIN rest = 1..Len(rest)
    BY <1>12 DEF Restores, Restored
  <2> QED
    BY <1>10, <1>12, <2>1 DEF Restores
<1> QED
  BY <1>1, <1>3, <1>4, <1>5, <1>7, <1>8, <1>9, <1>11, <1>12 DEF Flight

\* The server takes the connection for the user Auth announced last, or will.
LEMMA SessionKept ==
  ASSUME ConnectionTypeOK, Linked, Restoring, PutsSent, SessionFollowed,
         [ConnectionNext]_connectionVars
  PROVE  SessionFollowed'
<1>1. connectionState' = "Connecting" /\ ~overtaken' => authToken' = authUser'
  BY SessionFrame DEF SessionFollowed
<1>2. \A i \in DOMAIN inFlight' : i <= served' /\ inFlight'[i].kind = "unauth" => inFlight'[i].ok
  BY UnauthKept
<1> DEFINE Goal == Leads(inFlight', served', serverAuth', authUser')
<1>3. SUFFICES ASSUME connected', ~overtaken' PROVE Goal
  BY <1>1, <1>2 DEF SessionFollowed
<1>4. ASSUME NEW u \in MaybeUser, refreshAuthToken(u), connected PROVE Goal
  <2> DEFINE r == Request(IF u = NoUser THEN "unauth" ELSE "auth", u, FALSE)
  <2>1. Sent(r) /\ authUser' = u
    BY <1>4, SendsFacts DEF Sends, refreshAuthToken
  <2>2. r.kind \in {"auth", "unauth"} /\ r.arg = u
    BY DEF Request
  <2> HIDE DEF r
  <2> QED
    BY <2>1, <2>2, LeadsSent
<1>5. ASSUME ~\E u \in MaybeUser : refreshAuthToken(u)
      PROVE  UNCHANGED <<authUser, overtaken>> /\ ~overtaken
  BY <1>3, <1>5, SessionFrame
<1>6. ASSUME NEW u \in MaybeUser, refreshAuthToken(u) PROVE Goal
  <2>1. connected
    BY <1>3, <1>6 DEF refreshAuthToken, linkVars, connected
  <2> QED
    BY <1>4, <1>6, <2>1
<1>7. SUFFICES ASSUME UNCHANGED <<authUser, overtaken>>, ~overtaken,
                      ~\E u \in MaybeUser : refreshAuthToken(u)
               PROVE  Goal
  BY <1>5, <1>6
<1>8. connected => Leads(inFlight, served, serverAuth, authUser)
  BY <1>7 DEF SessionFollowed
<1>9. /\ DOMAIN inFlight = 1..Len(inFlight) /\ Len(inFlight) \in Nat /\ served \in Nat
      /\ served > 0 => connected
      /\ inFlight \in Seq(RequestState)
  BY InFlightConnected DEF ConnectionTypeOK
<1>10. ASSUME UNCHANGED <<inFlight, served, serverAuth>>, connected PROVE Goal
  BY <1>7, <1>8, <1>10
<1>11. CASE Still
  <2>1. connected /\ UNCHANGED <<inFlight, served, serverAuth>>
    BY <1>3, <1>11 DEF Still, connected
  <2> QED
    BY <1>10, <2>1
<1>12. CASE \E S, t : Lost(S, t)
  BY <1>3, <1>12 DEF Lost
<1>13. ASSUME NEW rest, Restores(rest) PROVE Goal
  <2>1. /\ rest \in Seq(RequestState) /\ inFlight' \in Seq(RequestState)
        /\ Len(rest) <= Len(inFlight') /\ serverAuth' = serverAuth
        /\ \A i \in DOMAIN rest : inFlight'[i] = rest[i]
        /\ \A i \in DOMAIN inFlight' : i > Len(rest) => inFlight'[i].kind \notin {"auth", "unauth"}
    <3>1. rest \in Seq(RequestState) /\ DOMAIN rest = 1..Len(rest)
      BY <1>13 DEF Restores
    <3> QED
      BY <1>13, <3>1 DEF Restores, Restored
  <2>2. Leads(rest, served', serverAuth, authUser)
    <3>1. CASE connectionState = "Connecting" /\ authToken = NoUser /\ rest = << >>
      <4>1. serverAuth = NoUser /\ authUser = NoUser
        BY <1>7, <3>1 DEF Linked, SessionFollowed, connected
      <4>2. Auths(rest) = {}
        BY <3>1 DEF Auths
      <4> QED
        BY <4>1, <4>2 DEF Leads
    <3>2. CASE /\ connectionState = "Authenticating" /\ Taken(rest) /\ served' = served - 1
               /\ inFlight[1].ok
      <4>1. Leads(inFlight, served, serverAuth, authUser)
        BY <1>8, <3>2 DEF connected
      <4> QED
        BY <3>2, <4>1, LeadsTaken
    <3> QED
      BY <1>13, <3>1, <3>2 DEF Restores
  <2>3. Leads(inFlight', served', serverAuth, authUser)
    BY <2>1, <2>2, LeadsExtended
  <2> QED
    BY <1>7, <2>1, <2>3
<1>14. ASSUME NEW r, Sent(r), r.kind \notin {"auth", "unauth"}, connected, serverAuth' = serverAuth
       PROVE  Goal
  <2>1. /\ inFlight' \in Seq(RequestState) /\ Len(inFlight) <= Len(inFlight') /\ served' = served
        /\ \A i \in DOMAIN inFlight : inFlight'[i] = inFlight[i]
        /\ \A i \in DOMAIN inFlight' : i > Len(inFlight) => inFlight'[i].kind \notin {"auth", "unauth"}
    <3>1. /\ inFlight' \in Seq(RequestState) /\ DOMAIN inFlight' = 1..Len(inFlight) + 1
          /\ Len(inFlight') = Len(inFlight) + 1 /\ served' = served
          /\ \A i \in 1..Len(inFlight) : inFlight'[i] = inFlight[i]
          /\ inFlight'[Len(inFlight) + 1] = r
      BY <1>14 DEF Sent
    <3>2. \A i \in DOMAIN inFlight' : i > Len(inFlight) => i = Len(inFlight) + 1
      BY <1>9, <3>1
    <3> QED
      BY <1>9, <1>14, <3>1, <3>2
  <2>2. Leads(inFlight', served, serverAuth, authUser)
    BY <1>8, <1>9, <1>14, <2>1, LeadsExtended
  <2> QED
    BY <1>7, <1>14, <2>1, <2>2
<1>15. CASE onReady
  <2>1. CASE authToken = NoUser
    BY <1>13, <1>15, <2>1, RestoresFacts
  <2>2. CASE authToken # NoUser
    <3> DEFINE r == Request("auth", authToken, TRUE)
    <3>1. Sent(r) /\ connectionState = "Connecting"
      BY <1>15, <2>2, BeginsFacts
    <3>2. r.kind = "auth" /\ r.arg = authToken
      BY DEF Request
    <3>3. authToken = authUser'
      BY <1>7, <3>1 DEF SessionFollowed
    <3> HIDE DEF r
    <3> QED
      BY <3>1, <3>2, <3>3, LeadsSent
  <2> QED
    BY <2>1, <2>2
<1>16. ASSUME NEW q \in Query, listen(q), connected PROVE Goal
  <2>1. PICK n \in Nat : Sends(Request("listen", <<q, n>>, FALSE))
    BY <1>16, SendsFacts
  <2> DEFINE r == Request("listen", <<q, n>>, FALSE)
  <2>2. Sent(r) /\ r.kind = "listen" /\ serverAuth' = serverAuth
    BY <2>1 DEF Sends, Request
  <2> HIDE DEF r, Goal
  <2> QED
    BY <1>14, <1>16, <2>2
<1>17. ASSUME NEW hash \in BOOLEAN, put(hash) PROVE Goal
  <2>1. connected /\ serverAuth' = serverAuth
    BY <1>3, <1>17 DEF put, linkVars, serverVars, connected
  <2>2. CASE canSendWrites
    <3> DEFINE r == Request("put", Len(puts) + 1, FALSE)
    <3>1. Sent(r) /\ r.kind = "put"
      BY <1>17, <2>2, SendsFacts DEF Sends, Request
    <3> HIDE DEF r, Goal
    <3> QED
      BY <1>14, <2>1, <3>1
  <2>3. CASE ~canSendWrites
    BY <1>10, <1>17, <2>1, <2>3 DEF put, serverVars
  <2> QED
    BY <2>2, <2>3
<1>18. ASSUME NEW ok \in BOOLEAN, ServerHandles(ok) PROVE Goal
  <2>1. Handles(served + 1, ok) /\ connected
    BY <1>3, <1>18, HandlesFacts DEF ServerHandles, linkVars, connected
  <2>2. Leads(inFlight', served', serverAuth', authUser)
    BY <1>8, <2>1, LeadsHandled
  <2> QED
    BY <1>7, <2>2
<1>19. ASSUME Takes, inFlight[1].kind \in {"auth", "unauth"} => inFlight[1].ok PROVE Goal
  <2>1. Taken(inFlight') /\ served' = served - 1 /\ serverAuth' = serverAuth /\ connected
    BY <1>19 DEF Takes, connected
  <2>2. Leads(inFlight', served - 1, serverAuth, authUser)
    BY <1>8, <1>19, <2>1, LeadsTaken
  <2> QED
    BY <1>7, <2>1, <2>2
<1>20. CASE \/ UnauthAnswered \/ ListenAnswered \/ PutAnswered
            \/ AuthAnswered /\ Head(inFlight).ok /\ ~Head(inFlight).restore
  <2>1. Takes
    BY <1>20, TakesFacts
  <2>2. Head(inFlight) = inFlight[1] /\ served >= 1 /\ 1 \in DOMAIN inFlight
    BY <1>9, <2>1 DEF Takes, Taken
  <2>3. inFlight[1].kind = "unauth" => inFlight[1].ok
    BY <2>2 DEF SessionFollowed
  <2>4. inFlight[1].kind = "auth" => inFlight[1].ok
    BY <1>20, <2>2 DEF UnauthAnswered, ListenAnswered, PutAnswered, Reply
  <2> HIDE DEF Goal
  <2> QED
    BY <1>19, <2>1, <2>3, <2>4
<1>21. CASE AuthAnswered /\ Head(inFlight).ok /\ Head(inFlight).restore
  BY <1>13, <1>21, RestoresFacts
<1>22. CASE purgeOutstandingWrites
  <2>1. connected /\ UNCHANGED <<inFlight, served, serverAuth>>
    BY <1>3, <1>22 DEF purgeOutstandingWrites, linkVars, serverVars, connected
  <2> QED
    BY <1>10, <2>1
<1> HIDE DEF Goal
<1> QED
  BY <1>7, <1>11, <1>12, <1>15, <1>16, <1>17, <1>18, <1>20, <1>21, <1>22, Kinds

-----------------------------------------------------------------------------
(* The invariant, and what it says of the connection.                      *)

\* The program starts in the invariant.
LEMMA ConnectionBegins == ConnectionInit => ConnectionInv
<1> SUFFICES ASSUME ConnectionInit PROVE ConnectionInv
  OBVIOUS
<1> USE DEF ConnectionInit
<1>1. Listening = {} /\ IsFiniteSet({}) /\ Cardinality({}) = 0
  BY FS_EmptySet DEF Listening
<1>2. Len(inFlight) = 0 /\ DOMAIN inFlight = {} /\ DOMAIN puts = {} /\ DOMAIN told = {}
      /\ DOMAIN putsToAck = {}
  OBVIOUS
<1>3. /\ puts \in Seq(PutState) /\ putsToAck \in Seq(HeldAnswer) /\ told \in Seq(ToldAnswer)
      /\ inFlight \in Seq(RequestState) /\ served \in 0..Len(inFlight)
  BY <1>2
<1>4. ConnectionTypeOK
  BY <1>1, <1>3 DEF ConnectionTypeOK, LinkState, MaybeUser, NoFetch
<1>5. Linked /\ Restoring
  BY <1>2 DEF Linked, Restoring, connected, NoFetch
<1>6. PutsSent /\ Kept
  <2>1. RequestsOf("put") = {} /\ Confirmed = {}
    BY <1>2 DEF RequestsOf, Confirmed, OkIn, HeldOk
  <2> QED
    BY <2>1 DEF PutsSent, Kept
<1>7. Once
  BY <1>2 DEF Once, Distinct, PutsIn, Outstanding
<1>8. WithheldForListens
  <2>1. RequestsOf("listen") = {}
    BY <1>2 DEF RequestsOf
  <2> QED
    BY <1>1, <1>2, <2>1 DEF WithheldForListens
<1>9. SessionFollowed
  BY <1>2 DEF SessionFollowed, connected
<1> QED
  BY <1>4, <1>5, <1>6, <1>7, <1>8, <1>9 DEF ConnectionInv

\* Every step keeps the invariant.
LEMMA ConnectionStep == ConnectionInv /\ [ConnectionNext]_connectionVars => ConnectionInv'
<1> SUFFICES ASSUME ConnectionInv, [ConnectionNext]_connectionVars PROVE ConnectionInv'
  OBVIOUS
<1>1. /\ ConnectionTypeOK /\ Linked /\ Restoring /\ PutsSent /\ Once /\ Kept
      /\ WithheldForListens /\ SessionFollowed
  BY DEF ConnectionInv
<1>2. ConnectionTypeOK'
  BY <1>1, TypesKept
<1>3. Linked'
  BY <1>1, LinkedKept
<1>4. Restoring'
  BY <1>1, RestoringKept
<1>5. PutsSent'
  BY <1>1, PutsSentKept
<1>6. Once'
  BY <1>1, OnceKept
<1>7. Kept'
  BY <1>1, KeptKept
<1>8. WithheldForListens'
  BY <1>1, WithheldKept
<1>9. SessionFollowed'
  BY <1>1, SessionKept
<1> QED
  BY <1>2, <1>3, <1>4, <1>5, <1>6, <1>7, <1>8, <1>9 DEF ConnectionInv

\* Whatever is lost, sent again, refused, answered late or purged, the
\* connection keeps the order of its puts, the count of its listens and the
\* session of its user.
THEOREM ConnectionInvariance == ConnectionSpec => []ConnectionInv
<1>1. ConnectionInit => ConnectionInv
  BY ConnectionBegins
<1>2. ConnectionInv /\ [ConnectionNext]_connectionVars => ConnectionInv'
  BY ConnectionStep
<1> QED
  BY <1>1, <1>2, PTL DEF ConnectionSpec

\* The answers in s to the put i: one or none.
LEMMA AnswersOf ==
  ASSUME NEW s, Distinct(s), NEW i
  PROVE  Cardinality({j \in DOMAIN s : s[j].put = i}) = IF i \in PutsIn(s) THEN 1 ELSE 0
<1> DEFINE A == {j \in DOMAIN s : s[j].put = i}
<1>1. CASE i \in PutsIn(s)
  <2>1. PICK j \in DOMAIN s : s[j].put = i
    BY <1>1 DEF PutsIn
  <2>2. A = {j}
    BY <2>1 DEF Distinct
  <2> QED
    BY <1>1, <2>2, FS_Singleton
<1>2. CASE i \notin PutsIn(s)
  <2>1. A = {}
    BY <1>2 DEF PutsIn
  <2> QED
    BY <1>2, <2>1, FS_EmptySet
<1> QED
  BY <1>1, <1>2

\* The invariant gives the four properties of the connection.
LEMMA SoundFromInvariant == ConnectionInv => ConnectionSound
<1> SUFFICES ASSUME ConnectionInv PROVE ConnectionSound
  OBVIOUS
<1>1. ConnectionTypeOK /\ Once /\ Kept /\ WithheldForListens /\ SessionFollowed
  BY DEF ConnectionInv
<1>2. PutsOnce
  <2> SUFFICES ASSUME NEW i \in DOMAIN puts
               PROVE  Cardinality(ToldOf(i)) + Cardinality(HeldOf(i)) + (IF puts[i].out THEN 1 ELSE 0) = 1
    BY DEF PutsOnce
  <2>1. /\ Cardinality(ToldOf(i)) = IF i \in PutsIn(told) THEN 1 ELSE 0
        /\ Cardinality(HeldOf(i)) = IF i \in PutsIn(putsToAck) THEN 1 ELSE 0
    BY <1>1, AnswersOf DEF Once, ToldOf, HeldOf
  <2>2. i \in Outstanding <=> puts[i].out
    BY DEF Outstanding
  <2>3. \/ i \in PutsIn(told) /\ i \notin PutsIn(putsToAck) /\ i \notin Outstanding
        \/ i \notin PutsIn(told) /\ i \in PutsIn(putsToAck) /\ i \notin Outstanding
        \/ i \notin PutsIn(told) /\ i \notin PutsIn(putsToAck) /\ i \in Outstanding
    BY <1>1 DEF Once
  <2> QED
    BY <2>1, <2>2, <2>3
<1>3. ConfirmedIsKept
  <2> SUFFICES ASSUME NEW j \in DOMAIN told, told[j].status = "ok" PROVE value >= told[j].put
    BY DEF ConfirmedIsKept
  <2>1. told[j].put \in Confirmed
    BY DEF Confirmed, OkIn
  <2>2. told[j].put <= value /\ told[j].put \in Nat /\ value \in Nat
    BY <1>1, <2>1, ConfirmedFacts DEF Kept, ConnectionTypeOK
  <2> QED
    BY <2>2
<1>4. AuthFollowsSession
  <2> SUFFICES ASSUME connected, RequestsOf("auth") \cup RequestsOf("unauth") = {}, ~overtaken
               PROVE  serverAuth = authUser
    BY DEF AuthFollowsSession
  <2>1. Auths(inFlight) = {}
    BY DEF Auths, RequestsOf
  <2> QED
    BY <1>1, <2>1 DEF SessionFollowed, Leads
<1> QED
  BY <1>1, <1>2, <1>3, <1>4 DEF ConnectionSound

\* No put is lost, answered twice or undone by an older one that is sent
\* again, no answer is withheld without a listen, and the server takes the
\* connection for the user Auth announced last.
THEOREM ConnectionAlwaysSound == ConnectionSpec => []ConnectionSound
BY ConnectionInvariance, SoundFromInvariant, PTL

=============================================================================

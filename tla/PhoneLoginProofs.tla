-------------------------- MODULE PhoneLoginProofs --------------------------
(***************************************************************************)
(* Signing in with a phone number is sound for any numbers and any bounds  *)
(* on the codes and sign-ins asked for.                                    *)
(***************************************************************************)
EXTENDS PhoneLogin, TLAPS

USE PhoneAssumption

MaybePhone == Phone \cup {NoPhone}
Code == DOMAIN requests                       \* verification ids
RequestState == [phone : Phone, live : BOOLEAN]
SignInState == [id : Nat, code : Nat, page : Int, pending : BOOLEAN]

PhoneTypeOK ==
    /\ confirming \in MaybePhone
    /\ requests \in Seq(RequestState)
    /\ unanswered \subseteq Code
    /\ authVID \in Code \cup {0}
    /\ signIns \in Seq(SignInState)
    /\ pages \in Seq(Nat)
    /\ shown \in MaybePhone
    /\ session \in MaybePhone
    /\ alone \in BOOLEAN

(* A code screen is only ever over a stored id.                            *)
CodeScreenHasId == \A p \in DOMAIN pages : pages[p] # 0 => authVID # 0

(* The id a sign-in was given is one Firebase made.                        *)
SignInHasId == \A i \in DOMAIN signIns : signIns[i].id \in Code

(* A profile presented with no other sign-in pending has the screens below *)
(* it covered: none is asked for, and none can change the session.         *)
CoveredIsQuiet == shown # NoPhone /\ alone => Pending = {} /\ shown = session

PhoneInv == PhoneTypeOK /\ CodeScreenHasId /\ SignInHasId /\ CoveredIsQuiet

-----------------------------------------------------------------------------
(* What is on the stack is what its places hold.                           *)
LEMMA PagesHold ==
    ASSUME PhoneTypeOK
    PROVE  ToSet(pages) \ {0} # {} => \E p \in DOMAIN pages : pages[p] # 0
  BY DEF ToSet

(* A sequence whose elements are changed in place.                         *)
LEMMA ChangedInPlace ==
    ASSUME NEW S, NEW T, NEW s \in Seq(S), NEW t \in [DOMAIN s -> T]
    PROVE  t \in Seq(T) /\ DOMAIN t = DOMAIN s
<1>1. Len(s) \in Nat /\ DOMAIN s = 1..Len(s)
  OBVIOUS
<1> QED
  BY <1>1

(* What a request and a sign-in keep when they are over.                   *)
LEMMA RecordsChanged ==
    /\ \A r \in RequestState, b \in BOOLEAN : [r EXCEPT !.live = b] \in RequestState
    /\ \A s \in SignInState : /\ [s EXCEPT !.pending = FALSE] \in SignInState
                             /\ [s EXCEPT !.pending = FALSE].id = s.id
                             /\ ~[s EXCEPT !.pending = FALSE].pending
  BY DEF RequestState, SignInState

(* The back button: the screens below stay.                                *)
LEMMA Popped ==
    ASSUME PhoneTypeOK, pages # <<>>
    PROVE  /\ Front(pages) \in Seq(Nat)
           /\ \A p \in DOMAIN Front(pages) : p \in DOMAIN pages /\ Front(pages)[p] = pages[p]
<1>1. Len(pages) \in Nat /\ DOMAIN pages = 1..Len(pages) /\ Len(pages) - 1 \in Nat
  BY DEF PhoneTypeOK
<1>2. Front(pages) = [p \in 1..(Len(pages) - 1) |-> pages[p]]
  BY <1>1 DEF Front
<1>3. \A p \in 1..(Len(pages) - 1) : p \in DOMAIN pages /\ pages[p] \in Nat
  BY <1>1 DEF PhoneTypeOK
<1> QED
  BY <1>1, <1>2, <1>3

(* performSegue: the code screen of request i, over what was there.        *)
LEMMA PushedFacts ==
    ASSUME PhoneTypeOK, NEW i \in Code
    PROVE  /\ Pushed(i) \in Seq(Nat)
           /\ \A p \in DOMAIN Pushed(i) :
                 \/ Pushed(i)[p] = i
                 \/ p \in DOMAIN pages /\ Pushed(i)[p] = pages[p]
  BY DEF PhoneTypeOK, Code, Pushed

(* A first launch, with no id stored.                                      *)
LEMMA PhoneInitInv == PhoneInit => PhoneInv
  BY DEF PhoneInit, PhoneInv, PhoneTypeOK, CodeScreenHasId, SignInHasId, CoveredIsQuiet,
         MaybePhone, Code

(* Every handler of the two screens, Firebase's answers in any order, and  *)
(* a new launch keep the invariant.                                        *)
LEMMA PhoneStepInv == PhoneInv /\ [PhoneNext]_phoneVars => PhoneInv'
<1> SUFFICES ASSUME PhoneInv, [PhoneNext]_phoneVars PROVE PhoneInv'
  OBVIOUS
<1> USE DEF PhoneInv, PhoneTypeOK, CodeScreenHasId, SignInHasId, CoveredIsQuiet, Code
<1>1. CASE OpenVerify
  BY <1>1 DEF OpenVerify, Pending
<1>2. CASE BackFromPage
  <2>1. requests' \in Seq(RequestState) /\ DOMAIN requests' = DOMAIN requests
    <3>1. ASSUME NEW i \in DOMAIN requests
          PROVE  [requests[i] EXCEPT !.live = @ /\ TopPage # 0] \in RequestState
      <4>1. requests[i] \in RequestState
        OBVIOUS
      <4> QED
        BY <4>1 DEF RequestState
    <3>2. requests' \in [DOMAIN requests -> RequestState]
      BY <1>2, <3>1 DEF BackFromPage
    <3> QED
      BY <3>2, ChangedInPlace
  <2>2. PhoneTypeOK' /\ CodeScreenHasId'
    BY <1>2, <2>1, Popped DEF BackFromPage
  <2> QED
    BY <1>2, <2>1, <2>2 DEF BackFromPage, Pending, Usable
<1>3. ASSUME NEW n \in Phone, SendCode(n)
      PROVE  PhoneInv'
  BY <1>3 DEF SendCode, Pending, MaybePhone
<1>4. ASSUME NEW yes \in BOOLEAN, Confirm(yes)
      PROVE  PhoneInv'
  <2>1. CASE UNCHANGED <<requests, unanswered>>
    BY <1>4, <2>1 DEF Confirm, Pending, MaybePhone
  <2>2. CASE /\ requests' = Append(requests, [phone |-> confirming, live |-> TRUE])
             /\ unanswered' = unanswered \cup {Len(requests) + 1}
    <3>1. [phone |-> confirming, live |-> TRUE] \in RequestState
      BY <1>4 DEF Confirm, RequestState, MaybePhone
    <3>2. requests' \in Seq(RequestState) /\ DOMAIN requests' = DOMAIN requests \cup {Len(requests) + 1}
      BY <2>2, <3>1
    <3> QED
      BY <1>4, <2>2, <3>2 DEF Confirm, Pending, MaybePhone
  <2> QED
    BY <1>4, <2>1, <2>2 DEF Confirm
<1>5. ASSUME NEW i \in DOMAIN requests, NEW ok \in BOOLEAN, VerifyAnswered(i, ok)
      PROVE  PhoneInv'
  <2>1. i # 0
    OBVIOUS
  <2> QED
    BY <1>5, <2>1, PushedFacts DEF VerifyAnswered, Pending
<1>6. ASSUME NEW code \in DOMAIN requests, LoginButton(code)
      PROVE  PhoneInv'
  <2> DEFINE s == [id |-> authVID, code |-> code, page |-> TopPage, pending |-> TRUE]
  <2>1. TopPage = pages[Len(pages)] /\ Len(pages) \in DOMAIN pages /\ TopPage \in Nat
    BY <1>6 DEF LoginButton, TopPage, Last
  <2>2. authVID \in DOMAIN requests
    BY <1>6, <2>1 DEF LoginButton
  <2>3. s \in SignInState /\ s.id = authVID
    BY <2>1, <2>2 DEF SignInState
  <2>4. /\ signIns' \in Seq(SignInState)
        /\ \A i \in DOMAIN signIns' : signIns'[i].id \in DOMAIN requests
    <3> HIDE DEF s
    <3>1. signIns' = Append(signIns, s)
      BY <1>6 DEF LoginButton, s
    <3> QED
      BY <2>2, <2>3, <3>1
  <2> QED
    BY <1>6, <2>4 DEF LoginButton, Usable
<1>7. ASSUME NEW i \in DOMAIN signIns, NEW ok \in BOOLEAN, SignInAnswered(i, ok)
      PROVE  PhoneInv'
  <2>1. /\ signIns' \in Seq(SignInState) /\ DOMAIN signIns' = DOMAIN signIns
        /\ signIns'[i].id = signIns[i].id /\ ~signIns'[i].pending
        /\ \A j \in DOMAIN signIns \ {i} : signIns'[j] = signIns[j]
    <3>1. signIns[i] \in SignInState
      OBVIOUS
    <3>2. signIns' = [signIns EXCEPT ![i].pending = FALSE]
      BY <1>7 DEF SignInAnswered
    <3>3. /\ signIns' \in [DOMAIN signIns -> SignInState]
          /\ signIns'[i] = [signIns[i] EXCEPT !.pending = FALSE]
          /\ \A j \in DOMAIN signIns \ {i} : signIns'[j] = signIns[j]
      BY <3>1, <3>2, RecordsChanged
    <3> QED
      BY <3>1, <3>3, RecordsChanged, ChangedInPlace
  <2>2. Pending' = Pending \ {i} /\ i \in Pending
    BY <1>7, <2>1 DEF Pending, SignInAnswered
  <2>3. requests[signIns[i].id].phone \in Phone \cup {NoPhone}
    <3>1. signIns[i].id \in DOMAIN requests
      OBVIOUS
    <3>2. requests[signIns[i].id] \in RequestState
      BY <3>1
    <3> QED
      BY <3>2 DEF RequestState
  <2> QED
    BY <1>7, <2>1, <2>2, <2>3 DEF SignInAnswered, Usable, MaybePhone
<1>8. CASE Relaunch
  <2>1. requests' \in Seq(RequestState) /\ DOMAIN requests' = DOMAIN requests
    <3>1. \A i \in DOMAIN requests : requests[i] \in RequestState
      OBVIOUS
    <3>2. requests' \in [DOMAIN requests -> RequestState]
      BY <1>8, <3>1, RecordsChanged DEF Relaunch
    <3> QED
      BY <3>2, ChangedInPlace
  <2>2. /\ signIns' \in Seq(SignInState) /\ DOMAIN signIns' = DOMAIN signIns
        /\ \A i \in DOMAIN signIns : signIns'[i].id = signIns[i].id
    <3>1. \A i \in DOMAIN signIns : signIns[i] \in SignInState
      OBVIOUS
    <3>2. signIns' \in [DOMAIN signIns -> SignInState]
      BY <1>8, <3>1, RecordsChanged DEF Relaunch
    <3>3. \A i \in DOMAIN signIns : signIns'[i].id = signIns[i].id
      BY <1>8, <3>1, RecordsChanged DEF Relaunch
    <3> QED
      BY <3>2, <3>3, ChangedInPlace
  <2> QED
    BY <1>8, <2>1, <2>2 DEF Relaunch, MaybePhone
<1>9. CASE UNCHANGED phoneVars
  BY <1>9 DEF phoneVars, Pending
<1> QED
  BY <1>1, <1>2, <1>3, <1>4, <1>5, <1>6, <1>7, <1>8, <1>9 DEF PhoneNext

-----------------------------------------------------------------------------
(* The invariant holds in every reachable state.                           *)
THEOREM PhoneInvariance == PhoneSpec => []PhoneInv
  BY PhoneInitInv, PhoneStepInv, PTL DEF PhoneSpec

(* PhoneLogInViewController never unwraps a missing id, a sign-in carries  *)
(* an id Firebase made, and the profile presented shows whom Firebase has  *)
(* signed in.                                                              *)
THEOREM PhoneAlwaysSound == PhoneSpec => []PhoneLoginSound
<1>1. PhoneInv => PhoneLoginSound
  BY PagesHold DEF PhoneInv, PhoneLoginSound, CodeScreenHasId, SignInHasId, CoveredIsQuiet, Code
<1> QED
  BY <1>1, PhoneInvariance, PTL

=============================================================================

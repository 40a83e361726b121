----------------------------- MODULE PhoneLogin -----------------------------
(***************************************************************************)
(* Signing in with a phone number: PhoneVerifyViewController asks Firebase *)
(* for a code, its answer leaves a verification id in UserDefaults, and    *)
(* PhoneLogInViewController signs in with that id and the code typed.      *)
(* Every handler runs on the main thread, in one step.                     *)
(***************************************************************************)
EXTENDS Integers, Sequences, FiniteSets, SequencesExt

CONSTANTS
  Phone,         \* phone numbers
  NoPhone,       \* no number
  MaxRequests,   \* bound: codes asked for
  MaxSignIns     \* bound: sign-ins asked for

ASSUME PhoneAssumption == NoPhone \notin Phone /\ MaxRequests \in Nat /\ MaxSignIns \in Nat

VARIABLES
  confirming,   \* the number in the alert of sendCodeButton, NoPhone if there is none
  requests,     \* codes asked for: [phone, live]; a request's place is its verification id,
                \* live while the screen that asked is on the stack
  unanswered,   \* requests Firebase has not answered
  authVID,      \* UserDefaults "authVID", 0 if unset
  signIns,      \* sign-ins with the credential's [id, code] and [page, pending]
  pages,        \* the stack above the login screen: 0 is the number screen, i the code
                \* screen pushed by the answer to request i
  shown,        \* the number on the profile that was presented, NoPhone if none was
  session,      \* the number Firebase has signed in
  alone         \* history: no other sign-in was pending when the profile was presented

phoneVars == <<confirming, requests, unanswered, authVID, signIns, pages, shown, session, alone>>

PhoneInit ==
  /\ confirming = NoPhone /\ requests = <<>> /\ unanswered = {} /\ authVID = 0
  /\ signIns = <<>> /\ pages = <<>> /\ shown = NoPhone /\ session = NoPhone /\ alone = TRUE

TopPage == IF pages = <<>> THEN -1 ELSE Last(pages)
Usable == shown = NoPhone /\ confirming = NoPhone      \* nothing is presented over the stack

Pending == {i \in DOMAIN signIns : signIns[i].pending}

\* The storyboard's button on the login screen, and the back button.
OpenVerify ==
  /\ pages = <<>> /\ shown = NoPhone /\ pages' = <<0>>
  /\ UNCHANGED <<confirming, requests, unanswered, authVID, signIns, shown, session, alone>>

BackFromPage ==
  /\ pages # <<>> /\ Usable /\ pages' = Front(pages)
  /\ requests' = [i \in DOMAIN requests |->
                    [requests[i] EXCEPT !.live = @ /\ TopPage # 0]]
  /\ UNCHANGED <<confirming, unanswered, authVID, signIns, shown, session, alone>>

\* sendCodeButton: the number is captured when the alert opens.
SendCode(n) ==
  /\ TopPage = 0 /\ Usable /\ confirming' = n
  /\ UNCHANGED <<requests, unanswered, authVID, signIns, pages, shown, session, alone>>

Confirm(yes) ==
  /\ confirming # NoPhone /\ confirming' = NoPhone
  /\ IF yes /\ Len(requests) < MaxRequests
     THEN /\ requests' = Append(requests, [phone |-> confirming, live |-> TRUE])
          /\ unanswered' = unanswered \cup {Len(requests) + 1}
     ELSE UNCHANGED <<requests, unanswered>>
  /\ UNCHANGED <<authVID, signIns, pages, shown, session, alone>>

\* performSegue("login"): from a screen that is covered too, but not from one
\* that was left.
Pushed(i) == IF requests[i].live THEN Append(pages, i) ELSE pages

(* Variant, never a step: the code screen is opened whatever the answer is. *)
VerifyAnsweredAnyway(i, ok) ==
  /\ i \in unanswered /\ unanswered' = unanswered \ {i}
  /\ pages' = Pushed(i)
  /\ authVID' = IF ok THEN i ELSE authVID
  /\ UNCHANGED <<confirming, requests, signIns, shown, session, alone>>

\* The completion of verifyPhoneNumber.
VerifyAnswered(i, ok) ==
  /\ i \in unanswered /\ unanswered' = unanswered \ {i}
  /\ IF ok THEN authVID' = i /\ pages' = Pushed(i) ELSE UNCHANGED <<authVID, pages>>
  /\ UNCHANGED <<confirming, requests, signIns, shown, session, alone>>

\* loginButton, with the code of one of the messages; the id is whatever was
\* stored last, and unwrapped unseen.
LoginButton(code) ==
  /\ TopPage > 0 /\ Usable /\ Len(signIns) < MaxSignIns
  /\ signIns' = Append(signIns, [id |-> authVID, code |-> code, page |-> TopPage, pending |-> TRUE])
  /\ UNCHANGED <<confirming, requests, unanswered, authVID, pages, shown, session, alone>>

\* The completion of signIn: Firebase signs in the number of an id whose code
\* was given.  The profile is presented if the screen is still there and
\* nothing is presented already.
SignInAnswered(i, ok) ==
  /\ i \in Pending
  /\ LET s == signIns[i] IN
       IF ok /\ s.id = s.code
       THEN /\ session' = requests[s.id].phone
            /\ IF Usable /\ s.page \in ToSet(pages)
               THEN shown' = requests[s.id].phone /\ alone' = (Pending = {i})
               ELSE UNCHANGED <<shown, alone>>
       ELSE UNCHANGED <<session, shown, alone>>
  /\ signIns' = [signIns EXCEPT ![i].pending = FALSE]
  /\ UNCHANGED <<confirming, requests, unanswered, authVID, pages>>

\* The app is killed and started again: the stored id and the session stay.
Relaunch ==
  /\ confirming' = NoPhone /\ unanswered' = {} /\ pages' = <<>> /\ shown' = NoPhone
  /\ signIns' = [i \in DOMAIN signIns |-> [signIns[i] EXCEPT !.pending = FALSE]]
  /\ requests' = [i \in DOMAIN requests |-> [requests[i] EXCEPT !.live = FALSE]]
  /\ alone' = TRUE
  /\ UNCHANGED <<authVID, session>>

PhoneNext ==
  \/ OpenVerify \/ BackFromPage
  \/ \E n \in Phone : SendCode(n)
  \/ \E yes \in BOOLEAN : Confirm(yes)
  \/ \E i \in DOMAIN requests, ok \in BOOLEAN : VerifyAnswered(i, ok)
  \/ \E code \in DOMAIN requests : LoginButton(code)
  \/ \E i \in DOMAIN signIns, ok \in BOOLEAN : SignInAnswered(i, ok)
  \/ Relaunch

PhoneSpec == PhoneInit /\ [][PhoneNext]_phoneVars

---------------------------------------------------------------------------
(* Properties                                                              *)

\* The code screen never unwraps a missing id, in whatever order answers and
\* restarts come; no sign-in is given the id of a number nobody confirmed; and
\* a profile presented with no other sign-in pending shows whom Firebase has
\* signed in for as long as it is up.
PhoneLoginSound ==
  /\ ToSet(pages) \ {0} # {} => authVID # 0
  /\ \A i \in DOMAIN signIns : signIns[i].id \in DOMAIN requests
  /\ shown # NoPhone /\ alone => shown = session

=============================================================================

---------------------------- MODULE AccountProofs ----------------------------
(***************************************************************************)
(* The app, for any number of people, calls, logins and requests.          *)
(*                                                                         *)
(* It uses Firebase's session and the Facebook SDK as their specifications *)
(* say.  Its safety invariants follow from one inductive invariant, in     *)
(* parts that hold each other up: what is known of the calls, of the       *)
(* screen, of everything after a sign-out, of the server's data, and, if   *)
(* Facebook is not used, of a call that nothing crossed.  The steps of the *)
(* app are first described by what they do to the calls and to the screen. *)
(***************************************************************************)
EXTENDS AccountApp, TLAPS

FBP == INSTANCE FBSDKProofs

(* The SDK's own names.                                                    *)
LEMMA FacebookNames ==
    /\ FBP!Init = FB!Init /\ FBP!TypeOK = FB!TypeOK /\ FBP!LoggedOutStays = FB!LoggedOutStays
  BY DEF FBP!Init, FB!Init, FBP!TypeOK, FB!TypeOK, FBP!LoggedOutStays, FB!LoggedOutStays,
    FBP!MaybeToken, FB!MaybeToken, FBP!Token, FB!Token, FBP!LoginState, FB!LoginState,
    FBP!FetchState, FB!FetchState, FBP!NoLogin, FB!NoLogin, FBP!NoRequest, FB!NoRequest

(* A step of one instance of FBSDK is a step of the other.                 *)
LEMMA FacebookNext == [FB!Next]_FB!vars => [FBP!Next]_FBP!vars
  BY DEF FBP!vars, FB!vars, FB!Next, FBP!Next, FB!LoginStep, FBP!LoginStep, FB!LogIn, FBP!LogIn,
    FB!NoLogin, FBP!NoLogin, FB!NoRequest, FBP!NoRequest, FB!Startable, FBP!Startable,
    FB!Started, FBP!Started, FB!SheetClosed, FBP!SheetClosed, FB!SheetGranted, FBP!SheetGranted,
    FB!Validated, FBP!Validated, FB!NotValidated, FBP!NotValidated, FB!LoggedIn, FBP!LoggedIn,
    FB!NotLoggedIn, FBP!NotLoggedIn, FB!SetCurrent, FBP!SetCurrent, FB!EndInError, FBP!EndInError,
    FB!Retried, FBP!Retried, FB!Known, FBP!Known, FB!Token, FBP!Token, FB!LogOut, FBP!LogOut,
    FB!StartFetch, FBP!StartFetch, FB!FetchAnswered, FBP!FetchAnswered, FB!FetchOk, FBP!FetchOk,
    FB!FetchFailed, FBP!FetchFailed, FB!FetchTransient, FBP!FetchTransient,
    FB!FetchInvalid, FBP!FetchInvalid, FB!RecoveryDeclined, FBP!RecoveryDeclined,
    FB!RecoveryAccepted, FBP!RecoveryAccepted, FB!Crash, FBP!Crash, FB!Launch, FBP!Launch

-----------------------------------------------------------------------------
(* The app uses the Facebook SDK as its specification says.                *)

(* Every step of the app is a step of the Facebook session, or leaves it.  *)
LEMMA FacebookStep == [Next]_vars => [FB!Next]_FB!vars
<1> SUFFICES ASSUME [Next]_vars PROVE [FB!Next]_FB!vars
  OBVIOUS
<1> USE DEF FB!vars, facebookVars
<1>1. CASE UNCHANGED vars
  BY <1>1 DEF vars
<1>2. CASE User
  <2>1. ASSUME NEW l \in Login, FbButton(l) PROVE FB!Next
    BY <2>1 DEF FbButton, FB!Next, FB!LoginStep
  <2>2. ASSUME NEW removed \in BOOLEAN, TapSignOut(removed) PROVE FB!Next
    BY <2>2 DEF TapSignOut, ProfileLogout, FB!Next
  <2> QED
    BY <1>2, <2>1, <2>2 DEF User, TapFirebase, SwitchButton, DismissAlert, TapGoogle
<1>3. ASSUME NEW c \in Call, Handler(c) PROVE UNCHANGED facebookVars
  BY <1>3 DEF Handler, CreateAnswered, SignInAnswered, ReadAnswered, GoogleCallAnswered, FbCallAnswered
<1>4. CASE Facebook
  <2>1. ASSUME NEW l \in Login, NEW load \in FB!Startable, NEW c \in Call, FbLoginEnds(l, load, c)
        PROVE  FB!Next
    BY <2>1 DEF FbLoginEnds, FB!Next, FB!LoginStep
  <2>2. CASE FbSilentStep
    <3>1. NoFetch \in FB!Startable
      BY DEF FB!Startable
    <3> QED
      BY <2>2, <3>1 DEF FbSilentStep, FB!Next, FB!LoginStep, FB!FetchAnswered
  <2>3. ASSUME NEW f \in Fetch, TransferFBData(f) PROVE FB!Next
    BY <2>3 DEF TransferFBData, FB!Next, FB!FetchAnswered
  <2> QED
    BY <1>4, <2>1, <2>2, <2>3 DEF Facebook
<1>5. CASE Google
  BY <1>5 DEF Google, GoogleSheetClosed, GoogleFailed, GoogleSigned
<1>6. CASE Server
  BY <1>6 DEF Server, Granted, Refused, ReadDenied, Expired, WriteAcknowledged, WriteRejected
<1>7. CASE Process
  <2>1. CASE FirstScreen
    BY <2>1 DEF FirstScreen, FB!Next
  <2> QED
    BY <1>7, <2>1 DEF Process, Crash, Launch, FB!Next
<1> QED
  BY <1>1, <1>2, <1>3, <1>4, <1>5, <1>6, <1>7 DEF Next

(* So what FBSDKProofs proves of it holds in the app.                      *)
FBInv == FBP!IInv

(* The SDK begins as FBSDKProofs assumes.                                  *)
LEMMA FBInvInit == FB!Init => FBInv
  BY FacebookNames, FBP!InvInit, NilsAreNil DEF FBInv, FBP!Token, FB!Token

(* Its invariant survives every step of the app.                           *)
LEMMA FBInvStep == FBInv /\ [Next]_vars => FBInv' /\ FB!TypeOK' /\ FB!LoggedOutStays'
<1>1. FBInv' => FB!TypeOK' /\ FB!LoggedOutStays'
  BY DEF FBInv, FBP!IInv, FBP!TypeOK, FB!TypeOK, FBP!LoggedOutStays, FB!LoggedOutStays,
    FBP!MaybeToken, FB!MaybeToken, FBP!Token, FB!Token, FBP!LoginState, FB!LoginState,
    FBP!FetchState, FB!FetchState
<1> QED
  BY <1>1, FacebookStep, FacebookNext, FBP!InvStep, NilsAreNil DEF FBInv, FBP!Token, FB!Token

(* What the app's proofs need of it.                                       *)
LEMMA FBInvFacts == FBInv => FB!TypeOK /\ FB!LoggedOutStays
  BY FacebookNames DEF FBInv, FBP!IInv

(* However a login ends, fbButton's handler runs.                          *)
LEMMA FbLoginHandled ==
    ASSUME NEW l \in Login, NEW load, NEW c, FbLoginEnds(l, load, c)
    PROVE  \E error \in BOOLEAN : FbButtonHandler(l, load, error, c)
<1>1. CASE \E error \in BOOLEAN : FbButtonHandler(l, load, error, c)
  BY <1>1
<1>2. CASE FbButtonHandler(l, load, TRUE, c)
  <2>1. WITNESS TRUE \in BOOLEAN
  <2> QED
    BY <1>2
<1>3. CASE FbButtonHandler(l, load, FALSE, c)
  <2>1. WITNESS FALSE \in BOOLEAN
  <2> QED
    BY <1>3
<1> QED
  BY <1>1, <1>2, <1>3, Zenon DEF FbLoginEnds

(* A login that ends had its sheet up, or was being validated.             *)
LEMMA FbLoginUnderWay ==
    ASSUME NEW l \in Login, NEW load, NEW c, FbLoginEnds(l, load, c)
    PROVE  login[l].stage \in {"sheet", "validating"}
<1>1. FB!SheetClosed(l, load) => login[l].stage = "sheet"
  BY DEF FB!SheetClosed
<1>2. \A p \in Person : FB!SheetGranted(l, p, load) => login[l].stage = "sheet"
  BY DEF FB!SheetGranted
<1>3. FB!Validated(l, load) \/ FB!NotValidated(l, load) => login[l].stage = "validating"
  BY DEF FB!Validated, FB!NotValidated
<1> QED
  BY <1>1, <1>2, <1>3, Zenon DEF FbLoginEnds

(* Every step of the app is a step of Firebase's session, or leaves it.    *)
LEMMA FirebaseStep == FBInv /\ [Next]_vars => [Auth!Next]_Auth!vars
<1> SUFFICES ASSUME FBInv, [Next]_vars PROVE [Auth!Next]_Auth!vars
  OBVIOUS
<1> USE DEF Auth!vars, authVars
<1>1. CASE UNCHANGED vars
  BY <1>1 DEF vars
<1>2. CASE User
  <2>1. ASSUME NEW c \in Call, NEW a \in Person, NEW form \in Form, TapFirebase(c, a, form)
        PROVE  [Auth!Next]_Auth!vars
    BY <2>1 DEF TapFirebase, Begin, Auth!Next
  <2>2. ASSUME NEW removed \in BOOLEAN, TapSignOut(removed) PROVE Auth!Next
    BY <2>2 DEF TapSignOut, ProfileLogout, Auth!Next
  <2> QED
    BY <1>2, <2>1, <2>2 DEF User, FbButton, SwitchButton, DismissAlert, TapGoogle
<1>3. ASSUME NEW c \in Call, Handler(c) PROVE [Auth!Next]_Auth!vars
  BY <1>3 DEF Handler, CreateAnswered, SignInAnswered, ReadAnswered, GoogleCallAnswered,
              FbCallAnswered, Auth!Next
<1>4. CASE Facebook
  <2>1. ASSUME NEW l \in Login, NEW load \in FB!Startable, NEW c \in Call, FbLoginEnds(l, load, c)
        PROVE  [Auth!Next]_Auth!vars
    <3>1. token' = NoToken \/ token'.user \in Person
      BY FBInvStep DEF FB!TypeOK, FB!MaybeToken, FB!Token
    <3>2. PICK error \in BOOLEAN : FbButtonHandler(l, load, error, c)
      BY <2>1, FbLoginHandled
    <3>3. \/ UNCHANGED authVars
          \/ token' # NoToken /\ Begin(c, token'.user, "fb", FALSE)
      BY <3>2 DEF FbButtonHandler
    <3> QED
      BY <3>1, <3>3 DEF Begin, Auth!Next
  <2> QED
    BY <1>4, <2>1 DEF Facebook, FbSilentStep, TransferFBData
<1>5. CASE Google
  BY <1>5 DEF Google, GoogleSheetClosed, GoogleFailed, GoogleSigned, Begin, Auth!Next
<1>6. CASE Server
  BY <1>6 DEF Server, Granted, Refused, ReadDenied, Expired, WriteAcknowledged, WriteRejected,
              Auth!Next
<1>7. CASE Process
  BY <1>7 DEF Process, Crash, Launch, FirstScreen, Auth!Next
<1> QED
  BY <1>1, <1>2, <1>3, <1>4, <1>5, <1>6, <1>7 DEF Next

(* The app calls FBSDKLoginManager, FBSDKAccessToken and                   *)
(* FBSDKGraphRequest only as FBSDK says: whatever is proved of FBSDK holds *)
(* of the Facebook session inside the app (fbButton, transferFBData,       *)
(* profileLogout of ViewController and ProfileViewController).             *)
THEOREM UsesFacebook == Spec => FB!Spec
<1>1. Init => FB!Init
  BY DEF Init
<1> QED
  BY <1>1, FacebookStep, PTL DEF Spec, FB!Spec

(* The SDK's invariant holds in the app.                                   *)
LEMMA FBInvariance == Spec => []FBInv
<1>1. Init => FBInv
  BY FBInvInit DEF Init
<1> QED
  BY <1>1, FBInvStep, PTL DEF Spec

(* The app's calls of Auth.auth() (createUser, signIn with a password or a *)
(* credential, signOut) are those of AuthSession, which FIRAuth implements. *)
THEOREM UsesFirebase == Spec => Auth!Spec
<1>1. Init => Auth!Init
  BY DEF Init
<1> QED
  BY <1>1, FirebaseStep, FBInvariance, PTL DEF Spec, Auth!Spec

-----------------------------------------------------------------------------
(* The Firebase calls.                                                     *)

Answers == {"none", "asked", "granted", "refused"}
Pending == {"create", "signIn", "google", "fb"}

(* A call that Firebase has not forgotten has its handler, and was made    *)
(* for somebody, who has an account once it is granted.                    *)
CallsTyped ==
    /\ durable \in Maybe /\ visible \in Maybe
    /\ answer \in [Call -> Answers]
    /\ asked \in [Call -> Maybe]
    /\ job \in [Call -> Job]
    /\ google \in [stage : {"idle", "sheet", "exchange"}, user : Maybe]
    /\ \A c \in Call :
        /\ answer[c] # "none" <=> job[c].kind \in Pending
        /\ answer[c] # "none" => asked[c] \in Person
        /\ answer[c] = "granted" => asked[c] \in accounts

(* Before the first screen, nothing has begun.                             *)
AtRest ==
    /\ ~running => screen = NoScreen
    /\ screen = NoScreen =>
        /\ \A c \in Call : job[c] = NoJob
        /\ google.stage = "idle"
        /\ \A l \in Login : login[l] = FB!NoLogin
        /\ \A f \in Fetch : fetch[f] = FB!NoRequest

(* What a step of the app does to the calls.                               *)
CallBegins(c) ==
    /\ \E a \in Person, kind \in Pending, weak \in BOOLEAN :
         /\ Begin(c, a, kind, weak)
         /\ kind = "fb" => \E l \in Login : login[l] # FB!NoLogin
    /\ \/ Uncovered
       \/ google.stage = "exchange"
       \/ \E l \in Login : login[l] # FB!NoLogin
    /\ UNCHANGED accounts

FlowBegins ==
    /\ Uncovered
    /\ job' = JobsCrossed
    /\ UNCHANGED <<authVars, accounts>>

CallEnds(c) ==
    /\ job[c].kind \in Pending
    /\ Auth!Tell(c) /\ JobDone(c)
    /\ UNCHANGED accounts

ReadBegins(c) ==
    /\ job[c].kind = "signIn" /\ answer[c] = "granted" /\ visible # Nobody
    /\ Auth!Tell(c)
    /\ job' = [job EXCEPT ![c].kind = "read", ![c].email = visible, ![c].uid = asked[c]]
    /\ UNCHANGED accounts

ReadEnds(c) ==
    /\ job[c].kind = "read"
    /\ JobDone(c)
    /\ UNCHANGED <<authVars, accounts>>

CallsForgotten ==
    /\ Auth!Stop
    /\ job' = [c \in Call |-> NoJob]
    /\ screen' = NoScreen

CallsKept ==
    /\ UNCHANGED <<answer, asked, job, accounts>>
    /\ durable' \in {durable, Nobody}
    /\ visible' \in {visible, Nobody} \/ (screen = NoScreen /\ visible' \in {durable, Nobody})

CallsStep ==
    \/ \E c \in Call : CallBegins(c) \/ Granted(c) \/ Refused(c) \/ CallEnds(c)
                       \/ ReadBegins(c) \/ ReadEnds(c)
    \/ FlowBegins
    \/ CallsForgotten
    \/ CallsKept

(* Every step of the app is one of these.                                  *)
LEMMA CallSteps ==
    ASSUME FBInv, AtRest, [Next]_vars
    PROVE  CallsStep
<1> USE DEF authVars, facebookVars
<1>1. CASE UNCHANGED vars
  BY <1>1 DEF vars, CallsStep, CallsKept
<1>2. CASE User
  <2>1. ASSUME NEW c \in Call, NEW a \in Person, NEW form \in Form, TapFirebase(c, a, form)
        PROVE  CallsStep
    <3>1. CASE form = "incomplete"
      BY <2>1, <3>1 DEF TapFirebase, CallsStep, CallsKept
    <3>2. CASE form # "incomplete"
      <4>1. /\ Begin(c, a, IF screen.signUpOrIn THEN "create" ELSE "signIn", form = "short")
            /\ accounts' = accounts /\ Uncovered
        BY <2>1, <3>2 DEF TapFirebase
      <4>2. PICK kind, weak : /\ kind = IF screen.signUpOrIn THEN "create" ELSE "signIn"
                              /\ weak = (form = "short")
        OBVIOUS
      <4>3. kind \in Pending /\ kind # "fb" /\ weak \in BOOLEAN
        BY <4>2 DEF Pending
      <4>4. CallBegins(c)
        BY <4>1, <4>2, <4>3 DEF CallBegins
      <4> QED
        BY <4>4 DEF CallsStep
    <3> QED
      BY <3>1, <3>2
  <2>2. ASSUME NEW removed \in BOOLEAN, TapSignOut(removed) PROVE CallsStep
    BY <2>2 DEF TapSignOut, ProfileLogout, Auth!SignOut, CallsStep, CallsKept
  <2>3. CASE SwitchButton \/ DismissAlert
    BY <2>3 DEF SwitchButton, DismissAlert, CallsStep, CallsKept
  <2>4. CASE TapGoogle \/ \E l \in Login : FbButton(l)
    BY <2>4 DEF TapGoogle, FbButton, CallsStep, FlowBegins
  <2> QED
    BY <1>2, <2>1, <2>2, <2>3, <2>4 DEF User
<1>3. ASSUME NEW c \in Call, Handler(c) PROVE CallsStep
  <2>1. CASE CreateAnswered(c) \/ GoogleCallAnswered(c) \/ FbCallAnswered(c)
    BY <2>1 DEF CreateAnswered, GoogleCallAnswered, FbCallAnswered, CallsStep, CallEnds, Pending
  <2>2. CASE SignInAnswered(c)
    BY <2>2 DEF SignInAnswered, CallsStep, CallEnds, ReadBegins, Pending
  <2>3. CASE ReadAnswered(c)
    BY <2>3 DEF ReadAnswered, CallsStep, ReadEnds
  <2> QED
    BY <1>3, <2>1, <2>2, <2>3 DEF Handler
<1>4. CASE Facebook
  <2>1. ASSUME NEW l \in Login, NEW load \in FB!Startable, NEW c \in Call, FbLoginEnds(l, load, c)
        PROVE  CallsStep
    <3>1. token' = NoToken \/ token'.user \in Person
      BY FBInvStep DEF FB!TypeOK, FB!MaybeToken, FB!Token
    <3>2. PICK error \in BOOLEAN : FbButtonHandler(l, load, error, c)
      BY <2>1, FbLoginHandled
    <3>3. /\ \/ UNCHANGED <<authVars, job>>
             \/ token' # NoToken /\ Begin(c, token'.user, "fb", FALSE)
          /\ accounts' = accounts
      BY <3>2 DEF FbButtonHandler
    <3>4. FALSE \in BOOLEAN /\ "fb" \in Pending /\ login[l] # FB!NoLogin
      BY <2>1, FbLoginUnderWay DEF Pending, FB!NoLogin
    <3> QED
      BY <3>1, <3>3, <3>4 DEF CallsStep, CallsKept, CallBegins
  <2> QED
    BY <1>4, <2>1 DEF Facebook, FbSilentStep, TransferFBData, CallsStep, CallsKept
<1>5. CASE Google
  <2>1. ASSUME NEW p \in Person, NEW c \in Call, GoogleSigned(p, c) PROVE CallsStep
    <3>1. Begin(c, p, "google", FALSE) /\ accounts' = accounts /\ google.stage = "exchange"
      BY <2>1 DEF GoogleSigned
    <3>2. FALSE \in BOOLEAN /\ "google" \in Pending
      BY DEF Pending
    <3> QED
      BY <3>1, <3>2 DEF CallsStep, CallBegins
  <2> QED
    BY <1>5, <2>1 DEF Google, GoogleSheetClosed, GoogleFailed, CallsStep, CallsKept
<1>6. CASE Server
  BY <1>6 DEF Server, ReadDenied, Expired, Auth!Expire, WriteAcknowledged,
              WriteRejected, CallsStep, CallsKept, ReadEnds
<1>7. CASE Process
  <2>1. CASE Crash
    BY <2>1 DEF Crash, CallsStep, CallsForgotten
  <2>2. ASSUME NEW readable \in BOOLEAN, Launch(readable) PROVE CallsStep
    BY <2>2 DEF Launch, FB!Launch, Auth!Start, AtRest, CallsStep, CallsKept
  <2>3. CASE FirstScreen
    BY <2>3 DEF FirstScreen, CallsStep, CallsKept
  <2> QED
    BY <1>7, <2>1, <2>2, <2>3 DEF Process
<1> QED
  BY <1>1, <1>2, <1>3, <1>4, <1>5, <1>6, <1>7 DEF Next

(* A job that is crossed is the same job, with the worse overlap.          *)
LEMMA CrossedFacts ==
    ASSUME NEW j \in Job, NEW overlap \in {"flow", "call"}
    PROVE  LET k == Crossed(j, overlap) IN
           /\ k \in Job /\ k.kind = j.kind /\ k.email = j.email /\ k.uid = j.uid
           /\ k.weak = j.weak
           /\ k = NoJob <=> j = NoJob
           /\ j.overlap = "call" => k.overlap = "call"
           /\ j # NoJob => k.overlap # "none"
           /\ j # NoJob /\ overlap = "call" => k.overlap = "call"
<1>1. CASE j = NoJob
  BY <1>1 DEF Crossed
<1>2. CASE j # NoJob
  <2>1. PICK w : w = Worst({j.overlap, overlap})
    OBVIOUS
  <2>2. /\ w \in {"flow", "call"} /\ (j.overlap = "call" => w = "call")
        /\ overlap = "call" => w = "call"
    BY <2>1 DEF Worst
  <2>3. Crossed(j, overlap) = [j EXCEPT !.overlap = w]
    BY <1>2, <2>1 DEF Crossed
  <2>4. w \in Overlap
    BY <2>2 DEF Overlap
  <2> QED
    BY <1>2, <2>2, <2>3, <2>4 DEF Job, NoJob
<1> QED
  BY <1>1, <1>2

(* No handler.                                                             *)
LEMMA NoJobFacts == NoJob \in Job /\ NoJob.kind = "none" /\ NoJob.overlap = "none"
  BY DEF NoJob, Job, Maybe, Overlap

(* What a call that begins does to the others.                             *)
LEMMA BeginFacts ==
    ASSUME CallsTyped, NEW c \in Call, NEW a \in Person, NEW kind \in Pending,
           NEW weak \in BOOLEAN, Begin(c, a, kind, weak)
    PROVE  /\ answer[c] = "none" /\ answer' = [answer EXCEPT ![c] = "asked"]
           /\ asked' = [asked EXCEPT ![c] = a] /\ UNCHANGED <<durable, visible>>
           /\ job' \in [Call -> Job]
           /\ job'[c].kind = kind /\ job'[c] # NoJob
           /\ (\E d \in Call : answer[d] # "none") => job'[c].overlap = "call"
           /\ job'[c].overlap = "none" => Alone
           /\ \A d \in Call \ {c} :
                /\ job'[d].kind = job[d].kind /\ job'[d].email = job[d].email
                /\ job'[d].uid = job[d].uid
                /\ job'[d] = NoJob <=> job[d] = NoJob
                /\ job[d].overlap = "call" => job'[d].overlap = "call"
                /\ job[d] # NoJob => job'[d].overlap # "none"
                /\ answer[d] # "none" => job'[d].overlap = "call"
<1>1. /\ answer[c] = "none" /\ answer' = [answer EXCEPT ![c] = "asked"]
      /\ asked' = [asked EXCEPT ![c] = a] /\ UNCHANGED <<durable, visible>>
  BY DEF Begin, Auth!Ask
<1> DEFINE others == {d \in Call : answer[d] # "none"}
           overlap == CASE others # {} -> "call"
                        [] others = {} /\ ~Alone -> "flow"
                        [] OTHER -> "none"
           mine == [NoJob EXCEPT !.kind = kind, !.weak = weak, !.overlap = overlap]
           worse(d) == IF d \in others THEN "call" ELSE "flow"
<1>2. job' = [d \in Call |-> IF d = c THEN mine ELSE Crossed(job[d], worse(d))]
  BY DEF Begin
<1>3. /\ overlap \in Overlap /\ (others # {} => overlap = "call")
      /\ overlap = "none" => Alone
  BY DEF Overlap
<1>4. mine \in Job /\ mine.kind = kind /\ mine.overlap = overlap /\ mine # NoJob
  <2> HIDE DEF overlap
  <2> QED
    BY <1>3, NoJobFacts DEF Job, Pending
<1>5. ASSUME NEW d \in Call \ {c}
      PROVE  /\ job'[d] \in Job
             /\ job'[d].kind = job[d].kind /\ job'[d].email = job[d].email
             /\ job'[d].uid = job[d].uid
             /\ job'[d] = NoJob <=> job[d] = NoJob
             /\ job[d].overlap = "call" => job'[d].overlap = "call"
             /\ job[d] # NoJob => job'[d].overlap # "none"
             /\ answer[d] # "none" => job'[d].overlap = "call"
  <2>1. job[d] \in Job /\ worse(d) \in {"flow", "call"} /\ job'[d] = Crossed(job[d], worse(d))
    BY <1>2 DEF CallsTyped
  <2>2. answer[d] # "none" => worse(d) = "call" /\ job[d] # NoJob
    BY NoJobFacts DEF CallsTyped, Pending
  <2> HIDE DEF worse
  <2> QED
    BY <2>1, <2>2, CrossedFacts
<1> HIDE DEF mine, worse, overlap
<1>6. job' \in [Call -> Job] /\ job'[c] = mine
  BY <1>2, <1>4, <1>5
<1> QED
  BY <1>1, <1>3, <1>4, <1>5, <1>6

(* A call after its end, told or forgotten.                                *)
LEMMA EndFacts ==
    ASSUME CallsTyped, NEW c \in Call, CallEnds(c) \/ ReadBegins(c)
    PROVE  /\ answer' = [answer EXCEPT ![c] = "none"]
           /\ asked' = [asked EXCEPT ![c] = Nobody]
           /\ UNCHANGED <<durable, visible, accounts>>
           /\ job' \in [Call -> Job] /\ \A d \in Call \ {c} : job'[d] = job[d]
           /\ \/ job'[c] = NoJob
              \/ /\ answer[c] = "granted" /\ job[c] # NoJob
                 /\ job'[c].kind = "read" /\ job'[c].email = visible /\ job'[c].uid = asked[c]
                 /\ job'[c].overlap = job[c].overlap /\ visible # Nobody
<1>1. /\ answer' = [answer EXCEPT ![c] = "none"]
      /\ asked' = [asked EXCEPT ![c] = Nobody]
      /\ UNCHANGED <<durable, visible, accounts>>
  BY DEF CallEnds, ReadBegins, Auth!Tell
<1>2. CASE CallEnds(c)
  BY <1>1, <1>2, NoJobFacts DEF CallEnds, JobDone, CallsTyped
<1>3. CASE ReadBegins(c)
  <2>1. job[c] \in Job /\ visible \in Maybe /\ asked[c] \in Maybe /\ visible # Nobody
        /\ answer[c] = "granted" /\ job[c].kind = "signIn"
    BY <1>3 DEF CallsTyped, ReadBegins
  <2>2. job' = [job EXCEPT ![c] = [job[c] EXCEPT !.kind = "read", !.email = visible, !.uid = asked[c]]]
    BY <1>3, <2>1 DEF ReadBegins, CallsTyped
  <2>3. [job[c] EXCEPT !.kind = "read", !.email = visible, !.uid = asked[c]] \in Job
    BY <2>1 DEF Job
  <2>4. job'[c] = [job[c] EXCEPT !.kind = "read", !.email = visible, !.uid = asked[c]]
    BY <2>2 DEF CallsTyped
  <2> QED
    BY <1>1, <2>1, <2>2, <2>3, <2>4, NoJobFacts DEF CallsTyped, Job
<1> QED
  BY <1>2, <1>3

(* Another flow begins.                                                    *)
LEMMA FlowFacts ==
    ASSUME CallsTyped, job' = JobsCrossed
    PROVE  /\ job' \in [Call -> Job]
           /\ \A c \in Call :
                /\ job'[c].kind = job[c].kind /\ job'[c].email = job[c].email
                /\ job'[c].uid = job[c].uid
                /\ job'[c] = NoJob <=> job[c] = NoJob
                /\ job[c].overlap = "call" => job'[c].overlap = "call"
                /\ job[c] # NoJob => job'[c].overlap # "none"
<1>1. job' = [c \in Call |-> Crossed(job[c], "flow")]
  BY DEF JobsCrossed
<1>2. \A c \in Call : job[c] \in Job
  BY DEF CallsTyped
<1> QED
  BY <1>1, <1>2, CrossedFacts

(* The end of a read.                                                      *)
LEMMA ReadEndFacts ==
    ASSUME CallsTyped, NEW c \in Call, ReadEnds(c)
    PROVE  /\ UNCHANGED <<answer, asked, visible, durable, accounts>>
           /\ job' \in [Call -> Job] /\ \A d \in Call \ {c} : job'[d] = job[d]
           /\ job'[c] = NoJob /\ job[c].kind = "read" /\ answer[c] = "none"
  BY NoJobFacts DEF ReadEnds, JobDone, CallsTyped, authVars, Pending

(* The calls keep their types and their handlers.                          *)
LEMMA CallsTypedInv ==
    ASSUME CallsTyped, CallsStep, google' \in [stage : {"idle", "sheet", "exchange"}, user : Maybe]
    PROVE  CallsTyped'
<1> USE DEF Maybe
<1>1. ASSUME NEW c \in Call, CallBegins(c) PROVE CallsTyped'
  <2>1. PICK a \in Person, kind \in Pending, weak \in BOOLEAN : Begin(c, a, kind, weak)
    BY <1>1 DEF CallBegins
  <2>2. accounts' = accounts
    BY <1>1 DEF CallBegins
  <2> QED
    BY <2>1, <2>2, BeginFacts DEF CallsTyped, Answers
<1>2. ASSUME NEW c \in Call, Granted(c) PROVE CallsTyped'
  <2>1. /\ answer[c] = "asked" /\ answer' = [answer EXCEPT ![c] = "granted"]
        /\ durable' = asked[c] /\ visible' = asked[c] /\ asked' = asked
        /\ accounts' = accounts \cup {asked[c]} /\ job' = job
    BY <1>2 DEF Granted, Auth!Grant
  <2> QED
    BY <2>1 DEF CallsTyped, Answers
<1>3. ASSUME NEW c \in Call, Refused(c) PROVE CallsTyped'
  <2>1. /\ answer[c] = "asked" /\ answer' = [answer EXCEPT ![c] = "refused"]
        /\ UNCHANGED <<durable, visible, asked, job>> /\ accounts \subseteq accounts'
    BY <1>3 DEF Refused, Auth!Refuse
  <2> QED
    BY <2>1 DEF CallsTyped, Answers
<1>4. ASSUME NEW c \in Call, CallEnds(c) \/ ReadBegins(c) PROVE CallsTyped'
  BY <1>4, EndFacts, NoJobFacts DEF CallsTyped, Answers, Pending
<1>5. ASSUME NEW c \in Call, ReadEnds(c) PROVE CallsTyped'
  BY <1>5, ReadEndFacts, NoJobFacts DEF CallsTyped, Pending
<1>6. CASE FlowBegins
  BY <1>6, FlowFacts DEF CallsTyped, FlowBegins, authVars
<1>7. CASE CallsForgotten
  BY <1>7, NoJobFacts DEF CallsTyped, CallsForgotten, Auth!Stop, Auth!Nothing, Auth!Unasked, Answers, Pending
<1>8. CASE CallsKept
  BY <1>8 DEF CallsTyped, CallsKept
<1> QED
  BY <1>1, <1>2, <1>3, <1>4, <1>5, <1>6, <1>7, <1>8 DEF CallsStep

-----------------------------------------------------------------------------
(* One account in a profile.                                               *)

(* Calls that are unanswered at the same time have crossed.                *)
CallsCross ==
    \A c, d \in Call : c # d /\ answer[c] # "none" /\ answer[d] # "none"
                         => job[c].overlap = "call"

(* So, if a call did not cross another, who is signed in is whom it asked  *)
(* for, until it is answered.                                              *)
GrantedIsVisible ==
    \A c \in Call : answer[c] = "granted" /\ job[c].overlap # "call"
                      => visible \in {Nobody, asked[c]}

(* A read has captured one account, then.                                  *)
ReadsOneAccount ==
    \A c \in Call : job[c].kind = "read" /\ job[c].overlap # "call" => job[c].email = job[c].uid

CallsInv == CallsTyped /\ CallsCross /\ GrantedIsVisible /\ ReadsOneAccount

(* No step of the app mixes two accounts but by crossed calls.             *)
LEMMA CallsInvStep ==
    ASSUME CallsInv, AtRest, CallsStep,
           google' \in [stage : {"idle", "sheet", "exchange"}, user : Maybe]
    PROVE  CallsInv'
<1> USE DEF CallsInv
<1>0. CallsTyped'
  BY CallsTypedInv
<1> SUFFICES CallsCross' /\ GrantedIsVisible' /\ ReadsOneAccount'
  BY <1>0
<1> USE DEF CallsCross, GrantedIsVisible, ReadsOneAccount
<1>1. ASSUME NEW c \in Call, CallBegins(c) PROVE CallsCross' /\ GrantedIsVisible' /\ ReadsOneAccount'
  <2>1. PICK a \in Person, kind \in Pending, weak \in BOOLEAN : Begin(c, a, kind, weak)
    BY <1>1 DEF CallBegins
  <2>2. \A d \in Call \ {c} : answer'[d] = answer[d] /\ asked'[d] = asked[d]
    BY <2>1, BeginFacts DEF CallsTyped
  <2>3. answer'[c] = "asked" /\ job'[c].kind # "read"
    BY <2>1, BeginFacts DEF CallsTyped, Pending
  <2>4. CallsCross'
    <3>1. ASSUME NEW d \in Call, NEW e \in Call, d # e, answer'[d] # "none", answer'[e] # "none"
          PROVE  job'[d].overlap = "call"
      <4>1. CASE d = c
        BY <2>1, <2>2, <3>1, <4>1, BeginFacts
      <4>2. CASE d # c
        BY <2>1, <2>2, <3>1, <4>2, BeginFacts
      <4> QED
        BY <4>1, <4>2
    <3> QED
      BY <3>1
  <2>5. GrantedIsVisible'
    BY <2>1, <2>2, <2>3, BeginFacts
  <2>6. ReadsOneAccount'
    BY <2>1, <2>3, BeginFacts
  <2> QED
    BY <2>4, <2>5, <2>6
<1>2. ASSUME NEW c \in Call, Granted(c) PROVE CallsCross' /\ GrantedIsVisible' /\ ReadsOneAccount'
  <2>1. /\ answer[c] = "asked" /\ answer' = [answer EXCEPT ![c] = "granted"]
        /\ visible' = asked[c] /\ asked' = asked /\ job' = job
    BY <1>2 DEF Granted, Auth!Grant
  <2>2. answer'[c] = "granted" /\ \A d \in Call \ {c} : answer'[d] = answer[d]
    BY <2>1 DEF CallsTyped
  <2> QED
    BY <2>1, <2>2
<1>3. ASSUME NEW c \in Call, Refused(c) PROVE CallsCross' /\ GrantedIsVisible' /\ ReadsOneAccount'
  <2>1. /\ answer[c] = "asked" /\ answer' = [answer EXCEPT ![c] = "refused"]
        /\ UNCHANGED <<visible, asked, job>>
    BY <1>3 DEF Refused, Auth!Refuse
  <2>2. answer'[c] = "refused" /\ \A d \in Call \ {c} : answer'[d] = answer[d]
    BY <2>1 DEF CallsTyped
  <2> QED
    BY <2>1, <2>2
<1>4. ASSUME NEW c \in Call, CallEnds(c) \/ ReadBegins(c)
      PROVE  CallsCross' /\ GrantedIsVisible' /\ ReadsOneAccount'
  <2>1. answer'[c] = "none" /\ \A d \in Call \ {c} : answer'[d] = answer[d] /\ asked'[d] = asked[d]
    BY <1>4, EndFacts DEF CallsTyped
  <2>2. CallsCross' /\ GrantedIsVisible'
    BY <1>4, <2>1, EndFacts
  <2>3. ReadsOneAccount'
    BY <1>4, EndFacts, NoJobFacts
  <2> QED
    BY <2>2, <2>3
<1>5. ASSUME NEW c \in Call, ReadEnds(c) PROVE CallsCross' /\ GrantedIsVisible' /\ ReadsOneAccount'
  BY <1>5, ReadEndFacts, NoJobFacts
<1>6. CASE FlowBegins
  BY <1>6, FlowFacts DEF FlowBegins, authVars
<1>7. CASE CallsForgotten
  BY <1>7, NoJobFacts DEF CallsForgotten, Auth!Stop, Auth!Unasked
<1>8. CASE CallsKept
  <2>1. CASE screen = NoScreen
    <3>1. \A c \in Call : job[c] = NoJob /\ answer[c] = "none"
      BY <2>1, NoJobFacts DEF AtRest, CallsTyped, Pending
    <3> QED
      BY <1>8, <3>1, NoJobFacts DEF CallsKept
  <2>2. CASE screen # NoScreen
    BY <1>8, <2>2 DEF CallsKept
  <2> QED
    BY <2>1, <2>2
<1> QED
  BY <1>1, <1>2, <1>3, <1>4, <1>5, <1>6, <1>7, <1>8 DEF CallsStep

-----------------------------------------------------------------------------
(* The screen.                                                             *)

ScreenTyped == screen \in Screen \cup {NoScreen}

(* What a step of the app does to the screen in front.                     *)
ScreenKept == screen' = screen
ScreenGone == Crash
ScreenFresh == screen' = Fresh

(* A field, a button or an alert: no profile is filled or shown.           *)
ScreenTouched ==
    /\ screen \in Screen /\ screen' \in Screen
    /\ screen'.fire = screen.fire /\ screen'.g = screen.g /\ screen'.fb = screen.fb
    /\ screen'.profileInfo = screen.profileInfo
    /\ screen'.over \in {screen.over, "nothing", "alert"}

FireShown(c) ==
    /\ job[c].kind = "read" /\ c \notin late
    /\ JobDone(c) /\ UNCHANGED <<authVars, google>>
    /\ screen \in Screen /\ screen' = ShowFire(screen, FireProfile(job[c]))

GoogleShown(p) ==
    /\ google.stage = "exchange"
    /\ screen \in Screen /\ screen' = Segued(WithGoogle(screen, p))

FbShown(c) ==
    /\ job[c].kind = "fb" /\ c \notin late
    /\ screen \in Screen /\ screen' = Segued(screen)

FbFilled(f) ==
    /\ fetch[f] # FB!NoRequest /\ f \notin late
    /\ screen \in Screen
    /\ \E p \in Person, withheld \in BOOLEAN :
         screen' = [screen EXCEPT !.fb = FbProfile(@, p, withheld)]

ScreenStep ==
    \/ ScreenKept \/ ScreenGone \/ ScreenFresh \/ ScreenTouched
    \/ \E c \in Call : FireShown(c) \/ FbShown(c)
    \/ \E p \in Person : GoogleShown(p)
    \/ \E f \in Fetch : FbFilled(f)

(* An empty profile and a new login screen.                                *)
LEMMA BlankFacts ==
    /\ Blank \in Profile /\ Blank.system = "none"
    /\ Fresh \in Screen /\ Fresh # NoScreen /\ Fresh.over = "nothing"
    /\ Fresh.fire = Blank /\ Fresh.g = Blank /\ Fresh.fb = Blank /\ Fresh.profileInfo = Blank
    /\ NoScreen.over = "no screen" /\ NoScreen \notin Screen
<1>1. Blank \in Profile /\ Blank.system = "none"
  BY DEF Blank, Profile, Maybe, Overlap
<1>2. /\ Fresh.over = "nothing" /\ NoScreen.over = "no screen"
      /\ Fresh.fire = Blank /\ Fresh.g = Blank /\ Fresh.fb = Blank /\ Fresh.profileInfo = Blank
  BY DEF Fresh, NoScreen
<1>3. Fresh \in Screen
  BY <1>1 DEF Fresh, Screen
<1>4. \A s \in Screen : s.over \in {"nothing", "alert", "profile"}
  BY DEF Screen
<1> QED
  BY <1>1, <1>2, <1>3, <1>4

(* An alert changes nothing below it.                                      *)
LEMMA AlertedFacts ==
    ASSUME NEW s \in Screen
    PROVE  LET t == Alerted(s) IN
           /\ t \in Screen /\ t.fire = s.fire /\ t.g = s.g /\ t.fb = s.fb
           /\ t.profileInfo = s.profileInfo /\ t.over \in {s.over, "alert"}
  BY DEF Alerted, Screen

(* A segue shows one of the profiles of its screen, or nothing new.        *)
LEMMA SeguedFacts ==
    ASSUME NEW s \in Screen
    PROVE  LET t == Segued(s) IN
           /\ t \in Screen /\ t.fire = s.fire /\ t.g = s.g /\ t.fb = s.fb
           /\ \/ t.over = s.over /\ t.profileInfo = s.profileInfo
              \/ t.over = "profile" /\ t.profileInfo = Chosen(s)
           /\ Chosen(s) \in {s.fire, s.g, s.fb}
<1>1. PICK p : p = Chosen(s)
  OBVIOUS
<1>2. p \in {s.fire, s.g, s.fb}
  BY <1>1 DEF Chosen
<1>3. s.fire \in Profile /\ s.g \in Profile /\ s.fb \in Profile
  BY DEF Screen
<1>4. Segued(s) = IF Uncovered THEN [s EXCEPT !.over = "profile", !.profileInfo = p] ELSE s
  BY <1>1 DEF Segued
<1> QED
  BY <1>1, <1>2, <1>3, <1>4 DEF Screen

(* Every step of the app does one of these things to the screen.           *)
LEMMA ScreenSteps ==
    ASSUME FBInv, CallsTyped, AtRest, ScreenTyped, [Next]_vars
    PROVE  ScreenStep
<1> USE DEF ScreenStep
<1>0. /\ \A c \in Call : job[c].kind # "none" => screen \in Screen
      /\ google.stage # "idle" => screen \in Screen
      /\ \A l \in Login : login[l] # FB!NoLogin => screen \in Screen
      /\ \A f \in Fetch : fetch[f] # FB!NoRequest => screen \in Screen
      /\ Uncovered => screen \in Screen
  BY NoJobFacts DEF AtRest, ScreenTyped, Uncovered
<1>1. CASE UNCHANGED vars
  BY <1>1 DEF vars, ScreenKept
<1>2. CASE User
  <2>1. ASSUME NEW c \in Call, NEW a \in Person, NEW form \in Form, TapFirebase(c, a, form)
        PROVE  ScreenStep
    <3>1. screen \in Screen /\ screen' \in {screen, Alerted(screen)}
      BY <1>0, <2>1 DEF TapFirebase
    <3> QED
      BY <3>1, AlertedFacts DEF ScreenKept, ScreenTouched
  <2>2. CASE SwitchButton
    <3>1. screen \in Screen /\ screen' = [screen EXCEPT !.signUpOrIn = ~screen.signUpOrIn]
      BY <1>0, <2>2 DEF SwitchButton
    <3> QED
      BY <3>1 DEF ScreenTouched, Screen
  <2>3. CASE DismissAlert
    <3>1. screen \in Screen /\ screen' = [screen EXCEPT !.over = "nothing"]
      BY <2>3 DEF DismissAlert, ScreenTyped
    <3> QED
      BY <3>1 DEF ScreenTouched, Screen
  <2>4. CASE TapGoogle \/ \E l \in Login : FbButton(l)
    BY <2>4 DEF TapGoogle, FbButton, ScreenKept
  <2>5. ASSUME NEW removed \in BOOLEAN, TapSignOut(removed) PROVE ScreenStep
    BY <2>5 DEF TapSignOut, NewLoginScreen, ScreenFresh
  <2> QED
    BY <1>2, <2>1, <2>2, <2>3, <2>4, <2>5 DEF User
<1>3. ASSUME NEW c \in Call, Handler(c) PROVE ScreenStep
  <2>1. CASE CreateAnswered(c)
    <3>1. screen \in Screen
      BY <1>0, <2>1 DEF CreateAnswered
    <3>2. \/ screen' \in {screen, Alerted(screen)}
          \/ screen' = [Alerted(screen) EXCEPT !.signUpOrIn = ~Alerted(screen).signUpOrIn]
      BY <2>1 DEF CreateAnswered, ScreenOf
    <3>3. PICK t : t = Alerted(screen)
      OBVIOUS
    <3>4. t \in Screen /\ t.fire = screen.fire /\ t.g = screen.g /\ t.fb = screen.fb
          /\ t.profileInfo = screen.profileInfo /\ t.over \in {screen.over, "alert"}
      BY <3>1, <3>3, AlertedFacts
    <3> QED
      BY <3>1, <3>2, <3>3, <3>4 DEF ScreenKept, ScreenTouched, Screen
  <2>2. CASE SignInAnswered(c)
    <3>1. screen \in Screen /\ screen' \in {screen, Alerted(screen)}
      BY <1>0, <2>2 DEF SignInAnswered, ScreenOf
    <3> QED
      BY <3>1, AlertedFacts DEF ScreenKept, ScreenTouched
  <2>3. CASE ReadAnswered(c)
    <3>1. screen \in Screen /\ job[c].kind = "read" /\ JobDone(c) /\ UNCHANGED <<authVars, google>>
      BY <1>0, <2>3 DEF ReadAnswered
    <3>2. \/ screen' = screen
          \/ c \notin late /\ screen' = ShowFire(screen, FireProfile(job[c]))
      BY <2>3 DEF ReadAnswered, ScreenOf
    <3> QED
      BY <3>1, <3>2 DEF ScreenKept, FireShown
  <2>4. CASE GoogleCallAnswered(c)
    BY <2>4 DEF GoogleCallAnswered, ScreenOf, ScreenKept
  <2>5. CASE FbCallAnswered(c)
    <3>1. screen \in Screen /\ job[c].kind = "fb"
      BY <1>0, <2>5 DEF FbCallAnswered
    <3>2. \/ screen' = screen
          \/ c \notin late /\ screen' = Segued(screen)
      BY <2>5 DEF FbCallAnswered, ScreenOf
    <3> QED
      BY <3>1, <3>2 DEF ScreenKept, FbShown
  <2> QED
    BY <1>3, <2>1, <2>2, <2>3, <2>4, <2>5 DEF Handler
<1>4. CASE Facebook
  <2>1. ASSUME NEW l \in Login, NEW load \in FB!Startable, NEW c \in Call, FbLoginEnds(l, load, c)
        PROVE  ScreenStep
    <3>1. PICK error \in BOOLEAN : FbButtonHandler(l, load, error, c)
      BY <2>1, FbLoginHandled
    <3>2. login[l] # FB!NoLogin
      BY <2>1, FbLoginUnderWay DEF FB!NoLogin
    <3>3. screen' = screen \/ screen' = [screen EXCEPT !.checkSystem = "fb"]
      BY <3>1 DEF FbButtonHandler
    <3> QED
      BY <1>0, <3>2, <3>3 DEF ScreenKept, ScreenTouched, Screen
  <2>2. CASE FbSilentStep
    BY <2>2 DEF FbSilentStep, ScreenKept
  <2>3. ASSUME NEW f \in Fetch, TransferFBData(f) PROVE ScreenStep
    <3>1. fetch[f].stage = "sent" /\ fetch[f].token # NoToken /\ fetch[f] \in FB!FetchState
      BY <2>3, FBInvFacts DEF TransferFBData, FB!FetchOk, FB!TypeOK
    <3>2. fetch[f] # FB!NoRequest /\ fetch[f].token.user \in Person
      BY <3>1 DEF FB!NoRequest, FB!FetchState, FB!MaybeToken, FB!Token
    <3>3. PICK withheld \in BOOLEAN :
            ScreenOf(f, [screen EXCEPT !.fb = FbProfile(@, fetch[f].token.user, withheld)])
      BY <2>3 DEF TransferFBData
    <3> QED
      BY <1>0, <3>2, <3>3 DEF ScreenOf, ScreenKept, FbFilled
  <2> QED
    BY <1>4, <2>1, <2>2, <2>3 DEF Facebook
<1>5. CASE Google
  <2>1. ASSUME NEW p \in Person, NEW c \in Call, GoogleSigned(p, c) PROVE ScreenStep
    BY <1>0, <2>1 DEF GoogleSigned, GoogleShown
  <2> QED
    BY <1>5, <2>1 DEF Google, GoogleSheetClosed, GoogleFailed, ScreenKept
<1>6. CASE Server
  BY <1>6 DEF Server, Granted, Refused, ReadDenied, ScreenOf, Expired, WriteAcknowledged,
              WriteRejected, ScreenKept
<1>7. CASE Process
  BY <1>7 DEF Process, Crash, Launch, FirstScreen, ScreenKept, ScreenGone, ScreenFresh
<1> QED
  BY <1>1, <1>2, <1>3, <1>4, <1>5, <1>6, <1>7 DEF Next

(* Where the profiles come from.                                           *)
LEMMA ProfileFacts ==
    /\ \A j \in Job : LET p == FireProfile(j) IN
         /\ p \in Profile /\ p.system = "Firebase" /\ p.email = j.email
         /\ p.names = j.uid /\ p.overlap = j.overlap
    /\ \A p \in Person : GoogleProfile(p) \in Profile /\ GoogleProfile(p).system = "Google"
    /\ \A old \in Profile, p \in Person, withheld \in BOOLEAN :
         /\ FbProfile(old, p, withheld) \in Profile
         /\ FbProfile(old, p, withheld).system = "Facebook"
  BY DEF FireProfile, GoogleProfile, FbProfile, Blank, Profile, Job, Maybe, Overlap

(* The profile that a read has filled, shown or not.                       *)
LEMMA FireShownFacts ==
    ASSUME CallsTyped, NEW c \in Call, FireShown(c)
    PROVE  LET p == FireProfile(job[c]) IN
           /\ job[c] \in Job
           /\ screen \in Screen /\ screen' \in Screen /\ screen'.fire = p /\ screen'.g = screen.g
           /\ screen'.fb = screen.fb
           /\ \/ screen'.over = screen.over /\ screen'.profileInfo = screen.profileInfo
              \/ screen'.over = "profile" /\ screen'.profileInfo = p
<1> DEFINE p == FireProfile(job[c])
           s == WithFire(screen, p)
<1>1. job[c] \in Job /\ screen \in Screen
  BY DEF CallsTyped, FireShown
<1>2. p \in Profile
  BY <1>1, ProfileFacts
<1>3. screen' = Segued(s)
  BY DEF FireShown, ShowFire
<1> HIDE DEF p
<1>4. /\ s \in Screen /\ s.fire = p /\ s.g = screen.g /\ s.fb = screen.fb /\ s.over = screen.over
      /\ s.profileInfo = screen.profileInfo /\ s.checkSystem = "Firebase"
  BY <1>1, <1>2 DEF WithFire, Screen
<1>5. Chosen(s) = p
  BY <1>4 DEF Chosen
<1> HIDE DEF s
<1> QED
  BY <1>1, <1>3, <1>4, <1>5, SeguedFacts DEF p

(* Google's profile, shown or not.                                         *)
LEMMA GoogleShownFacts ==
    ASSUME NEW p \in Person, GoogleShown(p)
    PROVE  /\ screen \in Screen /\ screen' \in Screen /\ screen'.fire = screen.fire
           /\ screen'.g = GoogleProfile(p) /\ screen'.fb = screen.fb
           /\ \/ screen'.over = screen.over /\ screen'.profileInfo = screen.profileInfo
              \/ screen'.over = "profile" /\ screen'.profileInfo = GoogleProfile(p)
<1> DEFINE s == WithGoogle(screen, p)
<1>1. screen \in Screen /\ GoogleProfile(p) \in Profile /\ screen' = Segued(s)
  BY ProfileFacts DEF GoogleShown
<1>2. /\ s \in Screen /\ s.fire = screen.fire /\ s.g = GoogleProfile(p) /\ s.fb = screen.fb
      /\ s.over = screen.over /\ s.profileInfo = screen.profileInfo /\ s.checkSystem = "g"
  BY <1>1 DEF WithGoogle, Screen
<1>3. Chosen(s) = GoogleProfile(p)
  BY <1>2 DEF Chosen
<1> HIDE DEF s
<1> QED
  BY <1>1, <1>2, <1>3, SeguedFacts

(* Facebook's profile is filled when it comes, not shown.                  *)
LEMMA FbFilledFacts ==
    ASSUME NEW f \in Fetch, FbFilled(f)
    PROVE  /\ screen \in Screen /\ screen' \in Screen /\ screen'.fire = screen.fire
           /\ screen'.g = screen.g /\ screen'.fb.system = "Facebook"
           /\ screen'.over = screen.over /\ screen'.profileInfo = screen.profileInfo
<1>1. PICK p \in Person, withheld \in BOOLEAN :
        screen' = [screen EXCEPT !.fb = FbProfile(screen.fb, p, withheld)]
  BY DEF FbFilled
<1>2. screen \in Screen /\ screen.fb \in Profile
  BY DEF FbFilled, Screen
<1>3. PICK q : q = FbProfile(screen.fb, p, withheld)
  OBVIOUS
<1>4. q \in Profile /\ q.system = "Facebook"
  BY <1>2, <1>3, ProfileFacts
<1> QED
  BY <1>1, <1>2, <1>3, <1>4 DEF Screen

(* The profile of a Firebase account is of one account.                    *)
One(p) == p.system = "Firebase" /\ p.overlap # "call" => p.email = p.names

ProfilesOneAccount ==
    screen # NoScreen =>
        One(screen.fire) /\ One(screen.g) /\ One(screen.fb) /\ One(screen.profileInfo)

ScreenInv == ScreenTyped /\ ProfilesOneAccount

(* No screen ever holds a profile of two accounts, unless calls crossed.   *)
LEMMA ScreenInvStep ==
    ASSUME CallsInv, ScreenInv, ScreenStep
    PROVE  ScreenInv'
<1> USE DEF ScreenInv, ScreenTyped, ProfilesOneAccount, One
<1>1. CASE ScreenKept \/ ScreenGone \/ ScreenFresh \/ ScreenTouched
  BY <1>1, BlankFacts DEF ScreenKept, ScreenGone, Crash, ScreenFresh, ScreenTouched
<1>2. ASSUME NEW c \in Call, FireShown(c) PROVE ScreenInv'
  <2>1. One(FireProfile(job[c]))
    BY <1>2, ProfileFacts DEF CallsInv, CallsTyped, ReadsOneAccount, FireShown
  <2> QED
    BY <1>2, <2>1, FireShownFacts, BlankFacts DEF CallsInv
<1>3. ASSUME NEW c \in Call, FbShown(c) PROVE ScreenInv'
  <2>1. screen \in Screen /\ screen' = Segued(screen) /\ screen # NoScreen
    BY <1>3, BlankFacts DEF FbShown
  <2>2. PICK t : t = Segued(screen)
    OBVIOUS
  <2>3. /\ t \in Screen /\ t.fire = screen.fire /\ t.g = screen.g /\ t.fb = screen.fb
        /\ t.profileInfo \in {screen.profileInfo, screen.fire, screen.g, screen.fb}
    BY <2>1, <2>2, SeguedFacts
  <2> QED
    BY <2>1, <2>2, <2>3, BlankFacts
<1>4. ASSUME NEW p \in Person, GoogleShown(p) PROVE ScreenInv'
  BY <1>4, GoogleShownFacts, ProfileFacts, BlankFacts
<1>5. ASSUME NEW f \in Fetch, FbFilled(f) PROVE ScreenInv'
  BY <1>5, FbFilledFacts, BlankFacts
<1> QED
  BY <1>1, <1>2, <1>3, <1>4, <1>5 DEF ScreenStep

-----------------------------------------------------------------------------
(* Google's sign-in.                                                       *)

GoogleTyped == google \in [stage : {"idle", "sheet", "exchange"}, user : Maybe]

(* Google's stage leaves idle only when its button is tapped.              *)
LEMMA GoogleSteps ==
    ASSUME GoogleTyped, [Next]_vars
    PROVE  /\ GoogleTyped'
           /\ FlowBegins \/ google'.stage = google.stage \/ google.stage # "idle"
              \/ google'.stage = "idle"
           /\ google'.user \in {google.user, Nobody} \/ google.stage = "exchange"
<1> USE DEF GoogleTyped, Maybe
<1>1. CASE UNCHANGED vars
  BY <1>1 DEF vars
<1>2. CASE User
  <2>1. CASE TapGoogle
    BY <2>1 DEF TapGoogle, FlowBegins, authVars
  <2>2. ASSUME NEW removed \in BOOLEAN, TapSignOut(removed)
        PROVE  google' = [google EXCEPT !.user = Nobody]
    BY <2>2 DEF TapSignOut, ProfileLogout
  <2>3. CASE ~TapGoogle /\ ~\E removed \in BOOLEAN : TapSignOut(removed)
    BY <1>2, <2>3 DEF User, TapFirebase, SwitchButton, DismissAlert, FbButton
  <2> QED
    BY <2>1, <2>2, <2>3
<1>3. ASSUME NEW c \in Call, Handler(c) PROVE google' = google
  BY <1>3 DEF Handler, CreateAnswered, SignInAnswered, ReadAnswered, GoogleCallAnswered, FbCallAnswered
<1>4. CASE Facebook
  <2>1. ASSUME NEW l \in Login, NEW load \in FB!Startable, NEW c \in Call, FbLoginEnds(l, load, c)
        PROVE  google' = google
    <3>1. PICK error \in BOOLEAN : FbButtonHandler(l, load, error, c)
      BY <2>1, FbLoginHandled
    <3> QED
      BY <3>1 DEF FbButtonHandler
  <2> QED
    BY <1>4, <2>1 DEF Facebook, FbSilentStep, TransferFBData
<1>5. CASE Google
  <2>1. CASE GoogleSheetClosed \/ GoogleFailed
    BY <2>1 DEF GoogleSheetClosed, GoogleFailed
  <2>2. ASSUME NEW p \in Person, NEW c \in Call, GoogleSigned(p, c)
        PROVE  google' = [stage |-> "idle", user |-> p] /\ google.stage = "exchange"
    BY <2>2 DEF GoogleSigned
  <2> QED
    BY <1>5, <2>1, <2>2 DEF Google
<1>6. CASE Server
  BY <1>6 DEF Server, Granted, Refused, ReadDenied, Expired, WriteAcknowledged, WriteRejected
<1>7. CASE Process
  BY <1>7 DEF Process, Crash, Launch, FirstScreen
<1> QED
  BY <1>1, <1>2, <1>3, <1>4, <1>5, <1>6, <1>7 DEF Next

-----------------------------------------------------------------------------
(* Before the first screen.                                                *)

(* The process begins and ends as a whole.                                 *)
LEMMA RunningSteps ==
    ASSUME [Next]_vars
    PROVE  Crash \/ (\E readable \in BOOLEAN : Launch(readable)) \/ running' = running
<1> USE DEF facebookVars
<1>1. CASE UNCHANGED vars
  BY <1>1 DEF vars
<1>2. CASE User
  BY <1>2 DEF User, TapFirebase, SwitchButton, DismissAlert, TapGoogle, FbButton, FB!LogIn,
              TapSignOut, ProfileLogout, FB!LogOut
<1>3. ASSUME NEW c \in Call, Handler(c) PROVE running' = running
  BY <1>3 DEF Handler, CreateAnswered, SignInAnswered, ReadAnswered, GoogleCallAnswered, FbCallAnswered
<1>4. CASE Facebook
  <2>1. \A l, load : /\ FB!SheetClosed(l, load) => running' = running
                     /\ FB!Validated(l, load) => running' = running
                     /\ FB!NotValidated(l, load) => running' = running
                     /\ \A p : FB!SheetGranted(l, p, load) => running' = running
    BY DEF FB!SheetClosed, FB!Validated, FB!NotValidated, FB!SheetGranted
  <2>2. ASSUME NEW l \in Login, NEW load \in FB!Startable, NEW c \in Call, FbLoginEnds(l, load, c)
        PROVE  running' = running
    BY <2>1, <2>2 DEF FbLoginEnds
  <2>3. \A f : /\ FB!FetchFailed(f) => running' = running
               /\ FB!FetchTransient(f) => running' = running
               /\ FB!FetchInvalid(f) => running' = running
               /\ FB!FetchOk(f) => running' = running
               /\ FB!RecoveryDeclined(f) => running' = running
               /\ \A l : FB!RecoveryAccepted(f, l) => running' = running
    BY DEF FB!FetchFailed, FB!FetchTransient, FB!FetchInvalid, FB!FetchOk, FB!RecoveryDeclined,
           FB!RecoveryAccepted
  <2> QED
    BY <1>4, <2>1, <2>2, <2>3 DEF Facebook, FbSilentStep, TransferFBData
<1>5. CASE Google
  BY <1>5 DEF Google, GoogleSheetClosed, GoogleFailed, GoogleSigned
<1>6. CASE Server
  BY <1>6 DEF Server, Granted, Refused, ReadDenied, Expired, WriteAcknowledged, WriteRejected
<1>7. CASE Process
  BY <1>7 DEF Process, FirstScreen, FB!StartFetch
<1> QED
  BY <1>1, <1>2, <1>3, <1>4, <1>5, <1>6, <1>7 DEF Next

(* There is little to do then.                                             *)
LEMMA BeforeScreen ==
    ASSUME CallsTyped, AtRest, screen = NoScreen, [Next]_vars
    PROVE  Crash \/ (\E readable \in BOOLEAN : Launch(readable)) \/ FirstScreen
           \/ UNCHANGED <<facebookVars, google, job, late, screen>>
<1>0. /\ \A c \in Call : job[c] = NoJob /\ job[c].kind = "none" /\ answer[c] = "none"
      /\ google.stage = "idle" /\ ~Uncovered /\ screen.over = "no screen"
      /\ \A l \in Login : login[l].stage = "idle"
      /\ \A f \in Fetch : fetch[f].stage = "idle"
  <2>1. \A c \in Call : job[c] = NoJob /\ job[c].kind = "none" /\ answer[c] = "none"
    BY NoJobFacts DEF AtRest, CallsTyped, Pending
  <2>2. ~Uncovered /\ screen.over = "no screen"
    BY BlankFacts DEF Uncovered
  <2>3. /\ \A l \in Login : login[l].stage = "idle"
        /\ \A f \in Fetch : fetch[f].stage = "idle"
        /\ google.stage = "idle"
    BY DEF AtRest, FB!NoLogin, FB!NoRequest
  <2> QED
    BY <2>1, <2>2, <2>3
<1>1. CASE UNCHANGED vars
  BY <1>1 DEF vars
<1>2. CASE User
  BY <1>0, <1>2 DEF User, TapFirebase, SwitchButton, DismissAlert, TapGoogle, FbButton, TapSignOut
<1>3. ASSUME NEW c \in Call, Handler(c) PROVE FALSE
  BY <1>0, <1>3 DEF Handler, CreateAnswered, SignInAnswered, ReadAnswered, GoogleCallAnswered,
                    FbCallAnswered
<1>4. CASE Facebook
  <2>1. ASSUME NEW l \in Login, NEW load, NEW c \in Call, FbLoginEnds(l, load, c) PROVE FALSE
    BY <1>0, <2>1, FbLoginUnderWay
  <2>2. ASSUME FbSilentStep PROVE FALSE
    BY <1>0, <2>2 DEF FbSilentStep, FB!SheetGranted, FB!SheetClosed, FB!Validated, FB!NotValidated,
                    FB!FetchFailed, FB!FetchTransient, FB!FetchInvalid, FB!RecoveryDeclined,
                    FB!RecoveryAccepted
  <2>3. ASSUME NEW f \in Fetch, TransferFBData(f) PROVE FALSE
    BY <1>0, <2>3 DEF TransferFBData, FB!FetchOk
  <2> QED
    BY <1>4, <2>1, <2>2, <2>3 DEF Facebook
<1>5. CASE Google
  BY <1>0, <1>5 DEF Google, GoogleSheetClosed, GoogleFailed, GoogleSigned
<1>6. CASE Server
  BY <1>0, <1>6 DEF Server, Granted, Refused, Auth!Refuse, ReadDenied, Expired, WriteAcknowledged,
                    WriteRejected
<1>7. CASE Process
  BY <1>7 DEF Process
<1> QED
  BY <1>1, <1>2, <1>3, <1>4, <1>5, <1>6, <1>7 DEF Next

(* Nothing begins before the first screen is there.                        *)
LEMMA AtRestStep ==
    ASSUME CallsTyped, AtRest, ScreenTyped, ScreenStep, [Next]_vars
    PROVE  AtRest'
<1>1. CASE Crash
  <2>1. /\ screen' = NoScreen /\ job' = [c \in Call |-> NoJob]
        /\ google' = [google EXCEPT !.stage = "idle"]
        /\ login' = [l \in Login |-> FB!NoLogin] /\ fetch' = [f \in Fetch |-> FB!NoRequest]
    BY <1>1 DEF Crash, FB!Crash
  <2> QED
    BY <2>1 DEF AtRest, CallsTyped, FB!NoLogin, FB!NoRequest
<1>2. CASE ~Crash /\ screen # NoScreen
  <2>1. screen' # NoScreen
    BY <1>2, BlankFacts, FireShownFacts, GoogleShownFacts, FbFilledFacts, SeguedFacts
       DEF ScreenTyped, ScreenStep, ScreenKept, ScreenGone, ScreenFresh, ScreenTouched, FbShown
  <2>2. running'
    BY <1>2, RunningSteps DEF AtRest, Launch, FB!Launch
  <2> QED
    BY <2>1, <2>2 DEF AtRest
<1>3. CASE ~Crash /\ screen = NoScreen
  <2>1. CASE FirstScreen
    BY <2>1, BlankFacts DEF FirstScreen, AtRest, FB!StartFetch, facebookVars
  <2>2. CASE \E readable \in BOOLEAN : Launch(readable)
    BY <1>3, <2>2 DEF Launch, FB!Launch, AtRest, FB!NoLogin, FB!NoRequest
  <2>3. CASE UNCHANGED <<facebookVars, google, job, late, screen>>
    BY <1>3, <2>3 DEF AtRest, facebookVars, FB!NoLogin, FB!NoRequest
  <2> QED
    BY <1>3, <2>1, <2>2, <2>3, BeforeScreen
<1> QED
  BY <1>1, <1>2, <1>3

-----------------------------------------------------------------------------
(* After a sign-out.                                                       *)

(* What still has a handler belongs to a screen that was covered.          *)
Covered ==
    /\ \A c \in Call : job[c] # NoJob => c \in late
    /\ \A f \in Fetch : fetch[f] # FB!NoRequest => f \in late

LoginScreen == screen # NoScreen => ~Shown /\ screen.fire = Blank /\ screen.fb = Blank

QuietNow == EverywhereOut /\ NothingInFlight /\ Covered /\ LoginScreen

Quiet == signedOut = "clean" => QuietNow

(* A sign-out with nothing in flight makes everything quiet.               *)
LEMMA SignOutQuiet ==
    ASSUME FBInv, GoogleTyped, NEW removed \in BOOLEAN, TapSignOut(removed), signedOut' = "clean"
    PROVE  QuietNow'
<1>1. visible' = Nobody /\ durable' = Nobody /\ NothingInFlight
  BY DEF TapSignOut
<1>2. /\ FB!LogOut /\ google' = [google EXCEPT !.user = Nobody] /\ answer' = answer
      /\ job' = job /\ late' = UnderWay /\ screen' = Fresh
  BY DEF TapSignOut, ProfileLogout, Auth!SignOut, NewLoginScreen
<1>3. token' = NoToken /\ cached' = NoToken /\ login' = login /\ fetch' = fetch
  BY <1>2, FBInvFacts DEF FB!LogOut, FB!SetCurrent, FB!LoggedOutStays
<1>4. EverywhereOut' /\ NothingInFlight'
  BY <1>1, <1>2, <1>3 DEF EverywhereOut, NothingInFlight, GoogleTyped
<1>5. Covered'
  BY <1>2, <1>3 DEF Covered, UnderWay, FB!NoRequest
<1>6. LoginScreen'
  BY <1>2, BlankFacts DEF LoginScreen, Shown
<1> QED
  BY <1>4, <1>5, <1>6 DEF QuietNow

(* The end of a read of a covered screen.                                  *)
LEMMA ReadEndsQuiet ==
    ASSUME CallsTyped, QuietNow, NEW c \in Call, ReadAnswered(c) \/ ReadDenied(c)
    PROVE  QuietNow'
<1>1. /\ job[c].kind = "read" /\ JobDone(c)
      /\ UNCHANGED <<authVars, facebookVars, google>> /\ late' = late \ {c}
  BY DEF ReadAnswered, ReadDenied, ScreenOf
<1>2. c \in late /\ screen' = screen
  BY <1>1, NoJobFacts DEF QuietNow, Covered, ReadAnswered, ReadDenied, ScreenOf
<1>3. job'[c] = NoJob /\ \A d \in Call \ {c} : job'[d] = job[d]
  BY <1>1 DEF JobDone, CallsTyped
<1>4. Covered'
  BY <1>1, <1>3, NamesApart DEF QuietNow, Covered, facebookVars, FB!NoRequest
<1> QED
  BY <1>1, <1>2, <1>4 DEF QuietNow, EverywhereOut, NothingInFlight, LoginScreen, Shown,
                          authVars, facebookVars

(* Requests of a covered screen go on, and find no token to clear.         *)
LEMMA FetchesQuiet ==
    ASSUME FBInv, QuietNow, FbSilentStep
    PROVE  QuietNow'
<1>1. token = NoToken /\ cached = NoToken /\ \A l \in Login : login[l].stage = "idle"
  BY DEF QuietNow, EverywhereOut, NothingInFlight
<1>2. \A l \in Login, p \in Person :
        /\ ~FB!SheetGranted(l, p, NoFetch) /\ ~FB!SheetClosed(l, NoFetch)
        /\ ~FB!Validated(l, NoFetch) /\ ~FB!NotValidated(l, NoFetch)
  BY <1>1 DEF FB!SheetGranted, FB!SheetClosed, FB!Validated, FB!NotValidated
<1>3. \A l \in Login : ~FB!SheetClosed(l, NoFetch) /\ ~FB!Validated(l, NoFetch)
                       /\ ~FB!NotValidated(l, NoFetch)
  BY <1>1 DEF FB!SheetClosed, FB!Validated, FB!NotValidated
<1>4. PICK f \in Fetch : \/ FB!FetchFailed(f) \/ FB!FetchTransient(f) \/ FB!FetchInvalid(f)
                         \/ FB!RecoveryDeclined(f) \/ \E l \in Login : FB!RecoveryAccepted(f, l)
  BY <1>2, <1>3 DEF FbSilentStep
<1>5. ~\E l \in Login : FB!RecoveryAccepted(f, l)
  BY <1>1 DEF FB!RecoveryAccepted
<1>6. fetch \in [Fetch -> FB!FetchState]
  BY FBInvFacts DEF FB!TypeOK
<1>7. /\ fetch[f].stage # "idle" /\ UNCHANGED <<token, cached, login>>
      /\ \A g \in Fetch \ {f} : fetch'[g] = fetch[g]
  <2>1. CASE FB!FetchFailed(f)
    BY <1>1, <1>6, <2>1 DEF FB!FetchFailed, FB!EndInError, FB!SetCurrent
  <2>2. CASE FB!FetchTransient(f)
    BY <1>6, <2>2 DEF FB!FetchTransient
  <2>3. CASE FB!FetchInvalid(f)
    BY <1>1, <1>6, <2>3 DEF FB!FetchInvalid, FB!EndInError, FB!SetCurrent
  <2>4. CASE FB!RecoveryDeclined(f)
    BY <1>1, <1>6, <2>4 DEF FB!RecoveryDeclined, FB!EndInError, FB!SetCurrent
  <2> QED
    BY <1>4, <1>5, <2>1, <2>2, <2>3, <2>4
<1>8. fetch[f] # FB!NoRequest
  BY <1>7 DEF FB!NoRequest
<1>9. /\ UNCHANGED <<authVars, google, screen, job>>
      /\ late' = late \ ({g \in Fetch : fetch'[g] = FB!NoRequest}
                         \cup {l \in Login : login'[l] = FB!NoLogin})
  BY DEF FbSilentStep
<1>10. Covered'
  <2>1. \A c \in Call : job'[c] # NoJob => c \in late'
    BY <1>9, NamesApart DEF QuietNow, Covered
  <2>2. \A g \in Fetch : fetch'[g] # FB!NoRequest => g \in late'
    BY <1>7, <1>8, <1>9, NamesApart DEF QuietNow, Covered
  <2> QED
    BY <2>1, <2>2 DEF Covered, FB!NoRequest
<1> QED
  BY <1>7, <1>9, <1>10 DEF QuietNow, EverywhereOut, NothingInFlight, LoginScreen, Shown, authVars

(* A profile that arrives for a covered screen is dropped.                 *)
LEMMA TransferQuiet ==
    ASSUME FBInv, QuietNow, NEW f \in Fetch, TransferFBData(f)
    PROVE  QuietNow'
<1>1. fetch[f].stage = "sent" /\ fetch' = [fetch EXCEPT ![f] = FB!NoRequest]
      /\ UNCHANGED <<token, cached, login, authVars, google, job>>
  BY DEF TransferFBData, FB!FetchOk
<1>2. fetch'[f] = FB!NoRequest /\ \A g \in Fetch \ {f} : fetch'[g] = fetch[g]
  BY <1>1, FBInvFacts DEF FB!TypeOK
<1>3. f \in late
  BY <1>1 DEF QuietNow, Covered, FB!NoRequest
<1>4. screen' = screen /\ late' = late \ {f}
  BY <1>3 DEF TransferFBData, ScreenOf
<1>5. Covered'
  BY <1>1, <1>2, <1>4, NamesApart DEF QuietNow, Covered, FB!NoRequest
<1> QED
  BY <1>1, <1>4, <1>5 DEF QuietNow, EverywhereOut, NothingInFlight, LoginScreen, Shown, authVars

(* What is quiet stays so until a login is tapped.                         *)
LEMMA QuietStep ==
    ASSUME FBInv, CallsTyped, AtRest, ScreenTyped, GoogleTyped, Quiet, [Next]_vars
    PROVE  Quiet'
<1> SUFFICES ASSUME signedOut' = "clean" PROVE QuietNow'
  BY DEF Quiet, QuietNow, EverywhereOut, NothingInFlight, Covered, LoginScreen, Shown
<1>1. CASE \E removed \in BOOLEAN : TapSignOut(removed)
  BY <1>1, SignOutQuiet
<1>2. CASE signedOut = "clean" /\ ~\E removed \in BOOLEAN : TapSignOut(removed)
  <2>0. /\ QuietNow /\ \A c \in Call : answer[c] = "none" /\ job[c].kind \notin Pending
        /\ \A l \in Login : login[l].stage = "idle"
        /\ google.stage = "idle" /\ token = NoToken /\ cached = NoToken
        /\ visible = Nobody /\ durable = Nobody /\ google.user = Nobody
    BY <1>2 DEF Quiet, QuietNow, EverywhereOut, NothingInFlight, CallsTyped
  <2>1. CASE UNCHANGED vars \/ \E a \in Person : WriteAcknowledged(a) \/ WriteRejected(a)
    <3>1. UNCHANGED <<authVars, facebookVars, google, screen, job, late>>
      BY <2>1 DEF vars, WriteAcknowledged, WriteRejected
    <3> QED
      BY <2>0, <3>1 DEF QuietNow, EverywhereOut, NothingInFlight, Covered, LoginScreen, Shown,
                        authVars, facebookVars, FB!NoRequest
  <2>2. CASE User
    <3>1. ASSUME NEW c \in Call, NEW a \in Person, NEW form \in Form, TapFirebase(c, a, form)
          PROVE  UNCHANGED <<authVars, job, facebookVars, google, late>> /\ Uncovered
                 /\ screen' \in {screen, Alerted(screen)}
      BY <1>2, <3>1 DEF TapFirebase
    <3>3. UNCHANGED <<authVars, job, facebookVars, google, late>>
      BY <1>2, <2>2, <3>1 DEF User, TapGoogle, FbButton, SwitchButton, DismissAlert
    <3>4. LoginScreen'
      <4>1. \/ \E c \in Call, a \in Person, form \in Form : TapFirebase(c, a, form)
            \/ SwitchButton \/ DismissAlert
        BY <1>2, <2>2 DEF User, TapGoogle, FbButton
      <4>2. screen \in Screen
        BY <4>1, <3>1 DEF ScreenTyped, SwitchButton, DismissAlert, Uncovered
      <4>3. /\ screen'.fire = screen.fire /\ screen'.fb = screen.fb
            /\ screen'.over \in {screen.over, "alert", "nothing"}
        <5>1. CASE SwitchButton
          BY <4>2, <5>1 DEF SwitchButton, Screen
        <5>2. CASE DismissAlert
          BY <4>2, <5>2 DEF DismissAlert, Screen
        <5> QED
          BY <3>1, <4>1, <4>2, <5>1, <5>2, AlertedFacts
      <4> QED
        BY <2>0, <4>2, <4>3, BlankFacts DEF QuietNow, LoginScreen, Shown
    <3> QED
      BY <2>0, <3>3, <3>4 DEF QuietNow, EverywhereOut, NothingInFlight, Covered,
                        authVars, facebookVars, FB!NoRequest
  <2>3. ASSUME NEW c \in Call, Handler(c) \/ ReadDenied(c) PROVE QuietNow'
    <3>1. ReadAnswered(c) \/ ReadDenied(c)
      BY <2>0, <2>3 DEF Handler, CreateAnswered, SignInAnswered, GoogleCallAnswered,
                        FbCallAnswered, Pending
    <3> QED
      BY <2>0, <3>1, ReadEndsQuiet
  <2>4. CASE Facebook
    <3>1. ASSUME NEW l \in Login, NEW load, NEW c \in Call, FbLoginEnds(l, load, c) PROVE FALSE
      BY <2>0, <3>1, FbLoginUnderWay
    <3> QED
      BY <2>0, <2>4, <3>1, FetchesQuiet, TransferQuiet DEF Facebook
  <2>5. ASSUME Google PROVE FALSE
    BY <2>0, <2>5 DEF Google, GoogleSheetClosed, GoogleFailed, GoogleSigned
  <2>6. ASSUME Expired \/ \E c \in Call : Granted(c) \/ Refused(c) PROVE FALSE
    BY <2>0, <2>6 DEF Granted, Refused, Auth!Refuse, Expired, Auth!Expire
  <2>7. CASE Crash
    <3>1. /\ screen' = NoScreen /\ job' = [c \in Call |-> NoJob]
          /\ google' = [google EXCEPT !.stage = "idle"] /\ token' = NoToken /\ cached' = cached
          /\ login' = [l \in Login |-> FB!NoLogin] /\ fetch' = [f \in Fetch |-> FB!NoRequest]
          /\ visible' = Nobody /\ durable' = durable /\ answer' = [c \in Call |-> "none"]
      BY <2>7 DEF Crash, FB!Crash, Auth!Stop, Auth!Unasked
    <3>2. EverywhereOut' /\ NothingInFlight'
      BY <2>0, <3>1 DEF EverywhereOut, NothingInFlight, GoogleTyped, FB!NoLogin
    <3>3. Covered' /\ LoginScreen'
      BY <3>1 DEF Covered, LoginScreen, FB!NoRequest
    <3> QED
      BY <3>2, <3>3 DEF QuietNow
  <2>8. ASSUME NEW readable \in BOOLEAN, Launch(readable) PROVE QuietNow'
    <3>1. /\ UNCHANGED <<google, screen, job, late, login, fetch, answer, durable>>
          /\ visible' = Nobody /\ token' = NoToken /\ cached' = NoToken
      BY <2>0, <2>8 DEF Launch, FB!Launch, Auth!Start
    <3> QED
      BY <2>0, <3>1 DEF QuietNow, EverywhereOut, NothingInFlight, Covered, LoginScreen, Shown,
                        FB!NoRequest
  <2>9. CASE FirstScreen
    <3>1. UNCHANGED <<authVars, facebookVars, google, job, late>> /\ screen' = Fresh
      BY <2>0, <2>9 DEF FirstScreen
    <3>2. LoginScreen'
      BY <3>1, BlankFacts DEF LoginScreen, Shown
    <3> QED
      BY <2>0, <3>1, <3>2 DEF QuietNow, EverywhereOut, NothingInFlight, Covered, authVars,
                        facebookVars, FB!NoRequest
  <2> QED
    BY <2>1, <2>2, <2>3, <2>4, <2>5, <2>6, <2>7, <2>8, <2>9 DEF Next, Server, Process
<1>3. signedOut' \in {signedOut, "no"} \/ \E removed \in BOOLEAN : TapSignOut(removed)
  <2>1. ASSUME NEW c \in Call, Handler(c) PROVE signedOut' = signedOut
    BY <2>1 DEF Handler, CreateAnswered, SignInAnswered, ReadAnswered, GoogleCallAnswered,
                FbCallAnswered, historyVars
  <2>2. ASSUME NEW l \in Login, NEW load \in FB!Startable, NEW c \in Call, FbLoginEnds(l, load, c)
        PROVE  signedOut' = signedOut
    BY <2>2, FbLoginHandled DEF FbButtonHandler, historyVars
  <2>3. CASE Facebook
    BY <2>2, <2>3 DEF Facebook, FbSilentStep, TransferFBData, historyVars
  <2>4. CASE User
    BY <2>4 DEF User, TapFirebase, SwitchButton, DismissAlert, TapGoogle, FbButton, historyVars
  <2>5. CASE Google \/ Server
    BY <2>5 DEF Google, GoogleSheetClosed, GoogleFailed, GoogleSigned, Server, Granted, Refused,
                ReadDenied, Expired, WriteAcknowledged, WriteRejected, historyVars
  <2>6. CASE Process
    BY <2>6 DEF Process, Crash, Launch, FirstScreen, historyVars
  <2>7. CASE UNCHANGED vars
    BY <2>7 DEF vars, historyVars
  <2> QED
    BY <2>1, <2>3, <2>4, <2>5, <2>6, <2>7 DEF Next
<1> QED
  BY <1>1, <1>2, <1>3

-----------------------------------------------------------------------------
(* Without Facebook.                                                       *)

NoFacebook ==
    /\ token = NoToken /\ cached = NoToken
    /\ \A l \in Login : login[l] = FB!NoLogin
    /\ \A f \in Fetch : fetch[f] = FB!NoRequest
    /\ \A c \in Call : job[c].kind # "fb"

(* A call that nothing crossed is alone, and what it has read is of the    *)
(* account that is signed in.                                              *)
Lone(c) == job[c] # NoJob /\ job[c].overlap = "none"

Unanswered == (\E c \in Call : job[c] # NoJob) \/ google.stage # "idle"

LoneCalls ==
    \A c \in Call : Lone(c) =>
        /\ \A d \in Call \ {c} : job[d] = NoJob
        /\ google.stage = "idle"
        /\ job[c].kind = "read" => visible \in {Nobody, job[c].uid}

(* So is a profile that came of it, as long as it is shown.                *)
LoneProfile ==
    LET p == screen.profileInfo
    IN  Shown /\ p.system = "Firebase" /\ p.overlap = "none"
          => ~Unanswered /\ visible \in {Nobody, p.names}

(* A program that never uses Facebook has no Facebook session.             *)
LEMMA NoFacebookStep ==
    ASSUME "facebook" \notin Methods, CallsTyped, NoFacebook, CallsStep, [Next]_vars
    PROVE  NoFacebook'
<1>1. token' = NoToken /\ cached' = NoToken
      /\ (\A l \in Login : login'[l] = FB!NoLogin) /\ (\A f \in Fetch : fetch'[f] = FB!NoRequest)
  <2>0. /\ token = NoToken /\ cached = NoToken
        /\ \A l \in Login : login[l].stage = "idle"
        /\ \A f \in Fetch : fetch[f].stage = "idle"
    BY DEF NoFacebook, FB!NoLogin, FB!NoRequest
  <2>1. CASE UNCHANGED facebookVars
    BY <2>1 DEF NoFacebook, facebookVars
  <2>2. ASSUME NEW removed \in BOOLEAN, TapSignOut(removed) PROVE UNCHANGED facebookVars
    BY <2>0, <2>2 DEF TapSignOut, ProfileLogout, FB!LogOut, FB!SetCurrent, facebookVars
  <2>3. CASE User
    BY <2>1, <2>2, <2>3 DEF User, TapFirebase, SwitchButton, DismissAlert, TapGoogle, FbButton
  <2>4. ASSUME NEW c \in Call, Handler(c) PROVE UNCHANGED facebookVars
    BY <2>4 DEF Handler, CreateAnswered, SignInAnswered, ReadAnswered, GoogleCallAnswered,
                FbCallAnswered
  <2>5. ASSUME Facebook PROVE FALSE
    <3>1. ASSUME NEW l \in Login, NEW load, NEW c \in Call, FbLoginEnds(l, load, c) PROVE FALSE
      BY <2>0, <3>1, FbLoginUnderWay
    <3>2. ASSUME FbSilentStep PROVE FALSE
      BY <2>0, <3>2 DEF FbSilentStep, FB!SheetGranted, FB!SheetClosed, FB!Validated,
                        FB!NotValidated, FB!FetchFailed, FB!FetchTransient, FB!FetchInvalid,
                        FB!RecoveryDeclined, FB!RecoveryAccepted
    <3>3. ASSUME NEW f \in Fetch, TransferFBData(f) PROVE FALSE
      BY <2>0, <3>3 DEF TransferFBData, FB!FetchOk
    <3> QED
      BY <2>5, <3>1, <3>2, <3>3 DEF Facebook
  <2>6. CASE Google \/ Server
    BY <2>1, <2>6 DEF Google, GoogleSheetClosed, GoogleFailed, GoogleSigned, Server, Granted,
                      Refused, ReadDenied, Expired, WriteAcknowledged, WriteRejected
  <2>7. CASE Crash
    BY <2>0, <2>7 DEF Crash, FB!Crash, FB!NoLogin, FB!NoRequest
  <2>8. CASE \E readable \in BOOLEAN : Launch(readable)
    BY <2>0, <2>8 DEF Launch, FB!Launch, NoFacebook
  <2>9. CASE FirstScreen
    BY <2>0, <2>1, <2>9 DEF FirstScreen
  <2>10. CASE UNCHANGED vars
    BY <2>1, <2>10 DEF vars
  <2> QED
    BY <2>1, <2>3, <2>4, <2>5, <2>6, <2>7, <2>8, <2>9, <2>10 DEF Next, Process
<1>2. \A c \in Call : job'[c].kind # "fb"
  <2>1. ASSUME NEW c \in Call, CallBegins(c) PROVE \A d \in Call : job'[d].kind # "fb"
    <3>1. PICK a \in Person, kind \in Pending, weak \in BOOLEAN :
            /\ Begin(c, a, kind, weak)
            /\ kind = "fb" => \E l \in Login : login[l] # FB!NoLogin
      BY <2>1 DEF CallBegins
    <3> QED
      BY <3>1, BeginFacts DEF NoFacebook
  <2>2. ASSUME NEW c \in Call, Granted(c) \/ Refused(c) PROVE job' = job
    BY <2>2 DEF Granted, Refused
  <2> QED
    BY <2>1, <2>2, EndFacts, ReadEndFacts, FlowFacts, NoJobFacts
       DEF NoFacebook, CallsStep, FlowBegins, CallsForgotten, CallsKept
<1> QED
  BY <1>1, <1>2 DEF NoFacebook, FB!NoLogin, FB!NoRequest

(* A call stays alone, or something crosses it.                            *)
LEMMA LoneCallsStep ==
    ASSUME CallsInv, AtRest, LoneCalls, CallsStep,
           FlowBegins \/ google'.stage = google.stage \/ google.stage # "idle"
             \/ google'.stage = "idle"
    PROVE  LoneCalls'
<1> USE DEF CallsInv, LoneCalls, Lone
<1>1. ASSUME NEW c \in Call, CallBegins(c) PROVE LoneCalls'
  <2>1. PICK a \in Person, kind \in Pending, weak \in BOOLEAN : Begin(c, a, kind, weak)
    BY <1>1 DEF CallBegins
  <2>2. \A d \in Call \ {c} : ~Lone(d)'
    BY <2>1, BeginFacts
  <2>3. ASSUME Lone(c)'
        PROVE  /\ \A d \in Call \ {c} : job'[d] = NoJob
               /\ google'.stage = "idle" /\ job'[c].kind # "read"
    <3>1. Alone /\ job'[c].kind # "read"
      BY <2>1, <2>3, BeginFacts DEF Pending
    <3>2. \A d \in Call \ {c} : job'[d] = NoJob
      BY <2>1, <3>1, BeginFacts DEF Alone
    <3>3. ~FlowBegins
      <4>1. job[c] = NoJob
        BY <2>1 DEF Begin
      <4> QED
        BY <4>1, <2>1, BeginFacts, FlowFacts DEF FlowBegins
    <3> QED
      BY <3>1, <3>2, <3>3 DEF Alone, NothingInFlight
  <2> QED
    BY <2>2, <2>3
<1>2. ASSUME NEW c \in Call, Granted(c) PROVE LoneCalls'
  <2>1. answer[c] = "asked" /\ job' = job /\ google' = google
    BY <1>2 DEF Granted
  <2>2. job[c].kind \in Pending /\ job[c] # NoJob
    BY <2>1, NoJobFacts DEF CallsTyped, Pending
  <2> QED
    BY <2>1, <2>2 DEF Pending
<1>3. ASSUME NEW c \in Call, Refused(c) PROVE LoneCalls'
  BY <1>3 DEF Refused, Auth!Refuse
<1>4. ASSUME NEW c \in Call, CallEnds(c) \/ ReadBegins(c) PROVE LoneCalls'
  <2>1. google'.stage = google.stage \/ google.stage # "idle" \/ google'.stage = "idle"
    <3>1. ~FlowBegins
      <4>1. job[c].kind \in Pending
        BY <1>4 DEF CallEnds, ReadBegins, Pending
      <4> QED
        BY <1>4, <4>1, EndFacts, FlowFacts, NoJobFacts DEF FlowBegins, Pending
    <3> QED
      BY <3>1
  <2> QED
    BY <1>4, <2>1, EndFacts, NoJobFacts DEF GrantedIsVisible
<1>5. ASSUME NEW c \in Call, ReadEnds(c) PROVE LoneCalls'
  <2>1. google'.stage = google.stage \/ google.stage # "idle" \/ google'.stage = "idle"
    BY <1>5, ReadEndFacts, FlowFacts, NoJobFacts DEF FlowBegins
  <2> QED
    BY <1>5, <2>1, ReadEndFacts, NoJobFacts
<1>6. CASE FlowBegins
  BY <1>6, FlowFacts DEF FlowBegins
<1>7. CASE CallsForgotten
  BY <1>7 DEF CallsForgotten
<1>8. CASE CallsKept
  <2>1. CASE screen = NoScreen
    BY <1>8, <2>1 DEF AtRest, CallsKept
  <2>2. CASE screen # NoScreen /\ FlowBegins
    BY <1>6, <2>2
  <2>3. CASE screen # NoScreen /\ ~FlowBegins
    BY <1>8, <2>3 DEF CallsKept
  <2> QED
    BY <2>1, <2>2, <2>3
<1> QED
  BY <1>1, <1>2, <1>3, <1>4, <1>5, <1>6, <1>7, <1>8 DEF CallsStep

(* Nothing presents a profile that is not filled.                          *)
LEMMA NeverBlankStep ==
    ASSUME CallsTyped, ScreenTyped, NoFacebook, NeverBlank, ScreenStep
    PROVE  NeverBlank'
<1> USE DEF NeverBlank, Shown
<1>1. CASE ScreenKept \/ ScreenGone \/ ScreenFresh \/ ScreenTouched
  BY <1>1, BlankFacts DEF ScreenKept, ScreenGone, Crash, ScreenFresh, ScreenTouched
<1>2. ASSUME NEW c \in Call, FireShown(c) PROVE NeverBlank'
  <2>1. FireProfile(job[c]).system = "Firebase"
    BY <1>2, ProfileFacts DEF CallsTyped
  <2> QED
    BY <1>2, <2>1, FireShownFacts
<1>3. ASSUME NEW c \in Call, FbShown(c) PROVE FALSE
  BY <1>3 DEF FbShown, NoFacebook
<1>4. ASSUME NEW p \in Person, GoogleShown(p) PROVE NeverBlank'
  BY <1>4, GoogleShownFacts, ProfileFacts
<1>5. ASSUME NEW f \in Fetch, FbFilled(f) PROVE FALSE
  BY <1>5 DEF FbFilled, NoFacebook
<1> QED
  BY <1>1, <1>2, <1>3, <1>4, <1>5 DEF ScreenStep

(* While everything is answered and a profile covers the screen, the calls *)
(* stay as they are.                                                       *)
LEMMA AnsweredStep ==
    ASSUME CallsTyped, NoFacebook, CallsStep, ~Unanswered, Shown,
           FlowBegins \/ google'.stage = google.stage \/ google.stage # "idle"
             \/ google'.stage = "idle"
    PROVE  \/ screen' = NoScreen
           \/ ~Unanswered' /\ visible' \in {visible, Nobody}
<1>1. /\ ~Uncovered /\ screen # NoScreen /\ google.stage = "idle"
      /\ \A c \in Call : job[c] = NoJob /\ job[c].kind = "none" /\ answer[c] = "none"
  <2>1. ~Uncovered /\ screen # NoScreen
    BY BlankFacts DEF Shown, Uncovered
  <2> QED
    BY <2>1, NoJobFacts DEF Unanswered, CallsTyped, Pending
<1>2. ~FlowBegins
  BY <1>1 DEF FlowBegins
<1>3. \A c \in Call : /\ ~CallBegins(c) /\ ~Granted(c) /\ ~Refused(c) /\ ~CallEnds(c)
                      /\ ~ReadBegins(c) /\ ~ReadEnds(c)
  BY <1>1 DEF CallBegins, NoFacebook, Granted, Refused, Auth!Refuse, CallEnds, ReadBegins,
              ReadEnds, Pending
<1>4. CASE CallsForgotten
  BY <1>4 DEF CallsForgotten
<1>5. CASE CallsKept
  BY <1>1, <1>2, <1>5 DEF CallsKept, Unanswered
<1> QED
  BY <1>2, <1>3, <1>4, <1>5 DEF CallsStep

(* A profile of such a call is that of the session while it is shown.      *)
LEMMA LoneProfileStep ==
    ASSUME CallsTyped, ScreenTyped, NoFacebook, LoneCalls, LoneProfile, CallsStep, ScreenStep,
           FlowBegins \/ google'.stage = google.stage \/ google.stage # "idle"
             \/ google'.stage = "idle"
    PROVE  LoneProfile'
<1> DEFINE p == screen.profileInfo
           Old == Shown /\ p.system = "Firebase" /\ p.overlap = "none"
<1> SUFFICES ASSUME Shown', p'.system = "Firebase", p'.overlap = "none"
             PROVE  ~Unanswered' /\ visible' \in {Nobody, p'.names}
  BY DEF LoneProfile
<1>1. CASE Old /\ p' = p
  <2>1. ~Unanswered /\ visible \in {Nobody, p.names}
    BY <1>1 DEF LoneProfile
  <2>2. screen' # NoScreen
    BY BlankFacts DEF Shown
  <2> QED
    BY <1>1, <2>1, <2>2, AnsweredStep
<1>2. ASSUME NEW c \in Call, FireShown(c)
      PROVE  ~Unanswered' /\ visible' \in {Nobody, p'.names}
  <2>1. /\ job[c].kind = "read" /\ JobDone(c) /\ google' = google /\ visible' = visible
        /\ job[c] # NoJob
    BY <1>2, NoJobFacts DEF FireShown, authVars
  <2>2. CASE screen'.over = screen.over /\ p' = p
    <3>1. Old
      BY <2>2 DEF Shown
    <3> QED
      BY <2>2, <3>1, <1>1
  <2>3. CASE screen'.over = "profile" /\ p' = FireProfile(job[c])
    <3>1. p'.overlap = job[c].overlap /\ p'.names = job[c].uid
      BY <1>2, <2>3, ProfileFacts, FireShownFacts
    <3>2. Lone(c)
      BY <2>1, <3>1 DEF Lone
    <3>3. (\A d \in Call \ {c} : job[d] = NoJob) /\ google.stage = "idle"
          /\ visible \in {Nobody, job[c].uid}
      BY <2>1, <3>2 DEF LoneCalls
    <3>4. \A d \in Call : job'[d] = NoJob
      BY <2>1, <3>3 DEF JobDone, CallsTyped
    <3> QED
      BY <2>1, <3>1, <3>3, <3>4 DEF Unanswered
  <2> QED
    BY <1>2, <2>2, <2>3, FireShownFacts
<1>3. ASSUME NEW c \in Call, FbShown(c) PROVE FALSE
  BY <1>3 DEF FbShown, NoFacebook
<1>4. ASSUME NEW q \in Person, GoogleShown(q)
      PROVE  ~Unanswered' /\ visible' \in {Nobody, p'.names}
  <2>1. screen'.over = screen.over /\ p' = p
    BY <1>4, GoogleShownFacts, ProfileFacts
  <2>2. Old
    BY <2>1 DEF Shown
  <2> QED
    BY <1>1, <2>1, <2>2
<1>5. ASSUME NEW f \in Fetch, FbFilled(f) PROVE FALSE
  BY <1>5 DEF FbFilled, NoFacebook
<1>6. CASE ScreenKept
  BY <1>1, <1>6 DEF ScreenKept, Shown
<1>7. CASE ScreenTouched
  BY <1>1, <1>7 DEF ScreenTouched, Shown
<1>8. CASE ScreenGone \/ ScreenFresh
  BY <1>8, BlankFacts DEF ScreenGone, Crash, ScreenFresh, Shown
<1> QED
  BY <1>2, <1>3, <1>4, <1>5, <1>6, <1>7, <1>8 DEF ScreenStep

-----------------------------------------------------------------------------
(* The server's accounts and records, and late callbacks.                  *)

DataTyped ==
    /\ accounts \subseteq Person /\ records \subseteq accounts /\ writes \subseteq accounts
    /\ announced \subseteq Person /\ lost \subseteq Person
    /\ late \subseteq Call \cup Login \cup Fetch
    /\ signedOut \in {"no", "busy", "clean"}

DataInv == DataTyped /\ AnnouncedHasRecordUnlessLost

(* Records are of accounts, and announced accounts have records or lost    *)
(* them.                                                                   *)
LEMMA DataStep ==
    ASSUME FBInv, CallsTyped, DataInv, [Next]_vars
    PROVE  DataInv'
<1> USE DEF DataInv, DataTyped, AnnouncedHasRecordUnlessLost, databaseVars, historyVars
<1>1. CASE UNCHANGED vars
  BY <1>1 DEF vars
<1>2. CASE User
  <2>1. ASSUME NEW removed \in BOOLEAN, TapSignOut(removed) PROVE DataInv'
    <3>1. /\ UNCHANGED <<accounts, records, writes, announced, lost>>
          /\ late' = UnderWay /\ signedOut' \in {"no", "busy", "clean"}
      BY <2>1 DEF TapSignOut, NewLoginScreen
    <3> QED
      BY <3>1 DEF UnderWay
  <2>2. CASE ~\E removed \in BOOLEAN : TapSignOut(removed)
    BY <1>2, <2>2 DEF User, TapFirebase, SwitchButton, DismissAlert, TapGoogle, FbButton
  <2> QED
    BY <2>1, <2>2
<1>3. ASSUME NEW c \in Call, Handler(c) PROVE DataInv'
  <2>1. CASE CreateAnswered(c)
    <3>1. /\ UNCHANGED <<accounts, records, signedOut, lost>> /\ late' = late \ {c}
          /\ \/ UNCHANGED <<writes, announced>>
             \/ /\ answer[c] = "granted" /\ writes' = writes \cup {asked[c]}
                /\ announced' = announced \cup {asked[c]}
      BY <2>1 DEF CreateAnswered, ScreenOf, WriteRecord
    <3>2. answer[c] = "granted" => asked[c] \in accounts /\ asked[c] \in Person
      BY DEF CallsTyped
    <3> QED
      BY <3>1, <3>2
  <2>2. CASE ~CreateAnswered(c)
    BY <1>3, <2>2 DEF Handler, SignInAnswered, ReadAnswered, GoogleCallAnswered, FbCallAnswered,
                      ScreenOf
  <2> QED
    BY <2>1, <2>2
<1>4. CASE Facebook
  <2>1. ASSUME NEW l \in Login, NEW load \in FB!Startable, NEW c \in Call, FbLoginEnds(l, load, c)
        PROVE  DataInv'
    <3>1. PICK error \in BOOLEAN : FbButtonHandler(l, load, error, c)
      BY <2>1, FbLoginHandled
    <3>2. (IF load = NoFetch THEN {} ELSE {load}) \subseteq Fetch
      BY DEF FB!Startable
    <3>3. /\ UNCHANGED <<accounts, databaseVars, historyVars>>
          /\ late' \subseteq late \cup Fetch \cup {c}
      BY <3>1, <3>2 DEF FbButtonHandler
    <3> QED
      BY <3>3
  <2>2. CASE FbSilentStep
    BY <2>2 DEF FbSilentStep
  <2>3. ASSUME NEW f \in Fetch, TransferFBData(f) PROVE DataInv'
    BY <2>3 DEF TransferFBData, ScreenOf
  <2> QED
    BY <1>4, <2>1, <2>2, <2>3 DEF Facebook
<1>5. CASE Google
  BY <1>5 DEF Google, GoogleSheetClosed, GoogleFailed, GoogleSigned
<1>6. CASE Server
  <2>1. ASSUME NEW c \in Call, Granted(c) \/ Refused(c)
        PROVE  /\ accounts' \in {accounts, accounts \cup {asked[c]}} /\ asked[c] \in Person
               /\ UNCHANGED <<databaseVars, late, historyVars>>
    BY <2>1 DEF Granted, Refused, Auth!Refuse, CallsTyped
  <2>2. ASSUME NEW a \in Person, WriteAcknowledged(a) \/ WriteRejected(a) PROVE DataInv'
    BY <2>2 DEF WriteAcknowledged, WriteRejected
  <2>3. ASSUME NEW c \in Call, ReadDenied(c) PROVE DataInv'
    BY <2>3 DEF ReadDenied, ScreenOf
  <2> QED
    BY <1>6, <2>1, <2>2, <2>3 DEF Server, Expired
<1>7. CASE Process
  <2>1. CASE Crash
    <3>1. PICK S \in SUBSET {asked[c] : c \in {d \in Call : Creates(d)}} :
            accounts' = accounts \cup S
      BY <2>1 DEF Crash
    <3>2. S \subseteq Person
      BY <3>1 DEF Creates, CallsTyped
    <3>3. PICK W \in SUBSET writes : records' = records \cup W /\ lost' = lost \cup (writes \ W)
      BY <2>1 DEF Crash
    <3>4. writes' = {} /\ late' = {} /\ UNCHANGED <<signedOut, announced>>
      BY <2>1 DEF Crash
    <3> QED
      BY <3>1, <3>2, <3>3, <3>4
  <2>2. CASE ~Crash
    BY <1>7, <2>2 DEF Process, Launch, FirstScreen
  <2> QED
    BY <2>1, <2>2
<1> QED
  BY <1>1, <1>2, <1>3, <1>4, <1>5, <1>6, <1>7 DEF Next

-----------------------------------------------------------------------------
(* The invariant.                                                          *)

WithoutFacebook == NoFacebook /\ LoneCalls /\ LoneProfile /\ NeverBlank

AppInv ==
    /\ FBInv /\ CallsInv /\ AtRest /\ ScreenInv /\ Quiet /\ DataInv
    /\ "facebook" \notin Methods => WithoutFacebook

(* A device with any accounts, records and sessions left on it.            *)
LEMMA AppInvInit == Init => AppInv
<1> SUFFICES ASSUME Init PROVE AppInv
  OBVIOUS
<1> USE DEF Init, Auth!Init
<1>1. FBInv
  BY FBInvInit
<1>2. /\ token = NoToken /\ running = FALSE /\ \A c \in Call : job[c] = NoJob /\ answer[c] = "none"
      /\ \A l \in Login : login[l] = FB!NoLogin
      /\ \A f \in Fetch : fetch[f] = FB!NoRequest
  BY DEF FB!Init, Auth!Unasked
<1>3. CallsTyped
  BY <1>2, NoJobFacts DEF CallsTyped, Maybe, Answers, Pending, Auth!Nothing, Auth!Unasked
<1>4. CallsInv
  BY <1>2, <1>3, NoJobFacts DEF CallsInv, CallsCross, GrantedIsVisible, ReadsOneAccount
<1>5. AtRest
  BY <1>2 DEF AtRest
<1>6. ScreenInv
  BY DEF ScreenInv, ScreenTyped, ProfilesOneAccount
<1>7. Quiet
  BY DEF Quiet
<1>8. DataInv
  BY DEF DataInv, DataTyped, AnnouncedHasRecordUnlessLost
<1>9. ASSUME "facebook" \notin Methods PROVE WithoutFacebook
  BY <1>2, <1>9, NoJobFacts, BlankFacts
     DEF WithoutFacebook, NoFacebook, LoneCalls, Lone, LoneProfile, NeverBlank, Shown
<1> QED
  BY <1>1, <1>4, <1>5, <1>6, <1>7, <1>8, <1>9 DEF AppInv

(* Every step of the app keeps all the parts.                              *)
LEMMA AppInvStep == AppInv /\ [Next]_vars => AppInv'
<1> SUFFICES ASSUME AppInv, [Next]_vars PROVE AppInv'
  OBVIOUS
<1> USE DEF AppInv
<1>1. CallsStep /\ ScreenStep /\ CallsTyped /\ ScreenTyped /\ GoogleTyped
  BY CallSteps, ScreenSteps DEF CallsInv, ScreenInv, CallsTyped, GoogleTyped
<1>2. /\ GoogleTyped'
      /\ FlowBegins \/ google'.stage = google.stage \/ google.stage # "idle"
           \/ google'.stage = "idle"
  BY <1>1, GoogleSteps
<1>3. FBInv'
  BY FBInvStep
<1>4. CallsInv'
  BY <1>1, <1>2, CallsInvStep DEF GoogleTyped
<1>5. AtRest'
  BY <1>1, AtRestStep
<1>6. ScreenInv'
  BY <1>1, ScreenInvStep
<1>7. Quiet'
  BY <1>1, QuietStep
<1>8. DataInv'
  BY <1>1, DataStep
<1>9. ASSUME "facebook" \notin Methods PROVE WithoutFacebook'
  BY <1>1, <1>2, <1>9, NoFacebookStep, LoneCallsStep, LoneProfileStep, NeverBlankStep
     DEF WithoutFacebook
<1> QED
  BY <1>3, <1>4, <1>5, <1>6, <1>7, <1>8, <1>9

(* All parts of the invariant hold whatever the user, the servers and the  *)
(* handlers of ViewController and ProfileViewController do, in any order.  *)
THEOREM AppInvariance == Spec => []AppInv
  BY AppInvInit, AppInvStep, PTL DEF Spec

(* Every variable of the app keeps its type: no handler writes a field that *)
(* a nil screen does not have, no record is of an account that is not there. *)
THEOREM AppTypeCorrect == Spec => []TypeOK
<1>1. AppInv => TypeOK
  BY FBInvFacts DEF AppInv, TypeOK, CallsInv, CallsTyped, ScreenInv, ScreenTyped, DataInv, DataTyped
<1> QED
  BY <1>1, AppInvariance, PTL

(* didTapSignOut with no login under way: nobody is signed in with any of  *)
(* the three systems, in memory or on the device, until a login is tapped, *)
(* whatever reads, profile requests, crashes and launches come after it.   *)
THEOREM SignedOutStays == Spec => []SignedOutEverywhere
<1>1. AppInv => SignedOutEverywhere
  BY DEF AppInv, Quiet, QuietNow, SignedOutEverywhere
<1> QED
  BY <1>1, AppInvariance, PTL

(* The new login screen that didTapSignOut presents shows no profile and   *)
(* holds none of the former user's data: late callbacks find the old one.  *)
THEOREM StartsClean == Spec => []CleanStart
<1>1. AppInv => CleanStart
  BY DEF AppInv, Quiet, QuietNow, LoginScreen, CleanStart
<1> QED
  BY <1>1, AppInvariance, PTL

(* The e-mail of the current user and the names of the record that was read *)
(* (signIn's handler in ViewController) belong to one account, unless two  *)
(* Firebase calls were unanswered at the same time.                        *)
THEOREM OneAccountUnlessCrossed == Spec => []MixedOnlyIfCallsCrossed
<1>1. AppInv => MixedOnlyIfCallsCrossed
  BY BlankFacts DEF AppInv, ScreenInv, ProfilesOneAccount, One, MixedOnlyIfCallsCrossed, Shown
<1> QED
  BY <1>1, AppInvariance, PTL

(* createUser's handler writes the record of the account it announces: it  *)
(* is on the server, or on its way, or was rejected or lost in a crash.    *)
THEOREM AnnouncedRecorded == Spec => []AnnouncedHasRecordUnlessLost
<1>1. AppInv => AnnouncedHasRecordUnlessLost
  BY DEF AppInv, DataInv
<1> QED
  BY <1>1, AppInvariance, PTL

(* A Firebase profile on display is that of the account signed in, or of   *)
(* one that expired, if no other flow crossed its sign-in; of the app      *)
(* without Facebook, whose button presents an older profile again.         *)
THEOREM LoneProfileOfSession ==
    ASSUME "facebook" \notin Methods
    PROVE  Spec => []LoneProfileIsSession
<1>1. AppInv => LoneProfileIsSession
  BY DEF AppInv, WithoutFacebook, LoneProfile, LoneProfileIsSession
<1> QED
  BY <1>1, AppInvariance, PTL

(* Without Facebook, the profile screen is never presented before the data *)
(* it shows is there (the segues of ViewController).                       *)
THEOREM ShownFilled ==
    ASSUME "facebook" \notin Methods
    PROVE  Spec => []NeverBlank
<1>1. AppInv => NeverBlank
  BY DEF AppInv, WithoutFacebook
<1> QED
  BY <1>1, AppInvariance, PTL

=============================================================================

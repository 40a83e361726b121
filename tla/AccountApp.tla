----------------------------- MODULE AccountApp -----------------------------
(***************************************************************************)
(* The app "Account": its login screen (ViewController.swift), the profile *)
(* it presents (ProfileViewController.swift) and the sign-out, which       *)
(* presents a new login screen over the old ones instead of going back.    *)
(*                                                                         *)
(* Every handler runs on the main thread, so a handler is one action here, *)
(* with every call it makes.  Around them the other parts make their own   *)
(* steps: Firebase's session (AuthSession, which FIRAuth implements), the  *)
(* Facebook session (FBSDK), the Firebase database, Google's sign-in, and  *)
(* the user, who touches whatever is on top.                               *)
(*                                                                         *)
(* A screen that something covers can present nothing: UIKit drops what    *)
(* its late callbacks try to present.  A login screen that was covered by  *)
(* a sign-out never comes back, so only the one in front is a variable; a  *)
(* callback whose screen was covered meanwhile is "late", and what it does *)
(* to that screen is not seen.                                             *)
(***************************************************************************)
EXTENDS Naturals, Sequences, FiniteSets

CONSTANTS Person,       \* people, each with one account of every kind
          Nobody,       \* nil
          Call,         \* Firebase sign-in calls in flight at a time
          Serial, NoToken, Login, Fetch, NoFetch,   \* see FBSDK
          Methods       \* the buttons the user uses

ASSUME MethodsAreMethods == 
    Methods \subseteq {"register", "email", "google", "facebook"}

VARIABLES
    durable, visible, asked, answer, decided,   \* Firebase's session
    running, token, cached, login, fetch,       \* the Facebook session
    accounts,    \* Firebase accounts on the server
    records,     \* "users" records on the server
    writes,      \* records written here and not yet acknowledged
    google,      \* Google's sign-in, and whom Google considers signed in
    screen,      \* the login screen in front, with what covers it, or nil
    job,         \* what the handler of each Firebase call will do
    late,        \* calls, logins and requests of screens that were covered
    signedOut,   \* history: no login was tapped since the last sign-out
    announced,   \* history: accounts the user was told are created
    lost         \* history: records rejected, or lost in a crash

authVars == <<durable, visible, asked, answer, decided>>
facebookVars == <<running, token, cached, login, fetch>>
databaseVars == <<records, writes>>
historyVars == <<signedOut, announced, lost>>
vars == <<authVars, facebookVars, accounts, databaseVars, google, screen, job,
          late, historyVars>>

Auth == INSTANCE AuthSession WITH Account <- Person, NoUser <- Nobody
FB == INSTANCE FBSDK

ASSUME NilsAreNil == NoToken \notin FB!Token /\ NoFetch \notin Fetch
ASSUME NamesApart ==
    Call \cap Login = {} /\ Call \cap Fetch = {} /\ Login \cap Fetch = {}

-----------------------------------------------------------------------------
Maybe == Person \cup {Nobody}

(* ProfileData.  overlap is history: the worst that crossed the sign-in.   *)
Overlap == {"none", "flow", "call"}
Profile == [system : {"none", "Firebase", "Google", "Facebook"},
            email : Maybe, names : Maybe, overlap : Overlap]
Screen == [signUpOrIn : BOOLEAN,
           checkSystem : {"", "Firebase", "g", "fb"},
           fire : Profile, g : Profile, fb : Profile,
           over : {"nothing", "alert", "profile"},
           profileInfo : Profile]
NoScreen == [over |-> "no screen"]
Job == [kind : {"none", "create", "signIn", "read", "google", "fb"},
        weak : BOOLEAN,              \* the password is too short
        email : Maybe, uid : Maybe,  \* what a pending read has captured
        overlap : Overlap]

TypeOK ==
    /\ durable \in Maybe /\ visible \in Maybe
    /\ FB!TypeOK
    /\ accounts \subseteq Person
    /\ records \subseteq accounts
    /\ writes \subseteq accounts
    /\ google \in [stage : {"idle", "sheet", "exchange"}, user : Maybe]
    /\ screen \in Screen \cup {NoScreen}
    /\ job \in [Call -> Job]
    /\ late \subseteq Call \cup Login \cup Fetch
    /\ signedOut \in {"no", "busy", "clean"}
    /\ announced \subseteq Person
    /\ lost \subseteq Person

Blank == [system |-> "none", email |-> Nobody, names |-> Nobody,
          overlap |-> "none"]
Fresh == [signUpOrIn |-> FALSE, checkSystem |-> "", fire |-> Blank,
          g |-> Blank, fb |-> Blank, over |-> "nothing",
          profileInfo |-> Blank]
NoJob == [kind |-> "none", weak |-> FALSE, email |-> Nobody,
          uid |-> Nobody, overlap |-> "none"]

Init ==
    /\ Auth!Init
    /\ FB!Init
    /\ cached = NoToken \/ "facebook" \in Methods
    /\ accounts \in SUBSET Person
    /\ durable = Nobody \/ durable \in accounts
    /\ records \in SUBSET accounts
    /\ writes = {}
    /\ google = [stage |-> "idle", user |-> Nobody]
    /\ screen = NoScreen
    /\ job = [c \in Call |-> NoJob]
    /\ late = {}
    /\ signedOut = "no"
    /\ announced = {}
    /\ lost = {}

-----------------------------------------------------------------------------
(* UIKit.                                                                  *)

(* A web sheet or an alert of the Facebook SDK is in front of everything.  *)
Blocked ==
    \/ google.stage = "sheet"
    \/ \E l \in Login : login[l].stage = "sheet"
    \/ \E f \in Fetch : fetch[f].stage = "asking"

Uncovered == screen # NoScreen /\ screen.over = "nothing" /\ ~Blocked

Alerted(s) == IF Uncovered THEN [s EXCEPT !.over = "alert"] ELSE s

(* prepare(for:): the profile is the one that checkSystem names now.       *)
Chosen(s) == CASE s.checkSystem = "fb" -> s.fb
               [] s.checkSystem = "g" -> s.g
               [] OTHER -> s.fire

Segued(s) ==
    IF Uncovered
    THEN [s EXCEPT !.over = "profile", !.profileInfo = Chosen(s)]
    ELSE s

(* A callback, of call, login or request x, turns its screen into s.       *)
ScreenOf(x, s) ==
    /\ screen' = IF x \in late THEN screen ELSE s
    /\ late' = late \ {x}

-----------------------------------------------------------------------------
(* Firebase calls of the app, and the record of who they crossed.          *)
NothingInFlight ==
    /\ \A c \in Call : answer[c] = "none"
    /\ \A l \in Login : login[l].stage = "idle"
    /\ google.stage = "idle"

Alone == NothingInFlight /\ \A c \in Call : job[c] = NoJob

Worst(S) == IF "call" \in S THEN "call" ELSE IF "flow" \in S THEN "flow" ELSE "none"

Crossed(j, overlap) ==
    IF j = NoJob THEN j ELSE [j EXCEPT !.overlap = Worst({@, overlap})]

(* A login is tapped: every flow under way is crossed by another.          *)
JobsCrossed == [c \in Call |-> Crossed(job[c], "flow")]

(* Call c is made for a.  Two calls that are both unanswered cross.        *)
Begin(c, a, kind, weak) ==
    /\ job[c] = NoJob
    /\ Auth!Ask(c, a)
    /\ LET others == {d \in Call : answer[d] # "none"}
           overlap == CASE others # {} -> "call"
                        [] others = {} /\ ~Alone -> "flow"
                        [] OTHER -> "none"
       IN job' = [d \in Call |->
                    IF d = c
                    THEN [NoJob EXCEPT !.kind = kind, !.weak = weak,
                                       !.overlap = overlap]
                    ELSE Crossed(job[d], IF d \in others THEN "call" ELSE "flow")]

JobDone(c) == job' = [job EXCEPT ![c] = NoJob]

-----------------------------------------------------------------------------
(* What the user does on the screen that is on top.                        *)

(* firebaseLoginButtonAction: the fields are checked, the call is made, and*)
(* only then is a short password complained about.                         *)
TapFirebase(c, a, form) ==
    /\ running /\ Uncovered
    /\ "email" \in Methods
    /\ IF form = "incomplete"
       THEN UNCHANGED <<authVars, job, signedOut>>
       ELSE /\ Begin(c, a, IF screen.signUpOrIn THEN "create" ELSE "signIn",
                     form = "short")
            /\ signedOut' = "no"
    /\ screen' = IF form = "full" THEN screen ELSE Alerted(screen)
    /\ UNCHANGED <<facebookVars, accounts, databaseVars, google, late,
                   announced, lost>>

SwitchButton ==
    /\ running /\ Uncovered
    /\ "register" \in Methods
    /\ screen' = [screen EXCEPT !.signUpOrIn = ~@]
    /\ UNCHANGED <<authVars, facebookVars, accounts, databaseVars, google,
                   job, late, historyVars>>

DismissAlert ==
    /\ screen # NoScreen /\ ~Blocked
    /\ screen.over = "alert"
    /\ screen' = [screen EXCEPT !.over = "nothing"]
    /\ UNCHANGED <<authVars, facebookVars, accounts, databaseVars, google,
                   job, late, historyVars>>

(* The buttons of the other methods are hidden while signing up.           *)
TapGoogle ==
    /\ Uncovered
    /\ "google" \in Methods
    /\ ~screen.signUpOrIn
    /\ google.stage = "idle"
    /\ google' = [google EXCEPT !.stage = "sheet"]
    /\ job' = JobsCrossed
    /\ signedOut' = "no"
    /\ UNCHANGED <<authVars, facebookVars, accounts, databaseVars, screen,
                   late, announced, lost>>

FbButton(l) ==
    /\ Uncovered
    /\ "facebook" \in Methods
    /\ ~screen.signUpOrIn
    /\ FB!LogIn(l)
    /\ job' = JobsCrossed
    /\ signedOut' = "no"
    /\ UNCHANGED <<authVars, accounts, databaseVars, google, screen, late,
                   announced, lost>>

(* Variant, never a step: the Facebook session is forgotten.               *)
ProfileLogoutKeepsFacebook(removed) ==
    /\ Auth!SignOut(removed)
    /\ google' = [google EXCEPT !.user = Nobody]
    /\ UNCHANGED facebookVars

(* profileLogout: three sign-outs, whatever the first of them throws.      *)
ProfileLogout(removed) ==
    /\ Auth!SignOut(removed)
    /\ FB!LogOut
    /\ google' = [google EXCEPT !.user = Nobody]

(* What still has a handler of the login screen to call.                   *)
UnderWay ==
    {c \in Call : job[c] # NoJob} \cup {l \in Login : login[l] # FB!NoLogin}
    \cup {f \in Fetch : fetch[f] # FB!NoRequest}

(* Variant, never a step: the old login screen comes back, reset, and its  *)
(* callbacks find it.                                                      *)
OldLoginScreen ==
    /\ screen' = Fresh
    /\ UNCHANGED late

(* A new login screen comes over all the others and becomes Google's       *)
(* delegate.  Its viewDidLoad finds no Facebook token.                     *)
NewLoginScreen ==
    /\ screen' = Fresh
    /\ late' = UnderWay

(* didTapSignOut.                                                          *)
TapSignOut(removed) ==
    /\ screen # NoScreen /\ ~Blocked
    /\ screen.over = "profile"
    /\ ProfileLogout(removed)
    /\ NewLoginScreen
    /\ signedOut' = IF visible' # Nobody \/ durable' # Nobody THEN "no"
                    ELSE IF NothingInFlight THEN "clean" ELSE "busy"
    /\ UNCHANGED <<accounts, databaseVars, job, announced, lost>>

-----------------------------------------------------------------------------
(* Firebase decides a call.  A short password is never right; an account   *)
(* is created once; the first sign-in by another provider creates it.      *)
Acceptable(c) ==
    /\ ~job[c].weak
    /\ job[c].kind = "create" => asked[c] \notin accounts
    /\ job[c].kind = "signIn" => asked[c] \in accounts

Creates(c) ==
    /\ answer[c] = "asked"
    /\ job[c].kind # "signIn"
    /\ Acceptable(c)

Granted(c) ==
    /\ answer[c] = "asked"
    /\ Acceptable(c)
    /\ Auth!Grant(c)
    /\ accounts' = accounts \cup {asked[c]}
    /\ UNCHANGED <<facebookVars, databaseVars, google, screen, job, late,
                   historyVars>>

(* A call that fails may have created the account all the same: only its   *)
(* answer was lost, or the keychain did not take the user.                 *)
Refused(c) ==
    /\ Auth!Refuse(c)
    /\ accounts' \in {accounts} \cup
                     (IF Creates(c) THEN {accounts \cup {asked[c]}} ELSE {})
    /\ UNCHANGED <<facebookVars, databaseVars, google, screen, job, late,
                   historyVars>>

Expired ==
    /\ Auth!Expire
    /\ UNCHANGED <<facebookVars, accounts, databaseVars, google, screen,
                   job, late, historyVars>>

-----------------------------------------------------------------------------
(* The completion handlers of the app's Firebase calls.                    *)

(* Variant, never a step: the record goes to whoever is signed in.         *)
RecordUnderCurrentUser(c) == writes' = writes \cup {visible}

(* createUser: the record is written, without waiting for it, under the    *)
(* account that the result names.                                          *)
WriteRecord(c) == writes' = writes \cup {asked[c]}

CreateAnswered(c) ==
    /\ job[c].kind = "create"
    /\ Auth!Tell(c)
    /\ JobDone(c)
    /\ IF answer[c] = "granted"
       THEN /\ WriteRecord(c)
            /\ announced' = announced \cup {asked[c]}
            /\ ScreenOf(c, [Alerted(screen) EXCEPT !.signUpOrIn = ~@])
       ELSE /\ UNCHANGED <<writes, announced>>
            /\ ScreenOf(c, Alerted(screen))
    /\ UNCHANGED <<facebookVars, accounts, records, google, signedOut, lost>>

(* signIn: who is signed in is asked of Firebase, whose record to read is  *)
(* taken from the result.                                                  *)
SignInAnswered(c) ==
    /\ job[c].kind = "signIn"
    /\ Auth!Tell(c)
    /\ CASE answer[c] = "granted" /\ visible # Nobody ->
              /\ job' = [job EXCEPT ![c].kind = "read", ![c].email = visible,
                                    ![c].uid = asked[c]]
              /\ UNCHANGED <<screen, late>>
         [] answer[c] = "granted" /\ visible = Nobody ->
              JobDone(c) /\ ScreenOf(c, screen)
         [] OTHER ->
              JobDone(c) /\ ScreenOf(c, Alerted(screen))
    /\ UNCHANGED <<facebookVars, accounts, databaseVars, google, historyVars>>

(* Variant, never a step: the e-mail is read when the record arrives.      *)
FireProfileLateEmail(j) == [system |-> "Firebase", email |-> visible,
                            names |-> j.uid, overlap |-> j.overlap]

FireProfile(j) == [system |-> "Firebase", email |-> j.email, names |-> j.uid,
                   overlap |-> j.overlap]

WithFire(s, p) == [s EXCEPT !.fire = p, !.checkSystem = "Firebase"]

(* Variant, never a step: the profile is presented, then filled.           *)
ShowFireThenFill(s, p) == WithFire(Segued(s), p)

ShowFire(s, p) == Segued(WithFire(s, p))

(* The record is there or not; an unacknowledged write of this device      *)
(* counts as there.                                                        *)
ReadAnswered(c) ==
    /\ job[c].kind = "read"
    /\ JobDone(c)
    /\ IF job[c].uid \in records \cup writes
       THEN ScreenOf(c, ShowFire(screen, FireProfile(job[c])))
       ELSE ScreenOf(c, screen)
    /\ UNCHANGED <<authVars, facebookVars, accounts, databaseVars, google,
                   historyVars>>

(* The database refuses the read: nobody told it what to call then.        *)
ReadDenied(c) ==
    /\ job[c].kind = "read"
    /\ JobDone(c)
    /\ ScreenOf(c, screen)
    /\ UNCHANGED <<authVars, facebookVars, accounts, databaseVars, google,
                   historyVars>>

(* Google's Firebase call ends: its handler does nothing.                  *)
GoogleCallAnswered(c) ==
    /\ job[c].kind = "google"
    /\ Auth!Tell(c)
    /\ JobDone(c)
    /\ ScreenOf(c, screen)
    /\ UNCHANGED <<facebookVars, accounts, databaseVars, google, historyVars>>

(* Facebook's does the segue, whether it failed or not.                    *)
FbCallAnswered(c) ==
    /\ job[c].kind = "fb"
    /\ Auth!Tell(c)
    /\ JobDone(c)
    /\ ScreenOf(c, Segued(screen))
    /\ UNCHANGED <<facebookVars, accounts, databaseVars, google, historyVars>>

-----------------------------------------------------------------------------
(* The server acknowledges a record, or rejects it.                        *)
WriteAcknowledged(a) ==
    /\ a \in writes
    /\ writes' = writes \ {a}
    /\ records' = records \cup {a}
    /\ UNCHANGED <<authVars, facebookVars, accounts, google, screen, job,
                   late, historyVars>>

WriteRejected(a) ==
    /\ a \in writes
    /\ writes' = writes \ {a}
    /\ lost' = lost \cup {a}
    /\ UNCHANGED <<authVars, facebookVars, accounts, records, google,
                   screen, job, late, signedOut, announced>>

-----------------------------------------------------------------------------
(* Google: the sheet closes, the code is exchanged, and the delegate,      *)
(* which is the newest screen, hears of the outcome.  It does not wait for *)
(* its Firebase call before it presents the profile.                       *)
GoogleSheetClosed ==
    /\ google.stage = "sheet"
    /\ google' = [google EXCEPT !.stage = "exchange"]
    /\ UNCHANGED <<authVars, facebookVars, accounts, databaseVars, screen,
                   job, late, historyVars>>

GoogleFailed ==
    /\ google.stage = "exchange"
    /\ google' = [google EXCEPT !.stage = "idle"]
    /\ UNCHANGED <<authVars, facebookVars, accounts, databaseVars, screen,
                   job, late, historyVars>>

GoogleProfile(p) == [Blank EXCEPT !.system = "Google", !.email = p, !.names = p]

(* Variant, never a step: checkSystem is not set.                          *)
WithGoogleOnly(s, p) == [s EXCEPT !.g = GoogleProfile(p)]

WithGoogle(s, p) == [s EXCEPT !.g = GoogleProfile(p), !.checkSystem = "g"]

GoogleSigned(p, c) ==
    /\ google.stage = "exchange"
    /\ google' = [stage |-> "idle", user |-> p]
    /\ Begin(c, p, "google", FALSE)
    /\ screen' = Segued(WithGoogle(screen, p))
    /\ UNCHANGED <<facebookVars, accounts, databaseVars, late, historyVars>>

-----------------------------------------------------------------------------
(* fbButton's handler.  Cancelling is no error: the profile is loaded, by  *)
(* request load, with whatever token there is.  And whatever happened, a   *)
(* token there is is used to sign in.                                      *)
FbButtonHandler(l, load, error, c) ==
    LET inherits == (IF load = NoFetch THEN {} ELSE {load})
                    \cup (IF token' = NoToken THEN {} ELSE {c})
    IN /\ (load = NoFetch) = error
       /\ IF l \in late
          THEN screen' = screen /\ late' = (late \ {l}) \cup inherits
          ELSE /\ screen' = IF error THEN screen
                            ELSE [screen EXCEPT !.checkSystem = "fb"]
               /\ UNCHANGED late
       /\ IF token' = NoToken
          THEN UNCHANGED <<authVars, job>>
          ELSE Begin(c, token'.user, "fb", FALSE)
       /\ UNCHANGED <<accounts, databaseVars, google, historyVars>>

FbLoginEnds(l, load, c) ==
    /\ login[l].recovers = NoFetch
    /\ \/ \E error \in BOOLEAN :      \* failed, or cancelled
            /\ FB!SheetClosed(l, load)
            /\ FbButtonHandler(l, load, error, c)
       \/ /\ FB!NotValidated(l, load)
          /\ FbButtonHandler(l, load, TRUE, c)
       \/ /\ \/ \E p \in Person : FB!SheetGranted(l, p, load)
             \/ FB!Validated(l, load)
          /\ login'[l] = FB!NoLogin
          /\ FbButtonHandler(l, load, FALSE, c)

(* Steps of the Facebook SDK that call no handler, or one of the app's     *)
(* that returns at once: a profile request that fails.                     *)
FbSilentStep ==
    /\ \/ \E l \in Login, p \in Person :
            /\ FB!SheetGranted(l, p, NoFetch)
            /\ login'[l] # FB!NoLogin
       \/ \E l \in Login :
            /\ login[l].recovers # NoFetch
            /\ \/ FB!SheetClosed(l, NoFetch)
               \/ \E p \in Person : FB!SheetGranted(l, p, NoFetch)
               \/ FB!Validated(l, NoFetch)
               \/ FB!NotValidated(l, NoFetch)
       \/ \E f \in Fetch :
            \/ FB!FetchFailed(f)
            \/ FB!FetchTransient(f)
            \/ FB!FetchInvalid(f)
            \/ FB!RecoveryDeclined(f)
            \/ \E l \in Login : FB!RecoveryAccepted(f, l)
    /\ late' = late \ ({f \in Fetch : fetch'[f] = FB!NoRequest}
                       \cup {l \in Login : login'[l] = FB!NoLogin})
    /\ UNCHANGED <<authVars, accounts, databaseVars, google, screen, job,
                   historyVars>>

(* transferFBData: a user who withholds the e-mail leaves the old one.     *)
FbProfile(old, p, withheld) ==
    [Blank EXCEPT !.system = "Facebook", !.names = p,
                  !.email = IF withheld THEN old.email ELSE p]

TransferFBData(f) ==
    /\ FB!FetchOk(f)
    /\ \E withheld \in BOOLEAN :
         ScreenOf(f, [screen EXCEPT
                        !.fb = FbProfile(@, fetch[f].token.user, withheld)])
    /\ UNCHANGED <<authVars, accounts, databaseVars, google, job, historyVars>>

-----------------------------------------------------------------------------
(* The process dies.  The server may have got what was on its way.         *)
Crash ==
    /\ FB!Crash
    /\ Auth!Stop
    /\ \E S \in SUBSET {asked[c] : c \in {d \in Call : Creates(d)}} :
         accounts' = accounts \cup S
    /\ \E S \in SUBSET writes :
         records' = records \cup S /\ lost' = lost \cup (writes \ S)
    /\ writes' = {}
    /\ google' = [google EXCEPT !.stage = "idle"]
    /\ screen' = NoScreen
    /\ job' = [c \in Call |-> NoJob]
    /\ late' = {}
    /\ UNCHANGED <<signedOut, announced>>

(* Both SDKs restore their sessions.                                       *)
Launch(readable) ==
    /\ FB!Launch(readable)
    /\ Auth!Start(readable)
    /\ UNCHANGED <<accounts, databaseVars, google, screen, job, late,
                   historyVars>>

(* viewDidLoad of the first screen: a Facebook token is used to load the   *)
(* profile, though nothing was tapped.                                     *)
FirstScreen ==
    /\ running /\ screen = NoScreen
    /\ screen' = Fresh
    /\ IF token = NoToken
       THEN UNCHANGED facebookVars
       ELSE \E f \in Fetch : FB!StartFetch(f)
    /\ UNCHANGED <<authVars, accounts, databaseVars, google, job, late,
                   historyVars>>

-----------------------------------------------------------------------------
Form == {"incomplete", "short", "full"}

User ==
    \/ \E c \in Call, a \in Person, form \in Form : TapFirebase(c, a, form)
    \/ SwitchButton
    \/ DismissAlert
    \/ TapGoogle
    \/ \E l \in Login : FbButton(l)
    \/ \E removed \in BOOLEAN : TapSignOut(removed)

Handler(c) ==
    \/ CreateAnswered(c)
    \/ SignInAnswered(c)
    \/ ReadAnswered(c)
    \/ GoogleCallAnswered(c)
    \/ FbCallAnswered(c)

Facebook ==
    \/ \E l \in Login, load \in FB!Startable, c \in Call : FbLoginEnds(l, load, c)
    \/ FbSilentStep
    \/ \E f \in Fetch : TransferFBData(f)

Google ==
    \/ GoogleSheetClosed
    \/ GoogleFailed
    \/ \E p \in Person, c \in Call : GoogleSigned(p, c)

Server ==
    \/ \E c \in Call : Granted(c) \/ Refused(c) \/ ReadDenied(c)
    \/ Expired
    \/ \E a \in Person : WriteAcknowledged(a) \/ WriteRejected(a)

Process ==
    \/ Crash
    \/ \E readable \in BOOLEAN : Launch(readable)
    \/ FirstScreen

Next == User \/ (\E c \in Call : Handler(c)) \/ Facebook \/ Google \/ Server
        \/ Process

Spec == Init /\ [][Next]_vars

-----------------------------------------------------------------------------
Shown == screen.over = "profile"

EverywhereOut ==
    /\ visible = Nobody /\ durable = Nobody
    /\ token = NoToken /\ cached = NoToken
    /\ google.user = Nobody

(* A sign-out that worked, tapped while no login was under way, signs out  *)
(* of all three systems until the next login is tapped: reads, profile     *)
(* requests and writes still under way, crashes and launches bring nobody  *)
(* back.                                                                   *)
SignedOutEverywhere == signedOut = "clean" => EverywhereOut

(* After such a sign-out the new login screen stays a login screen: what   *)
(* arrives late goes to the covered screen that asked for it.              *)
CleanStart ==
    signedOut = "clean" /\ screen # NoScreen =>
        /\ ~Shown
        /\ screen.fire = Blank /\ screen.fb = Blank

(* A Firebase profile has the e-mail of one account and the names of       *)
(* another only if two Firebase calls were unanswered at the same time.    *)
MixedOnlyIfCallsCrossed ==
    LET p == screen.profileInfo
    IN Shown /\ p.system = "Firebase" /\ p.overlap # "call" => p.email = p.names

(* The Firebase profile in front of the user is that of the account which  *)
(* is signed in, unless that account has expired, or the sign-in was       *)
(* crossed by another.                                                     *)
LoneProfileIsSession ==
    LET p == screen.profileInfo
    IN Shown /\ p.system = "Firebase" /\ p.overlap = "none"
         => visible \in {Nobody, p.names}

(* Every account whose creation was announced has a record, under its own  *)
(* uid, or will have it, unless the server rejected the record or the      *)
(* process died before it was acknowledged.                                *)
AnnouncedHasRecordUnlessLost == announced \subseteq records \cup writes \cup lost

(* Without Facebook, no profile is ever shown before its data is there.    *)
NeverBlank == Shown => screen.profileInfo.system # "none"

-----------------------------------------------------------------------------
(* What the program says of itself, and does not do.                       *)

(* "Will sign out from all authorizations" (ProfileViewController:50): yet *)
(* a login still under way signs in again after it.                        *)
SignOutMeansOut == signedOut # "no" => EverywhereOut

(* "Connection Failed. Re-connect, please." (ProfileViewController:43) is  *)
(* said of a request that has not failed but is still under way.           *)
ConnectionFailedMeansFailed ==
    Shown /\ screen.profileInfo.system = "none"
        => \A f \in Fetch \ late : fetch[f].stage # "sent"

(* "Your account succesfully created!" (Extension:33): yet the record that *)
(* signing in needs may never come to be.                                  *)
AnnouncedHasRecord == announced \subseteq records \cup writes
=============================================================================

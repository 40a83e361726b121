---------------------------- MODULE AuthSession ----------------------------
(***************************************************************************)
(* What FirebaseAuth promises to the program that uses it: a register that *)
(* holds the account signed in on this device, and calls that replace its  *)
(* content at one instant between their invocation and their answer.       *)
(*                                                                         *)
(*   durable    the account that the device keeps across restarts          *)
(*   visible    the account the program is told is signed in               *)
(*   asked      the account that each call asks to sign in                 *)
(*   answer     what is known of each call                                 *)
(*   decided    the calls that took effect or failed, in that order: the   *)
(*              order in which the program is told                         *)
(*                                                                         *)
(* Network requests, queues, the keychain, user objects and token          *)
(* refreshes do not appear here; FIRAuth implements this specification.    *)
(***************************************************************************)
EXTENDS Sequences

CONSTANTS Account,    \* Firebase accounts (uids)
          NoUser,     \* nobody is signed in
          Call        \* sign-in calls the program can have outstanding

VARIABLES durable, visible, asked, answer, decided

vars == <<durable, visible, asked, answer, decided>>

Nothing == [c \in Call |-> NoUser]
Unasked == [c \in Call |-> "none"]

Init ==
    /\ durable \in Account \cup {NoUser}
    /\ visible = NoUser
    /\ asked = Nothing
    /\ answer = Unasked
    /\ decided = << >>

(* The program asks for account a to be signed in.                         *)
Ask(c, a) ==
    /\ answer[c] = "none"
    /\ answer' = [answer EXCEPT ![c] = "asked"]
    /\ asked' = [asked EXCEPT ![c] = a]
    /\ UNCHANGED <<durable, visible, decided>>

(* The call takes effect: for the program and for the device at once.      *)
Grant(c) ==
    /\ answer[c] = "asked"
    /\ answer' = [answer EXCEPT ![c] = "granted"]
    /\ decided' = Append(decided, c)
    /\ durable' = asked[c]
    /\ visible' = asked[c]
    /\ UNCHANGED asked

(* The call fails, and a failed call changes nobody's session.             *)
Refuse(c) ==
    /\ answer[c] = "asked"
    /\ answer' = [answer EXCEPT ![c] = "refused"]
    /\ decided' = Append(decided, c)
    /\ UNCHANGED <<durable, visible, asked>>

(* The program is told the outcome of the oldest decision.                 *)
Tell(c) ==
    /\ decided # << >>
    /\ c = Head(decided)
    /\ decided' = Tail(decided)
    /\ answer' = [answer EXCEPT ![c] = "none"]
    /\ asked' = [asked EXCEPT ![c] = NoUser]
    /\ UNCHANGED <<durable, visible>>

(* The program signs the account out.  That fails as a whole if the device *)
(* cannot forget it, and means nothing if nobody is visible; calls that    *)
(* are not decided yet are not affected.                                   *)
SignOut(forgotten) ==
    /\ IF visible # NoUser /\ forgotten
       THEN visible' = NoUser /\ durable' = NoUser
       ELSE UNCHANGED <<visible, durable>>
    /\ UNCHANGED <<asked, answer, decided>>

(* The server no longer knows the account: it leaves, even if the device   *)
(* cannot forget it.                                                       *)
Expire ==
    /\ visible # NoUser
    /\ visible' = NoUser
    /\ durable' \in {durable, NoUser}
    /\ UNCHANGED <<asked, answer, decided>>

(* The program dies: calls are forgotten, and nothing is visible.          *)
Stop ==
    /\ visible' = NoUser
    /\ asked' = Nothing
    /\ answer' = Unasked
    /\ decided' = << >>
    /\ UNCHANGED durable

(* The program starts: it sees the durable account, or nobody.             *)
Start(readable) ==
    /\ visible = NoUser
    /\ visible' = IF readable THEN durable ELSE NoUser
    /\ UNCHANGED <<durable, asked, answer, decided>>

Next ==
    \/ \E c \in Call, a \in Account : Ask(c, a)
    \/ \E c \in Call : Grant(c) \/ Refuse(c) \/ Tell(c)
    \/ \E forgotten \in BOOLEAN : SignOut(forgotten)
    \/ Expire
    \/ Stop
    \/ \E readable \in BOOLEAN : Start(readable)

Spec == Init /\ [][Next]_vars
=============================================================================

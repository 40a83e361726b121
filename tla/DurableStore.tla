---------------------------- MODULE DurableStore ----------------------------
(***************************************************************************)
(* What a leveldb database promises of its writes (include/leveldb/db.h,   *)
(* include/leveldb/options.h), without logs, tables or manifests: a write  *)
(* that was answered is read until the process ends, a restart finds every *)
(* write that reached the operating system, and a crash of the machine     *)
(* leaves at least the writes that were made durable.                      *)
(***************************************************************************)
EXTENDS Naturals

CONSTANT MaxWrites     \* the writes are 1..MaxWrites, in the order they begin

VARIABLES
  up,     \* a process has the database open
  begun,  \* how many writes were begun
  kept,   \* the writes that are read, or that the next process will read
  must,   \* of these, the ones a restart keeps
  safe    \* of these, the ones a crash of the machine keeps

store == <<up, begun, kept, must, safe>>

Init == up = FALSE /\ begun = 0 /\ kept = {} /\ must = {} /\ safe = {}

\* The promises only grow, and are made for what is there.
Promise(there) ==
  /\ must \subseteq must' /\ must' \subseteq there
  /\ safe \subseteq safe' /\ safe' \subseteq must'

Begin == /\ up /\ begun < MaxWrites
         /\ begun' = begun + 1
         /\ UNCHANGED <<up, kept, must, safe>>

\* The last write is answered and read from now on.
Finish == /\ up /\ begun \notin kept
          /\ kept' = kept \cup {begun}
          /\ Promise(kept')
          /\ UNCHANGED <<up, begun>>

\* Flushes and compactions change no content, and make writes durable.
Persist == Promise(kept) /\ UNCHANGED <<up, begun, kept>>

\* What the files held when the last process ended is what the next one has.
Open == /\ ~up /\ up'
        /\ Promise(kept)
        /\ UNCHANGED <<begun, kept>>

\* The process ends: a write without an answer may turn out either way.
Restart == /\ up /\ up' = FALSE
           /\ must \subseteq kept' /\ kept' \subseteq 1..begun
           /\ UNCHANGED <<begun, must, safe>>

\* The machine goes down.
PowerCut == /\ up' = FALSE
            /\ safe \subseteq kept' /\ kept' \subseteq 1..begun
            /\ must' = safe
            /\ UNCHANGED <<begun, safe>>

Next == Begin \/ Finish \/ Persist \/ Open \/ Restart \/ PowerCut

Spec == Init /\ [][Next]_store

=============================================================================

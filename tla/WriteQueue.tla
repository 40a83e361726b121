----------------------------- MODULE WriteQueue -----------------------------
(***************************************************************************)
(* The queue of writers in leveldb (DBImpl::Write, BuildBatchGroup and     *)
(* MakeRoomForWrite of db/db_impl.cc): the writer at the front commits a   *)
(* group for those behind it, without the mutex while it logs and applies  *)
(* it.  A step is what a thread does between getting the mutex and giving  *)
(* it up, or one call made without it.  The background thread is DBImpl's, *)
(* reduced to its effect on the writers.                                   *)
(***************************************************************************)
EXTENDS Integers, Sequences, FiniteSets, SequencesExt

CONSTANTS
  Thread,                        \* threads that write
  BatchSize,                     \* sizes of a batch
  SmallSize, GroupSize,          \* 128 << 10 and 1 << 20 of BuildBatchGroup
  CompactAt, SlowAt, StopAt,     \* the level-0 triggers of config
  MaxCalls                       \* bound: calls of Write

ASSUME QueueAssumption ==
  /\ BatchSize \subseteq Nat \ {0} /\ SmallSize \in Nat /\ GroupSize \in Nat
  /\ {CompactAt, SlowAt, StopAt} \subseteq Nat \ {0} /\ CompactAt <= SlowAt /\ SlowAt <= StopAt
  /\ MaxCalls \in Nat

VARIABLES
  queue,     \* writers_
  writer,    \* the threads: [pc, id, null, sync, size, delay, force, status, done, group]
  signalled, \* sleeping threads whose condition was signalled
  walog,     \* the log: [id, seq, synced, current]
  applied,   \* ids of the writes in a memtable
  lastSeq,   \* versions_->LastSequence()
  room,      \* [full, imm, level0, scheduled, error]: mem_, imm_, level 0, bg_error_
  calls,     \* how many calls of Write there were
  answers    \* history: the answers [id, null, sync, ok]

queueVars == <<queue, writer, signalled, walog, applied, lastSeq, room, calls, answers>>

Idle == [pc |-> "out", id |-> 0, null |-> FALSE, sync |-> FALSE, size |-> 0, delay |-> FALSE,
         force |-> FALSE, status |-> "ok", done |-> FALSE, group |-> <<>>]

QueueInit ==
  /\ queue = <<>> /\ signalled = {} /\ walog = <<>> /\ applied = {} /\ lastSeq = 0
  /\ calls = 0 /\ answers = {}
  /\ writer = [t \in Thread |-> Idle]
  /\ room = [full |-> FALSE, imm |-> FALSE, level0 |-> 0, scheduled |-> FALSE, error |-> FALSE]

---------------------------------------------------------------------------
(* BuildBatchGroup                                                         *)

\* Places in their order.
InOrder(is) ==
  CHOOSE s \in [1..Cardinality(is) -> is] : \A i, j \in DOMAIN s : i < j => s[i] < s[j]

\* The writers of a group that have a batch.
Writes(g) ==
  LET order == InOrder({i \in DOMAIN g : ~writer[g[i]].null})
  IN  [j \in DOMAIN order |-> g[order[j]]]

SizeOf(w, g) == FoldLeft(LAMBDA sum, t : sum + w[t].size, 0, g)

MaxGroup(first) == IF first.size <= SmallSize THEN first.size + SmallSize ELSE GroupSize

(* Variant, never a step: a synced write joins a group that is not synced. *)
MayJoinAny(w, q, i) == SizeOf(w, SubSeq(q, 1, i)) <= MaxGroup(w[q[1]])

\* Whether the i-th writer, the earlier ones having joined, joins the group of
\* the first.
MayJoin(w, q, i) ==
  /\ w[q[i]].sync => w[q[1]].sync
  /\ w[q[i]].null \/ SizeOf(w, SubSeq(q, 1, i)) <= MaxGroup(w[q[1]])

Group(w, q) ==
  SubSeq(q, 1, Max({n \in DOMAIN q : \A i \in 2..n : MayJoin(w, q, i)}))

---------------------------------------------------------------------------
(* The front writer                                                        *)

\* MaybeScheduleCompaction
Scheduled(r) ==
  [r EXCEPT !.scheduled = r.scheduled \/ (~r.error /\ (r.imm \/ r.level0 >= CompactAt))]

(* Variant, never a step: the new front writer is not signalled. *)
WokenFollowers(g, rest) == ToSet(g)

\* Who is signalled when a group leaves the queue.
Woken(g, rest) == ToSet(g) \cup (IF rest = <<>> THEN {} ELSE {rest[1]})

\* Group g, the front of q, is answered; t, its first, returns.
Answered(w, q, g, ok) ==
  LET rest == SubSeq(q, Len(g) + 1, Len(q))
      t == g[1]
  IN  /\ queue' = rest
      /\ signalled' = (signalled \cup Woken(g, rest)) \ {t}
      /\ writer' = [v \in Thread |->
           IF v = t THEN Idle
           ELSE IF v \in ToSet(g)
           THEN [w[v] EXCEPT !.done = TRUE, !.status = IF ok THEN "ok" ELSE "failed"]
           ELSE w[v]]
      /\ answers' = answers \cup
           {[id |-> w[t].id, null |-> w[t].null, sync |-> w[t].sync, ok |-> ok]}

Waits(w, q, t, pc) ==
  /\ queue' = q /\ writer' = [w EXCEPT ![t].pc = pc]
  /\ signalled' = signalled \ {t} /\ UNCHANGED <<room, answers, walog>>

\* The memtable has room: the group is logged, or there is nothing to log.
Leads(w, q, t) ==
  IF w[t].null THEN Answered(w, q, <<t>>, TRUE)
  ELSE /\ queue' = q /\ signalled' = signalled \ {t} /\ UNCHANGED answers
       /\ writer' = [w EXCEPT ![t].pc = "log", ![t].group = Group(w, q)]

\* A switch of the memtable also starts a new log file.
OldLog == [i \in DOMAIN walog |-> [walog[i] EXCEPT !.current = FALSE]]

\* MakeRoomForWrite by t, at the front of q, until it gives up the mutex.
Proceeds(w, q, t) ==
  /\ IF room.error THEN Answered(w, q, <<t>>, FALSE) /\ UNCHANGED <<room, walog>>
     ELSE IF w[t].delay /\ room.level0 >= SlowAt
     THEN Waits([w EXCEPT ![t].delay = FALSE], q, t, "delay")
     ELSE IF ~w[t].force /\ ~room.full THEN Leads(w, q, t) /\ UNCHANGED <<room, walog>>
     ELSE IF room.imm \/ room.level0 >= StopAt THEN Waits(w, q, t, "bgwait")
     ELSE \/ Answered(w, q, <<t>>, FALSE) /\ UNCHANGED <<room, walog>>     \* no new log file
          \/ /\ room' = Scheduled([room EXCEPT !.full = FALSE, !.imm = TRUE])
             /\ walog' = OldLog
             /\ Leads(w, q, t)
  /\ UNCHANGED <<applied, lastSeq>>

\* Write: a NULL batch forces the switch of the memtable.
WriteCall(t, null, sync, size) ==
  /\ writer[t].pc = "out" /\ calls < MaxCalls
  /\ calls' = calls + 1
  /\ LET w == [writer EXCEPT ![t] = [Idle EXCEPT !.pc = "asleep", !.id = calls + 1,
                                       !.null = null, !.sync = sync, !.size = size,
                                       !.delay = ~null, !.force = null]]
         q == Append(queue, t)
     IN  IF queue = <<>> THEN Proceeds(w, q, t)
         ELSE Waits(w, q, t, "asleep") /\ UNCHANGED <<applied, lastSeq>>

\* A sleeper wakes, signalled or not, and looks at its condition again.
Wakes(t) ==
  /\ writer[t].pc \in {"asleep", "delay", "bgwait"}
  /\ IF writer[t].done
     THEN /\ writer' = [writer EXCEPT ![t] = Idle] /\ signalled' = signalled \ {t}
          /\ answers' = answers \cup {[id |-> writer[t].id, null |-> writer[t].null,
                                       sync |-> writer[t].sync, ok |-> writer[t].status = "ok"]}
          /\ UNCHANGED <<queue, room, walog, applied, lastSeq>>
     ELSE IF queue[1] = t THEN Proceeds(writer, queue, t)
     ELSE Waits(writer, queue, t, "asleep") /\ UNCHANGED <<applied, lastSeq>>
  /\ UNCHANGED calls

Turns(t, pc, status) == writer' = [writer EXCEPT ![t].pc = pc, ![t].status = status]

\* AddRecord of the group, as one record.
LogGroup(t) ==
  /\ writer[t].pc = "log"
  /\ LET g == Writes(writer[t].group) IN
       \/ /\ walog' = walog \o [i \in DOMAIN g |->
               [id |-> writer[g[i]].id, seq |-> lastSeq + i, synced |-> FALSE, current |-> TRUE]]
          /\ Turns(t, IF writer[t].sync THEN "sync" ELSE "apply", "ok")
       \/ Turns(t, "finish", "failed") /\ UNCHANGED walog
  /\ UNCHANGED <<queue, signalled, applied, lastSeq, room, calls, answers>>

\* Sync of the current log file; an error is final.
SyncLog(t) ==
  /\ writer[t].pc = "sync"
  /\ \/ /\ walog' = [i \in DOMAIN walog |-> [walog[i] EXCEPT !.synced = @ \/ walog[i].current]]
        /\ Turns(t, "apply", "ok")
     \/ Turns(t, "finish", "unsynced") /\ UNCHANGED walog
  /\ UNCHANGED <<queue, signalled, applied, lastSeq, room, calls, answers>>

\* InsertInto, one batch at a time.
ApplyBatch(t) ==
  /\ writer[t].pc = "apply"
  /\ LET g == Writes(writer[t].group)
         left == {i \in DOMAIN g : writer[g[i]].id \notin applied} IN
       IF left = {} THEN Turns(t, "finish", "ok") /\ UNCHANGED applied
       ELSE applied' = applied \cup {writer[g[Min(left)]].id} /\ UNCHANGED writer
  /\ UNCHANGED <<queue, signalled, walog, lastSeq, room, calls, answers>>

\* The mutex is held again; the memtable may have become full.
FinishGroup(t) ==
  /\ writer[t].pc = "finish"
  /\ \E full \in {room.full, TRUE} :
       room' = [room EXCEPT !.full = full, !.error = @ \/ writer[t].status = "unsynced"]
  /\ lastSeq' = lastSeq + Len(Writes(writer[t].group))
  /\ Answered(writer, queue, writer[t].group, writer[t].status = "ok")
  /\ UNCHANGED <<walog, applied, calls>>

\* BackgroundCall: a flush, a compaction of level 0 or an error; then SignalAll.
Background ==
  /\ room.scheduled
  /\ LET worked == IF room.imm THEN {[room EXCEPT !.imm = FALSE, !.level0 = @ + n] : n \in {0, 1}}
                   ELSE {[room EXCEPT !.level0 = 0]}
     IN  \E r \in worked \cup {[room EXCEPT !.error = TRUE]} :
           room' = Scheduled([r EXCEPT !.scheduled = FALSE])
  /\ signalled' = signalled \cup {t \in Thread : writer[t].pc = "bgwait"}
  /\ UNCHANGED <<queue, writer, walog, applied, lastSeq, calls, answers>>

QueueNext ==
  \/ \E t \in Thread, sync \in BOOLEAN, size \in BatchSize : WriteCall(t, FALSE, sync, size)
  \/ \E t \in Thread : WriteCall(t, TRUE, FALSE, 0)
  \/ \E t \in Thread : Wakes(t) \/ LogGroup(t) \/ SyncLog(t) \/ ApplyBatch(t) \/ FinishGroup(t)
  \/ Background

QueueSpec == QueueInit /\ [][QueueNext]_queueVars

---------------------------------------------------------------------------
(* Properties                                                              *)

\* A write that was answered with OK is in the log once and in the memtable and
\* visible, and synced if it asked for that, whoever committed it; the log has
\* the writes in the order of their calls, and readers, who see whatever has a
\* number up to LastSequence, see no part of a group that is still being
\* applied.
WritesKept ==
  /\ \A a \in answers : a.ok /\ ~a.null =>
       \E i \in DOMAIN walog : /\ walog[i].id = a.id /\ a.id \in applied
                               /\ walog[i].seq <= lastSeq
                               /\ a.sync => walog[i].synced
  /\ \A i, j \in DOMAIN walog : i < j =>
       walog[i].id < walog[j].id /\ walog[i].seq < walog[j].seq
  /\ \A i \in DOMAIN walog : walog[i].seq <= lastSeq =>
       walog[i].id \in applied \/ ~\E a \in answers : a.id = walog[i].id /\ a.ok
  /\ \A t \in Thread : writer[t].pc \in {"log", "sync", "apply"} =>
       \A i \in DOMAIN walog : walog[i].id = writer[t].id => walog[i].seq > lastSeq

\* No writer is forgotten: whoever is answered or has come to the front is
\* working, awake or signalled, and a writer that waits for the background
\* thread has it on its way or was signalled.
NobodyForgotten ==
  /\ \A t \in Thread :
       writer[t].pc = "asleep" /\ (writer[t].done \/ queue[1] = t) => t \in signalled
  /\ \A t \in Thread : writer[t].pc = "bgwait" => t \in signalled \/ room.scheduled

=============================================================================

---------------------------- MODULE LevelDBProofs ----------------------------
(***************************************************************************)
(* Proofs about what the threads of leveldb share in memory.               *)
(*                                                                         *)
(* The queue of writers (WriteQueue): for any threads, any sizes of        *)
(* batches, any triggers and any number of calls, what was answered with   *)
(* OK is kept and nobody who waits is forgotten.                           *)
(*                                                                         *)
(* The skip list of the memtable (SkipList), in the second part: searches  *)
(* are exact for any finite set of keys, any height and any readers.       *)
(*                                                                         *)
(* The cache of open tables (TableCache), in the third: none is freed in   *)
(* use and none forgotten, for any finite set of readers, any files, any   *)
(* charges and any capacity.                                               *)
(*                                                                         *)
(* The invariant QueueInv says how the queue, the threads, the log and the *)
(* answers fit together at every point between two holds of the mutex.  A  *)
(* step of MakeRoomForWrite is proved once, for a front writer that is     *)
(* Ready, and used for a call that finds the queue empty and for a sleeper *)
(* that has come to the front.                                             *)
(***************************************************************************)
EXTENDS WriteQueue, SkipList, TableCache, TLAPS, FiniteSetTheorems, NaturalsInduction,
        WellFoundedInduction, SequenceTheorems

USE QueueAssumption

-----------------------------------------------------------------------------
(* Finite sets of numbers.                                                 *)

\* A finite set of numbers has a greatest.
LEMMA FiniteHasGreatest ==
    ASSUME NEW S \in SUBSET Int, IsFiniteSet(S), S # {}
    PROVE  \E x \in S : \A y \in S : y <= x
<1> DEFINE Above(x) == {y \in S : x < y}
           Aboves == {Above(x) : x \in S}
<1>1. Aboves \subseteq FiniteSubsetsOf(S) /\ Aboves # {}
  <2>1. FiniteSubsetsOf(S) = SUBSET S
    BY FS_FiniteSubsetsOfFinite
  <2>2. Aboves \subseteq SUBSET S
    OBVIOUS
  <2>3. PICK x \in S : TRUE
    OBVIOUS
  <2>4. Above(x) \in Aboves
    OBVIOUS
  <2> QED
    BY <2>1, <2>2, <2>4
<1>2. PICK U \in Aboves : \A V \in Aboves : <<V, U>> \notin StrictSubsetOrdering(S)
  <2> HIDE DEF Aboves
  <2> QED
    BY <1>1, FS_StrictSubsetOrderingWellFounded, WFMin
<1>3. PICK x \in S : U = Above(x)
  BY <1>2
<1>4. ASSUME NEW y \in S, x < y PROVE FALSE
  <2>1. Above(y) \subseteq Above(x) /\ y \in Above(x) /\ y \notin Above(y)
    <3>1. ASSUME NEW z \in S, y < z PROVE x < z
      <4>1. x \in Int /\ y \in Int /\ z \in Int
        OBVIOUS
      <4> QED
        BY <1>4, <3>1, <4>1
    <3>2. ~(y < y)
      <4>1. y \in Int
        OBVIOUS
      <4> QED
        BY <4>1
    <3> QED
      BY <1>4, <3>1, <3>2
  <2>2. <<Above(y), Above(x)>> \in StrictSubsetOrdering(S)
    BY <2>1 DEF StrictSubsetOrdering
  <2> QED
    BY <1>2, <1>3, <2>2
<1> QED
  BY <1>4

Increasing(s) == \A i, j \in DOMAIN s : i < j => s[i] < s[j]

\* The elements of a finite set of numbers can be put in order.
LEMMA OrderExists ==
  ASSUME NEW S \in SUBSET Nat, IsFiniteSet(S)
  PROVE  \E s \in [1..Cardinality(S) -> S] : Increasing(s)
<1> DEFINE Bad == {T \in SUBSET S : ~\E s \in [1..Cardinality(T) -> T] : Increasing(s)}
<1>1. SUFFICES ASSUME Bad # {} PROVE FALSE
  OBVIOUS
<1>2. Bad \subseteq FiniteSubsetsOf(S)
  BY FS_FiniteSubsetsOfFinite
<1>3. PICK T \in Bad : \A U \in Bad : <<U, T>> \notin StrictSubsetOrdering(S)
  <2> HIDE DEF Bad
  <2> QED
    BY <1>1, <1>2, FS_StrictSubsetOrderingWellFounded, WFMin
<1>4. T \in SUBSET Nat /\ T \in SUBSET S /\ IsFiniteSet(T) /\ Cardinality(T) \in Nat
  BY FS_Subset, FS_CardinalityType
<1>5. T # {}
  <2>1. ASSUME T = {} PROVE FALSE
    <3>1. Cardinality(T) = 0 /\ 1..0 = {}
      BY <2>1, FS_EmptySet
    <3>2. [i \in 1..0 |-> 0] \in [1..Cardinality(T) -> T] /\ Increasing([i \in 1..0 |-> 0])
      BY <3>1 DEF Increasing
    <3> QED
      BY <1>3, <3>2
  <2> QED
    BY <2>1
<1>6. PICK b \in T : \A y \in T : b >= y
  BY <1>4, <1>5, FiniteHasGreatest
<1> DEFINE U == T \ {b}
           n == Cardinality(U)
<1>7. n \in Nat /\ Cardinality(T) = n + 1
  <2>1. IsFiniteSet(U) /\ n = Cardinality(T) - 1
    BY <1>4, <1>6, FS_RemoveElement
  <2>2. n \in Nat
    BY <2>1, FS_CardinalityType
  <2> HIDE DEF n
  <2> QED
    BY <1>4, <2>1, <2>2
<1>8. U \in SUBSET S /\ <<U, T>> \in StrictSubsetOrdering(S)
  BY <1>4, <1>6 DEF StrictSubsetOrdering
<1>9. PICK s \in [1..n -> U] : Increasing(s)
  <2>1. U \notin Bad
    BY <1>3, <1>8
  <2> QED
    BY <1>8, <2>1
<1> DEFINE r == [i \in 1..Cardinality(T) |-> IF i <= n THEN s[i] ELSE b]
<1>10. r \in [1..Cardinality(T) -> T]
  <2> HIDE DEF n, U
  <2>1. \A i \in 1..n + 1 : i <= n => s[i] \in U
    BY <1>7, <1>9
  <2>2. \A x \in U : x \in T
    BY DEF U
  <2> QED
    BY <1>6, <1>7, <2>1, <2>2
<1>11. Increasing(r)
  <2> SUFFICES ASSUME NEW i \in 1..n + 1, NEW j \in 1..n + 1, i < j PROVE r[i] < r[j]
    BY <1>7 DEF Increasing
  <2> HIDE DEF n, U
  <2>1. i \in 1..n /\ r[i] = s[i] /\ s[i] \in U
    BY <1>7, <1>9
  <2>2. CASE j <= n
    BY <1>7, <1>9, <2>1, <2>2 DEF Increasing
  <2>3. CASE ~(j <= n)
    <3>1. r[j] = b
      BY <1>7, <2>3
    <3>2. s[i] # b /\ b >= s[i] /\ b \in Nat /\ s[i] \in Nat
      BY <1>4, <1>6, <2>1 DEF U
    <3> QED
      BY <2>1, <3>1, <3>2
  <2> QED
    BY <2>2, <2>3
<1> QED
  BY <1>3, <1>10, <1>11

\* What InOrder gives: all of them, in order.
LEMMA InOrderFacts ==
  ASSUME NEW S \in SUBSET Nat, IsFiniteSet(S)
  PROVE  /\ InOrder(S) \in [1..Cardinality(S) -> S] /\ Cardinality(S) \in Nat
         /\ Increasing(InOrder(S))
         /\ \A x \in S : \E i \in 1..Cardinality(S) : InOrder(S)[i] = x
<1> DEFINE n == Cardinality(S)
<1>1. n \in Nat
  BY FS_CardinalityType
<1>2. InOrder(S) \in [1..n -> S] /\ Increasing(InOrder(S))
  BY OrderExists DEF InOrder, Increasing
<1>3. InOrder(S) \in Injection(1..n, S)
  <2>1. \A i, j \in 1..n : i # j => i < j \/ j < i
    BY <1>1
  <2>2. \A i \in 1..n : InOrder(S)[i] \in Nat
    BY <1>2
  <2>3. \A i, j \in 1..n : InOrder(S)[i] = InOrder(S)[j] => i = j
    BY <1>1, <1>2, <2>1, <2>2 DEF Increasing
  <2> QED
    BY <1>2, <2>3 DEF Injection, IsInjective
<1>4. InOrder(S) \in Surjection(1..n, S)
  <2>1. IsFiniteSet(1..n) /\ Cardinality(1..n) = n
    BY <1>1, FS_Interval
  <2> QED
    BY <1>3, <2>1, FS_Injection
<1> QED
  BY <1>1, <1>2, <1>4 DEF Surjection

-----------------------------------------------------------------------------
(* The queue of writers: what holds of it.                                 *)

Waiting == {"asleep", "delay", "bgwait"}
Leading == {"log", "sync", "apply", "finish"}
WriterState ==
  [pc : {"out"} \cup Waiting \cup Leading, id : Nat, null : BOOLEAN, sync : BOOLEAN, size : Nat,
   delay : BOOLEAN, force : BOOLEAN, status : {"ok", "failed", "unsynced"}, done : BOOLEAN,
   group : Seq(Thread)]
Writers == [Thread -> WriterState]
LogRecord == [id : Nat, seq : Nat, synced : BOOLEAN, current : BOOLEAN]
RoomState == [full : BOOLEAN, imm : BOOLEAN, level0 : Nat, scheduled : BOOLEAN, error : BOOLEAN]
AnswerState == [id : Nat, null : BOOLEAN, sync : BOOLEAN, ok : BOOLEAN]

QueueTypeOK ==
  /\ queue \in Seq(Thread) /\ writer \in Writers /\ signalled \subseteq Thread
  /\ walog \in Seq(LogRecord) /\ lastSeq \in Nat /\ calls \in Nat
  /\ room \in RoomState /\ answers \subseteq AnswerState

\* The queue holds the calls that are not answered, in the order of their
\* numbers; all but its front sleep.
InLine(w, q) ==
  /\ \A t \in Thread : (\E i \in DOMAIN q : q[i] = t) <=> w[t].pc # "out" /\ ~w[t].done
  /\ \A t \in Thread : w[t].done => w[t].pc = "asleep"
  /\ \A i, j \in DOMAIN q : i < j => w[q[i]].id < w[q[j]].id
  /\ \A i \in DOMAIN q : i > 1 => w[q[i]].pc = "asleep"

\* Each call has a number of its own.
Counted(w, c) ==
  /\ \A t \in Thread : w[t].pc # "out" => w[t].id <= c
  /\ \A t, u \in Thread : w[t].pc # "out" /\ w[u].pc # "out" /\ t # u => w[t].id # w[u].id
  /\ \A a \in answers : a.id <= c /\ \A t \in Thread : w[t].pc # "out" => w[t].id # a.id
  /\ \A i \in DOMAIN walog : walog[i].id <= c

\* No batch that is NULL is in the log.
NoneNull(w) ==
  \A i \in DOMAIN walog :
    /\ \A a \in answers : a.null => walog[i].id # a.id
    /\ \A t \in Thread : w[t].pc # "out" /\ w[t].null => walog[i].id # w[t].id

\* The writer that leads has a group, the front of the queue; none of it asks
\* for a sync if the leader does not.
Grouped ==
  \A t \in Thread : writer[t].pc \in Leading =>
    /\ ~writer[t].null /\ ~writer[t].done
    /\ Len(writer[t].group) \in 1..Len(queue)
    /\ \A i \in 1..Len(writer[t].group) :
         /\ writer[t].group[i] = queue[i]
         /\ writer[queue[i]].sync => writer[t].sync
    /\ writer[t].pc \in {"sync", "apply"} => writer[t].status = "ok"

\* The group of t has been logged.
HasLogged(t) ==
  \/ writer[t].pc \in {"sync", "apply"}
  \/ writer[t].pc = "finish" /\ writer[t].status # "failed"

\* What is in the log of the writer v, a member of t's group.
LoggedFor(t, v) ==
  \E k \in DOMAIN walog :
    /\ walog[k].id = writer[v].id /\ walog[k].seq > lastSeq
    /\ walog[k].seq <= lastSeq + Len(Writes(writer[t].group))
    /\ writer[t].pc = "sync" => walog[k].current
    /\ writer[t].pc # "sync" /\ writer[t].status = "ok" /\ writer[t].sync => walog[k].synced

GroupLogged ==
  \A t \in Thread : HasLogged(t) =>
    \A i \in 1..Len(writer[t].group) : ~writer[writer[t].group[i]].null =>
      /\ LoggedFor(t, writer[t].group[i])
      /\ writer[t].pc = "finish" /\ writer[t].status = "ok" =>
           writer[writer[t].group[i]].id \in applied

\* What is logged is older than what waits, and has a number that is used up
\* or will be by the group that is being written.
Behind ==
  \A i \in DOMAIN walog :
    /\ \A j \in DOMAIN queue :
         \/ walog[i].id < writer[queue[j]].id
         \/ HasLogged(queue[1]) /\ j <= Len(writer[queue[1]].group)
    /\ \/ walog[i].seq <= lastSeq
       \/ \E t \in Thread : HasLogged(t) /\ walog[i].seq <= lastSeq + Len(Writes(writer[t].group))

\* The log is in the order of the calls.
Ordered ==
  \A i, j \in DOMAIN walog : i < j => walog[i].id < walog[j].id /\ walog[i].seq < walog[j].seq

\* A write that may be answered with OK.
Kept(id, sync) ==
  \E i \in DOMAIN walog : /\ walog[i].id = id /\ id \in applied /\ walog[i].seq <= lastSeq
                          /\ sync => walog[i].synced

Promised(w) ==
  \A t \in Thread : w[t].done /\ w[t].status = "ok" /\ ~w[t].null => Kept(w[t].id, w[t].sync)
Acknowledged == \A a \in answers : a.ok /\ ~a.null => Kept(a.id, a.sync)

\* The background thread works whenever there is work, until an error.
Busy == room.imm \/ room.level0 >= CompactAt => room.scheduled \/ room.error

\* Who is answered is signalled.
DoneSignalled(w) == \A t \in Thread : w[t].done => t \in signalled

QueueInv ==
  /\ QueueTypeOK /\ InLine(writer, queue) /\ Counted(writer, calls) /\ NoneNull(writer)
  /\ Grouped /\ GroupLogged /\ Behind /\ Ordered /\ Promised(writer) /\ Acknowledged
  /\ Busy /\ NobodyForgotten

\* A front writer t that holds the mutex and leads no group.
Ready(w, q, t) ==
  /\ w \in Writers /\ q \in Seq(Thread) /\ q # << >> /\ t = q[1]
  /\ InLine(w, q) /\ Counted(w, calls') /\ NoneNull(w) /\ Promised(w) /\ DoneSignalled(w)
  /\ \A u \in Thread : w[u].pc \notin Leading /\ (u # t => w[u].pc \in {"out", "asleep"})
  /\ \A i \in DOMAIN walog : walog[i].seq <= lastSeq /\ \A j \in DOMAIN q : walog[i].id < w[q[j]].id

\* What the step of a front writer rests on besides.
Rest ==
  /\ signalled \subseteq Thread /\ walog \in Seq(LogRecord) /\ lastSeq \in Nat /\ calls' \in Nat
  /\ room \in RoomState /\ answers \subseteq AnswerState
  /\ Ordered /\ Acknowledged /\ Busy

-----------------------------------------------------------------------------
(* The steps of the front writer.                                          *)

\* Positions of the rest of a queue.
LEMMA RestOfQueue ==
  ASSUME NEW q \in Seq(Thread), NEW n \in 0..Len(q)
  PROVE  LET r == SubSeq(q, n + 1, Len(q))
         IN  /\ r \in Seq(Thread) /\ Len(r) = Len(q) - n
             /\ \A j \in 1..Len(r) : r[j] = q[j + n] /\ j + n \in 1..Len(q)
<1> DEFINE r == SubSeq(q, n + 1, Len(q))
<1>1. r \in Seq(Thread) /\ Len(r) = Len(q) - n
  OBVIOUS
<1>2. \A j \in 1..Len(r) : r[j] = q[j + n] /\ j + n \in 1..Len(q)
  BY <1>1
<1> QED
  BY <1>1, <1>2

\* A writer that another one has answered.
AsDone(x, ok) == [x EXCEPT !.done = TRUE, !.status = IF ok THEN "ok" ELSE "failed"]

\* What AsDone changes.
LEMMA AsDoneFacts ==
  ASSUME NEW x \in WriterState, NEW ok \in BOOLEAN
  PROVE  /\ AsDone(x, ok) \in WriterState /\ AsDone(x, ok).done
         /\ AsDone(x, ok).pc = x.pc /\ AsDone(x, ok).id = x.id
         /\ AsDone(x, ok).null = x.null /\ AsDone(x, ok).sync = x.sync
         /\ AsDone(x, ok).status = "ok" => ok
BY DEF AsDone, WriterState

\* A queue q of writers w, the front of which is the group g.
AtFront(w, q, g) ==
  /\ w \in Writers /\ q \in Seq(Thread) /\ g \in Seq(Thread)
  /\ Len(g) \in 1..Len(q) /\ \A i \in 1..Len(g) : g[i] = q[i]
  /\ signalled \subseteq Thread /\ answers \subseteq AnswerState
  /\ InLine(w, q) /\ Counted(w, calls') /\ DoneSignalled(w) /\ NoneNull(w)
  /\ \A u \in Thread : u # q[1] => w[u].pc \in {"out", "asleep"}

\* The queue after the answer.
Shorter(w, q, g, ok) ==
  /\ queue' \in Seq(Thread) /\ writer' \in Writers /\ signalled' \subseteq Thread
  /\ answers' \subseteq AnswerState
  /\ InLine(writer, queue)' /\ Counted(writer, calls)' /\ NoneNull(writer)'
  /\ \A t \in Thread : writer'[t].pc \in {"out", "asleep"}
  /\ \A t \in Thread : writer'[t].pc = "asleep" /\ (writer'[t].done \/ queue'[1] = t) =>
       t \in signalled'
  /\ \A j \in DOMAIN queue' :
       /\ j + Len(g) \in DOMAIN q /\ queue'[j] = q[j + Len(g)]
       /\ writer'[queue'[j]] = w[queue'[j]]
  /\ \A t \in Thread : writer'[t].done =>
       \/ writer'[t] = w[t] /\ w[t].done
       \/ \E i \in 1..Len(g) : t = g[i] /\ writer'[t] = AsDone(w[t], ok)
  /\ answers' = answers \cup
       {[id |-> w[q[1]].id, null |-> w[q[1]].null, sync |-> w[q[1]].sync, ok |-> ok]}

\* A group that is answered leaves the queue, and the others stay in line.
LEMMA AnsweredLine ==
  ASSUME NEW w, NEW q, NEW g, NEW ok \in BOOLEAN, AtFront(w, q, g), Answered(w, q, g, ok),
         walog' \in Seq(LogRecord), DOMAIN walog' = DOMAIN walog,
         \A i \in DOMAIN walog : walog'[i].id = walog[i].id
  PROVE  Shorter(w, q, g, ok)
<1>a. /\ w \in Writers /\ q \in Seq(Thread) /\ g \in Seq(Thread)
      /\ Len(g) \in 1..Len(q) /\ \A i \in 1..Len(g) : g[i] = q[i]
      /\ signalled \subseteq Thread /\ answers \subseteq AnswerState
      /\ InLine(w, q) /\ Counted(w, calls') /\ DoneSignalled(w) /\ NoneNull(w)
      /\ \A u \in Thread : u # q[1] => w[u].pc \in {"out", "asleep"}
  BY DEF AtFront
<1> USE <1>a
<1> DEFINE t == q[1]
           r == SubSeq(q, Len(g) + 1, Len(q))
<1>0. DOMAIN q = 1..Len(q) /\ DOMAIN g = 1..Len(g)
  OBVIOUS
<1>1. t = q[1] /\ t \in Thread /\ g[1] = t /\ Len(g) \in Nat /\ Len(q) \in Nat /\ 1 \in DOMAIN q /\ 1 \in 1..Len(g)
  OBVIOUS
<1>2. /\ queue' = r /\ r \in Seq(Thread) /\ Len(r) = Len(q) - Len(g) /\ DOMAIN r = 1..Len(r)
      /\ \A j \in 1..Len(r) : r[j] = q[j + Len(g)] /\ j + Len(g) \in 1..Len(q)
  <2>1. Len(g) \in 0..Len(q)
    BY <1>1
  <2>2. queue' = r
    BY DEF Answered
  <2>3. PICK n \in 0..Len(q) : n = Len(g)
    BY <2>1
  <2> QED
    BY <2>2, <2>3, RestOfQueue
<1>3. ToSet(g) = {q[i] : i \in 1..Len(g)} /\ \A u \in Thread : u \in ToSet(g) <=> \E i \in 1..Len(g) : u = q[i]
  <2>1. DOMAIN g = 1..Len(g)
    OBVIOUS
  <2> QED
    BY ZenonT(60), <2>1 DEF ToSet
<1>4. \A i, j \in DOMAIN q : i # j => q[i] # q[j]
  <2>1. \A i \in DOMAIN q : w[q[i]].id \in Nat
    BY <1>0 DEF Writers, WriterState
  <2>2. \A i, j \in DOMAIN q : i # j => i < j \/ j < i
    OBVIOUS
  <2> QED
    BY <2>1, <2>2 DEF InLine
<1>5. \A j \in 1..Len(r) : r[j] \in Thread /\ r[j] \notin ToSet(g) /\ r[j] # t
  BY <1>1, <1>2, <1>3, <1>4
<1>6. \A u \in Thread :
        /\ u = t => writer'[u] = Idle
        /\ u # t /\ u \in ToSet(g) => writer'[u] = AsDone(w[u], ok)
        /\ u # t /\ u \notin ToSet(g) => writer'[u] = w[u]
  BY <1>1 DEF Answered, AsDone
<1>61. signalled' = (signalled \cup Woken(g, r)) \ {t}
  BY <1>1 DEF Answered
<1>62. answers' = answers \cup {[id |-> w[t].id, null |-> w[t].null, sync |-> w[t].sync, ok |-> ok]}
  BY <1>1 DEF Answered
<1> HIDE DEF r, t
<1>63. \A j \in DOMAIN queue' : /\ j + Len(g) \in DOMAIN q /\ j + Len(g) > 1
                                 /\ queue'[j] = q[j + Len(g)]
                                 /\ writer'[queue'[j]] = w[queue'[j]]
  <2> SUFFICES ASSUME NEW j \in 1..Len(r)
               PROVE  /\ j + Len(g) \in DOMAIN q /\ j + Len(g) > 1
                      /\ r[j] = q[j + Len(g)] /\ writer'[r[j]] = w[r[j]]
    BY <1>2
  <2>1. j \in Nat /\ j >= 1 /\ Len(g) \in Nat /\ Len(g) >= 1
    BY <1>1
  <2>2. r[j] \in Thread /\ r[j] \notin ToSet(g) /\ r[j] # t
    BY <1>5
  <2> QED
    BY <1>0, <1>2, <1>6, <2>1, <2>2
<1>64. \A i, j \in DOMAIN queue' : i < j => i + Len(g) < j + Len(g)
  <2> SUFFICES ASSUME NEW i \in 1..Len(r), NEW j \in 1..Len(r), i < j PROVE i + Len(g) < j + Len(g)
    BY <1>2
  <2> QED
    BY <1>1
<1>7. Idle \in WriterState /\ Idle.pc = "out" /\ ~Idle.done
  BY DEF Idle, WriterState
<1>8. \A u \in Thread :
        /\ u # t /\ u \in ToSet(g) =>
             /\ writer'[u] \in WriterState
             /\ writer'[u].pc = w[u].pc /\ writer'[u].id = w[u].id /\ writer'[u].null = w[u].null
             /\ writer'[u].done
             /\ w[u].pc = "asleep" /\ ~w[u].done
  <2> SUFFICES ASSUME NEW u \in Thread, u # t, u \in ToSet(g)
               PROVE  /\ writer'[u] \in WriterState
                      /\ writer'[u].pc = w[u].pc /\ writer'[u].id = w[u].id
                      /\ writer'[u].null = w[u].null
                      /\ writer'[u].done /\ w[u].pc = "asleep" /\ ~w[u].done
    BY <1>1
  <2>1. PICK i \in 1..Len(g) : u = q[i]
    BY <1>0, <1>3
  <2>2. i > 1 /\ i \in DOMAIN q
    BY <1>0, <1>1, <2>1
  <2>3. w[u].pc = "asleep" /\ ~w[u].done
    BY <2>1, <2>2 DEF InLine
  <2>4. writer'[u] = AsDone(w[u], ok)
    BY <1>6
  <2> QED
    BY <2>3, <2>4, AsDoneFacts DEF Writers
<1>9. writer' \in Writers
  <2>1. \A u \in Thread : writer'[u] \in WriterState
    BY <1>0, <1>1, <1>6, <1>7, <1>8 DEF Writers
  <2> QED
    BY <2>1 DEF Answered, Writers
<1>10. signalled' \subseteq Thread /\ answers' \subseteq AnswerState
  <2>1. [id |-> w[t].id, null |-> w[t].null, sync |-> w[t].sync, ok |-> ok] \in AnswerState
    BY <1>1 DEF Writers, WriterState, AnswerState
  <2>2. Woken(g, r) \subseteq Thread
    BY <1>0, <1>1, <1>2, <1>3, <1>5 DEF Woken
  <2> QED
    BY <1>1, <1>61, <1>62, <2>1, <2>2
<1>11. \A u \in Thread : (\E j \in DOMAIN r : r[j] = u) <=> (\E i \in DOMAIN q : q[i] = u) /\ u \notin ToSet(g)
  <2> TAKE u \in Thread
  <2>1. ASSUME NEW i \in DOMAIN q, q[i] = u, u \notin ToSet(g) PROVE \E j \in DOMAIN r : r[j] = u
    <3>1. i > Len(g)
      BY <1>0, <1>1, <1>3, <2>1
    <3>2. i - Len(g) \in 1..Len(r) /\ r[i - Len(g)] = q[i]
      BY <1>0, <1>1, <1>2, <2>1, <3>1
    <3> QED
      BY <1>0, <1>1, <1>2, <2>1, <3>2
  <2>2. ASSUME NEW j \in DOMAIN r, r[j] = u PROVE (\E i \in DOMAIN q : q[i] = u) /\ u \notin ToSet(g)
    <3>1. j \in 1..Len(r) /\ r[j] = q[j + Len(g)] /\ j + Len(g) \in DOMAIN q /\ r[j] \notin ToSet(g)
      BY <1>0, <1>2, <1>5
    <3> QED
      BY <2>2, <3>1
  <2> QED
    BY <2>1, <2>2
<1>12. t \in ToSet(g)
  BY <1>0, <1>1, <1>3
<1>13. InLine(writer, queue)'
  <2>1. ASSUME NEW u \in Thread
        PROVE  (\E i \in DOMAIN queue' : queue'[i] = u) <=> writer'[u].pc # "out" /\ ~writer'[u].done
    BY SMTT(30), <1>0, <1>1, <1>2, <1>6, <1>7, <1>8, <1>11, <1>12 DEF InLine
  <2>2. ASSUME NEW u \in Thread PROVE writer'[u].done => writer'[u].pc = "asleep"
    BY <1>0, <1>1, <1>6, <1>7, <1>8 DEF InLine
  <2>4. ASSUME NEW i \in DOMAIN queue', NEW j \in DOMAIN queue', i < j
        PROVE  writer'[queue'[i]].id < writer'[queue'[j]].id
    BY <1>63, <1>64, <2>4 DEF InLine
  <2>5. ASSUME NEW i \in DOMAIN queue', i > 1 PROVE writer'[queue'[i]].pc = "asleep"
    BY <1>63, <2>5 DEF InLine
  <2> QED
    BY <2>1, <2>2, <2>4, <2>5 DEF InLine
<1>14. \A u \in Thread : writer'[u].pc # "out" =>
         /\ u # t /\ w[u].pc # "out" /\ writer'[u].id = w[u].id /\ writer'[u].null = w[u].null
  BY <1>0, <1>1, <1>6, <1>7, <1>8
<1>16. w[t].pc # "out"
  BY <1>1 DEF InLine
<1>17. Counted(writer, calls)'
  <2>1. ASSUME NEW a \in answers' PROVE a.id <= calls'
    BY <1>1, <1>62, <1>16 DEF Counted
  <2>2. ASSUME NEW a \in answers', NEW u \in Thread, writer'[u].pc # "out"
        PROVE  writer'[u].id # a.id
    <3>1. u # t /\ w[u].pc # "out" /\ writer'[u].id = w[u].id
      BY <1>14, <2>2
    <3>2. CASE a \in answers
      BY <3>1, <3>2 DEF Counted
    <3>3. CASE a.id = w[t].id
      BY <1>1, <1>16, <3>1, <3>3 DEF Counted
    <3> QED
      BY <1>62, <3>2, <3>3
  <2>3. ASSUME NEW i \in DOMAIN walog' PROVE walog'[i].id <= calls'
    BY DEF Counted
  <2>4. ASSUME NEW u \in Thread, NEW v \in Thread, writer'[u].pc # "out", writer'[v].pc # "out", u # v
        PROVE  writer'[u].id # writer'[v].id
    BY <1>14, <2>4 DEF Counted
  <2>5. ASSUME NEW u \in Thread, writer'[u].pc # "out" PROVE writer'[u].id <= calls'
    BY <1>14, <2>5 DEF Counted
  <2> QED
    BY <2>1, <2>2, <2>3, <2>4, <2>5 DEF Counted
<1>18. NoneNull(writer)'
  <2>1. ASSUME NEW i \in DOMAIN walog', NEW a \in answers', a.null PROVE walog'[i].id # a.id
    <3>1. CASE a \in answers
      BY <2>1, <3>1 DEF NoneNull
    <3>2. CASE a.id = w[t].id /\ a.null = w[t].null
      BY <1>1, <1>16, <2>1, <3>2 DEF NoneNull
    <3> QED
      BY <1>62, <3>1, <3>2
  <2>2. ASSUME NEW i \in DOMAIN walog', NEW u \in Thread, writer'[u].pc # "out", writer'[u].null
        PROVE  walog'[i].id # writer'[u].id
    BY SMTT(30), <1>14, <2>2 DEF NoneNull
  <2> QED
    BY <2>1, <2>2 DEF NoneNull
<1>19. \A u \in Thread : writer'[u].pc \in {"out", "asleep"}
  BY <1>0, <1>1, <1>6, <1>7, <1>8
<1>20. \A u \in Thread : writer'[u].pc = "asleep" /\ (writer'[u].done \/ queue'[1] = u) => u \in signalled'
  <2> SUFFICES ASSUME NEW u \in Thread, writer'[u].pc = "asleep", writer'[u].done \/ queue'[1] = u
               PROVE  u \in signalled'
    OBVIOUS
  <2>1. u # t /\ signalled' = (signalled \cup Woken(g, r)) \ {t}
    BY <1>1, <1>6, <1>7, <1>61
  <2>2. CASE u \in ToSet(g)
    BY <2>1, <2>2 DEF Woken
  <2>3. CASE u \notin ToSet(g) /\ writer'[u].done
    BY <1>6, <2>1, <2>3 DEF DoneSignalled
  <2>4. CASE u \notin ToSet(g) /\ ~writer'[u].done
    <3>1. r # << >>
      BY <1>0, <1>1, <1>2, <1>13, <2>4 DEF InLine
    <3> QED
      BY <1>0, <1>1, <1>2, <2>1, <2>4, <3>1 DEF Woken
  <2> QED
    BY <2>2, <2>3, <2>4
<1>22. ASSUME NEW u \in Thread, writer'[u].done
       PROVE  \/ writer'[u] = w[u] /\ w[u].done
              \/ \E i \in 1..Len(g) : u = g[i] /\ writer'[u] = AsDone(w[u], ok)
  <2>1. u # t
    BY <1>6, <1>7, <1>22
  <2>2. CASE u \in ToSet(g)
    <3>1. PICK i \in 1..Len(g) : u = q[i]
      BY <1>3, <2>2
    <3>2. g[i] = u /\ writer'[u] = AsDone(w[u], ok)
      BY <1>6, <2>1, <2>2, <3>1
    <3> QED
      BY <3>2
  <2>3. CASE u \notin ToSet(g)
    BY <1>6, <1>22, <2>1, <2>3
  <2> QED
    BY <2>2, <2>3
<1> QED
  BY <1>1, <1>2, <1>9, <1>10, <1>13, <1>62, <1>63, <1>17, <1>18, <1>19, <1>20, <1>22 DEF Shorter

\* The log may only grow, and its records become synced or cease to be of the
\* current file.
Grown ==
  /\ walog' \in Seq(LogRecord) /\ DOMAIN walog \subseteq DOMAIN walog'
  /\ \A i \in DOMAIN walog : /\ walog'[i].id = walog[i].id /\ walog'[i].seq = walog[i].seq
                             /\ walog[i].synced => walog'[i].synced

\* Then what may be answered with OK remains so.
LEMMA KeptStays ==
  ASSUME Grown, applied \subseteq applied', lastSeq \in Nat, lastSeq' \in Nat, lastSeq <= lastSeq',
         walog \in Seq(LogRecord), NEW id, NEW sync, Kept(id, sync)
  PROVE  Kept(id, sync)'
<1>1. PICK i \in DOMAIN walog : /\ walog[i].id = id /\ id \in applied /\ walog[i].seq <= lastSeq
                                /\ sync => walog[i].synced
  BY DEF Kept
<1>2. i \in DOMAIN walog' /\ walog'[i].id = id /\ walog'[i].seq = walog[i].seq
      /\ (sync => walog'[i].synced)
  BY <1>1 DEF Grown
<1>3. walog[i].seq \in Nat
  <2>1. walog[i] \in LogRecord
    BY <1>1
  <2> QED
    BY <2>1 DEF LogRecord
<1> QED
  BY <1>1, <1>2, <1>3 DEF Kept

\* A log that keeps its length keeps its order.
LEMMA OrderStays ==
  ASSUME Grown, DOMAIN walog' = DOMAIN walog, Ordered
  PROVE  Ordered'
BY DEF Grown, Ordered

\* NobodyForgotten and what the answers say, after a writer was answered.
LEMMA ReadyAnswered ==
  ASSUME NEW w, NEW q, NEW t, NEW ok \in BOOLEAN, Ready(w, q, t), Rest,
         Answered(w, q, <<t>>, ok), ok => w[t].null,
         Grown, DOMAIN walog' = DOMAIN walog, applied' = applied, lastSeq' = lastSeq,
         room' \in RoomState, Busy'
  PROVE  QueueInv'
<1>1. /\ t \in Thread /\ <<t>> \in Seq(Thread) /\ Len(<<t>>) = 1 /\ <<t>>[1] = t /\ 1 \in 1..Len(q)
      /\ t = q[1] /\ 1 \in DOMAIN q
  BY DEF Ready
<1>2. PICK g : g = <<t>>
  OBVIOUS
<1>3. /\ g \in Seq(Thread) /\ Len(g) \in 1..Len(q) /\ \A i \in 1..Len(g) : g[i] = q[i]
      /\ \A i \in 1..Len(g) : g[i] = t
  BY <1>1, <1>2
<1>4. Shorter(w, q, g, ok)
  <2>1. AtFront(w, q, g)
    BY <1>1, <1>3 DEF AtFront, Ready, Rest
  <2>2. walog' \in Seq(LogRecord) /\ \A i \in DOMAIN walog : walog'[i].id = walog[i].id
    BY DEF Grown
  <2> QED
    BY <1>2, <2>1, <2>2, AnsweredLine
<1>5. QueueTypeOK'
  BY <1>4 DEF Shorter, QueueTypeOK, Rest, Grown
<1>6. Grouped' /\ GroupLogged' /\ \A u \in Thread : ~HasLogged(u)'
  BY <1>4 DEF Shorter, Grouped, GroupLogged, HasLogged, Leading
<1>7. Behind'
  <2>1. \A i \in DOMAIN walog, j \in DOMAIN queue' : walog'[i].id < writer'[queue'[j]].id
    <3> SUFFICES ASSUME NEW i \in DOMAIN walog, NEW j \in DOMAIN queue'
                 PROVE  walog'[i].id < writer'[queue'[j]].id
      OBVIOUS
    <3>1. PICK k \in DOMAIN q : queue'[j] = q[k] /\ writer'[queue'[j]] = w[queue'[j]]
      BY <1>4 DEF Shorter
    <3> QED
      BY <3>1 DEF Ready, Grown
  <2>2. \A i \in DOMAIN walog : walog'[i].seq <= lastSeq'
    BY DEF Ready, Grown
  <2> QED
    BY <2>1, <2>2 DEF Behind
<1>8. walog \in Seq(LogRecord) /\ lastSeq \in Nat /\ lastSeq <= lastSeq' /\ applied \subseteq applied'
  BY DEF Rest
<1>9. Promised(writer)'
  <2> SUFFICES ASSUME NEW u \in Thread, writer'[u].done, writer'[u].status = "ok", ~writer'[u].null
               PROVE  Kept(writer[u].id, writer[u].sync)'
    BY DEF Promised
  <2>1. CASE writer'[u] = w[u] /\ w[u].done
    <3>1. PICK id, sync : id = w[u].id /\ sync = w[u].sync
      OBVIOUS
    <3>2. Kept(id, sync)
      BY <2>1, <3>1 DEF Ready, Promised
    <3>3. Kept(id, sync)'
      BY <1>8, <3>2, KeptStays
    <3> QED
      BY <2>1, <3>1, <3>3
  <2>2. CASE u = t /\ writer'[u] = AsDone(w[u], ok)
    <3>1. w[u] \in WriterState
      BY DEF Ready, Writers
    <3>2. w[u].null
      BY <2>2, <3>1, AsDoneFacts
    <3>3. writer'[u].null = w[u].null
      BY <2>2, <3>1, AsDoneFacts
    <3> QED
      BY <3>2, <3>3
  <2> QED
    BY <1>3, <1>4, <2>1, <2>2 DEF Shorter
<1>10. Acknowledged'
  <2> SUFFICES ASSUME NEW a \in answers', a.ok, ~a.null PROVE Kept(a.id, a.sync)'
    BY DEF Acknowledged
  <2>1. a \in answers
    BY <1>1, <1>4 DEF Shorter
  <2>2. Kept(a.id, a.sync)
    BY <2>1 DEF Rest, Acknowledged
  <2> QED
    BY <1>8, <2>2, KeptStays
<1>11. Ordered'
  BY OrderStays DEF Rest
<1>12. NobodyForgotten'
  BY <1>4 DEF Shorter, NobodyForgotten
<1> QED
  BY <1>4, <1>5, <1>6, <1>7, <1>9, <1>10, <1>11, <1>12 DEF Shorter, QueueInv

\* A group is the front of the queue; only a leader that syncs leads writers
\* that ask for it.
LEMMA GroupFacts ==
  ASSUME NEW w, NEW q \in Seq(Thread), q # << >>
  PROVE  /\ Group(w, q) \in Seq(Thread) /\ Len(Group(w, q)) \in 1..Len(q)
         /\ \A i \in 1..Len(Group(w, q)) :
              Group(w, q)[i] = q[i] /\ (w[q[i]].sync => w[q[1]].sync)
<1> DEFINE N == {n \in DOMAIN q : \A i \in 2..n : MayJoin(w, q, i)}
<1>1. Len(q) \in Nat /\ Len(q) >= 1 /\ DOMAIN q = 1..Len(q)
  OBVIOUS
<1>2. N \in SUBSET Nat /\ IsFiniteSet(N) /\ 1 \in N
  <2>1. N \in SUBSET (1..Len(q)) /\ N \in SUBSET Nat
    BY <1>1
  <2>2. 2..1 = {}
    OBVIOUS
  <2>3. 1 \in N
    BY <1>1, <2>2
  <2>4. IsFiniteSet(1..Len(q))
    BY <1>1, FS_Interval
  <2> HIDE DEF N
  <2> QED
    BY <2>1, <2>3, <2>4, FS_Subset
<1>3. PICK m : m = Max(N)
  OBVIOUS
<1>4. m \in N
  <2> HIDE DEF N
  <2>1. N \in SUBSET Int /\ N # {}
    BY <1>2
  <2>2. \E x \in N : \A y \in N : y <= x
    BY <1>2, <2>1, FiniteHasGreatest
  <2>3. \E x \in N : \A y \in N : x >= y
    BY <2>1, <2>2
  <2> QED
    BY <1>3, <2>3 DEF Max
<1>5. m \in 1..Len(q) /\ \A i \in 2..m : MayJoin(w, q, i)
  BY <1>1, <1>4
<1>6. Group(w, q) = SubSeq(q, 1, m)
  BY <1>3 DEF Group
<1>7. SubSeq(q, 1, m) \in Seq(Thread) /\ Len(SubSeq(q, 1, m)) = m
      /\ \A i \in 1..m : SubSeq(q, 1, m)[i] = q[i]
  BY <1>5
<1>8. \A i \in 1..m : w[q[i]].sync => w[q[1]].sync
  <2> SUFFICES ASSUME NEW i \in 1..m, i # 1, w[q[i]].sync PROVE w[q[1]].sync
    OBVIOUS
  <2>1. i \in 2..m
    BY <1>5
  <2> QED
    BY <1>5, <2>1 DEF MayJoin
<1> QED
  BY <1>5, <1>6, <1>7, <1>8

\* The front writer goes to sleep, or leads a group.
LEMMA ReadyMoves ==
  ASSUME NEW w, NEW q, NEW t, NEW v \in WriterState, Ready(w, q, t), Rest,
         v.pc \in {"delay", "bgwait", "log"}, v.id = w[t].id, v.null = w[t].null, v.sync = w[t].sync,
         ~v.done, v.pc = "log" => ~v.null /\ v.group = Group(w, q),
         v.pc = "bgwait" => room'.scheduled,
         queue' = q, writer' = [w EXCEPT ![t] = v], signalled' = signalled \ {t},
         answers' = answers, Grown, DOMAIN walog' = DOMAIN walog, applied' = applied,
         lastSeq' = lastSeq, room' \in RoomState, Busy'
  PROVE  QueueInv'
<1>1. /\ t \in Thread /\ t = q[1] /\ 1 \in DOMAIN q /\ DOMAIN q = 1..Len(q) /\ Len(q) \in Nat
      /\ w \in Writers /\ q \in Seq(Thread) /\ q # << >>
  BY DEF Ready
<1>2. writer' \in Writers /\ writer'[t] = v /\ \A u \in Thread : u # t => writer'[u] = w[u]
  BY <1>1 DEF Writers
<1>3. w[t].pc # "out" /\ ~w[t].done /\ v.pc # "out"
  BY <1>1 DEF Ready, InLine
<1>4. \A u \in Thread : /\ writer'[u].id = w[u].id /\ writer'[u].null = w[u].null
                        /\ writer'[u].sync = w[u].sync
                        /\ (writer'[u].pc # "out" <=> w[u].pc # "out")
                        /\ (writer'[u].done <=> w[u].done)
  BY <1>2, <1>3
<1>5. QueueTypeOK'
  BY <1>1, <1>2 DEF QueueTypeOK, Rest, Grown
<1>6. InLine(writer, queue)'
  <2>0. InLine(w, q) /\ \A i, j \in DOMAIN q : i # j => q[i] # q[j]
    <3>1. InLine(w, q)
      BY DEF Ready
    <3>2. \A i, j \in DOMAIN q : i < j => q[i] # q[j]
      <4>1. \A i \in DOMAIN q : w[q[i]].id \in Nat
        BY <1>1 DEF Writers, WriterState
      <4> QED
        BY <3>1, <4>1 DEF InLine
    <3>3. \A i, j \in DOMAIN q : i # j => i < j \/ j < i
      BY <1>1
    <3> QED
      BY <3>1, <3>2, <3>3
  <2>1. ASSUME NEW u \in Thread
        PROVE  (\E i \in DOMAIN queue' : queue'[i] = u) <=> writer'[u].pc # "out" /\ ~writer'[u].done
    BY <1>4, <2>0 DEF InLine
  <2>2. ASSUME NEW u \in Thread PROVE writer'[u].done => writer'[u].pc = "asleep"
    BY <1>2, <2>0 DEF InLine
  <2>3. ASSUME NEW i \in DOMAIN queue', NEW j \in DOMAIN queue', i < j
        PROVE  writer'[queue'[i]].id < writer'[queue'[j]].id
    BY <1>1, <1>4, <2>0, <2>3 DEF InLine
  <2>4. ASSUME NEW i \in DOMAIN queue', i > 1 PROVE writer'[queue'[i]].pc = "asleep"
    <3>1. q[i] \in Thread /\ q[i] # t
      BY <1>1, <2>0, <2>4
    <3> QED
      BY <1>2, <2>0, <2>4, <3>1 DEF InLine
  <2> QED
    BY <2>1, <2>2, <2>3, <2>4 DEF InLine
<1>7. Counted(writer, calls)'
  BY <1>4 DEF Ready, Counted, Grown
<1>8. NoneNull(writer)'
  BY <1>4 DEF Ready, NoneNull, Grown
<1>9. \A u \in Thread : u # t => writer'[u].pc \in {"out", "asleep"}
  BY <1>2 DEF Ready
<1>10. \A u \in Thread : ~HasLogged(u)'
  BY <1>2, <1>9 DEF HasLogged
<1>11. Grouped'
  <2> SUFFICES ASSUME v.pc = "log"
               PROVE  /\ ~v.null /\ ~v.done
                      /\ Len(v.group) \in 1..Len(q)
                      /\ \A i \in 1..Len(v.group) : /\ v.group[i] = q[i]
                                                    /\ writer'[q[i]].sync => v.sync
    BY <1>2, <1>9 DEF Grouped, Leading
  <2>1. /\ Len(v.group) \in 1..Len(q)
        /\ \A i \in 1..Len(v.group) : v.group[i] = q[i] /\ (w[q[i]].sync => w[q[1]].sync)
    BY <1>1, GroupFacts
  <2>2. \A i \in 1..Len(v.group) : q[i] \in Thread
    BY <1>1, <2>1
  <2> QED
    BY <1>1, <1>4, <2>1, <2>2
<1>12. GroupLogged'
  BY <1>10 DEF GroupLogged
<1>13. Behind'
  <2>1. \A j \in DOMAIN q : q[j] \in Thread
    BY <1>1
  <2>2. ASSUME NEW i \in DOMAIN walog', NEW j \in DOMAIN queue' PROVE walog'[i].id < writer'[queue'[j]].id
    BY <1>4, <2>1 DEF Ready, Grown
  <2>3. ASSUME NEW i \in DOMAIN walog' PROVE walog'[i].seq <= lastSeq'
    BY DEF Ready, Grown
  <2> QED
    BY <2>2, <2>3 DEF Behind
<1>14. walog \in Seq(LogRecord) /\ lastSeq \in Nat /\ lastSeq <= lastSeq' /\ applied \subseteq applied'
  BY DEF Rest
<1>15. Promised(writer)'
  <2> SUFFICES ASSUME NEW u \in Thread, writer'[u].done, writer'[u].status = "ok", ~writer'[u].null
               PROVE  Kept(writer[u].id, writer[u].sync)'
    BY DEF Promised
  <2>1. writer'[u] = w[u]
    BY <1>2
  <2>2. PICK id, sync : id = w[u].id /\ sync = w[u].sync
    OBVIOUS
  <2>3. Kept(id, sync)
    BY <2>1, <2>2 DEF Ready, Promised
  <2>4. Kept(id, sync)'
    BY <1>14, <2>3, KeptStays
  <2> QED
    BY <2>1, <2>2, <2>4
<1>16. Acknowledged'
  <2> SUFFICES ASSUME NEW a \in answers', a.ok, ~a.null PROVE Kept(a.id, a.sync)'
    BY DEF Acknowledged
  <2>1. Kept(a.id, a.sync)
    BY DEF Rest, Acknowledged
  <2> QED
    BY <1>14, <2>1, KeptStays
<1>17. Ordered'
  BY OrderStays DEF Rest
<1>18. NobodyForgotten'
  <2>1. ASSUME NEW u \in Thread, writer'[u].pc = "asleep", writer'[u].done \/ queue'[1] = u
        PROVE  u \in signalled'
    BY <1>1, <1>2, <2>1 DEF Ready, DoneSignalled
  <2>2. ASSUME NEW u \in Thread, writer'[u].pc = "bgwait" PROVE room'.scheduled
    BY <1>2, <1>9, <2>2
  <2> QED
    BY <2>1, <2>2 DEF NobodyForgotten
<1> QED
  BY <1>5, <1>6, <1>7, <1>8, <1>11, <1>12, <1>13, <1>15, <1>16, <1>17, <1>18 DEF QueueInv

\* MaybeScheduleCompaction leaves no work undone.
LEMMA ScheduledFacts ==
  ASSUME NEW r \in RoomState
  PROVE  /\ Scheduled(r) \in RoomState /\ (r.scheduled => Scheduled(r).scheduled)
         /\ Scheduled(r).error = r.error
         /\ Scheduled(r).imm \/ Scheduled(r).level0 >= CompactAt =>
              Scheduled(r).scheduled \/ Scheduled(r).error
<1>1. PICK b : b = (r.scheduled \/ (~r.error /\ (r.imm \/ r.level0 >= CompactAt)))
  OBVIOUS
<1>2. b \in BOOLEAN
  BY <1>1
<1>3. Scheduled(r) = [r EXCEPT !.scheduled = b]
  BY <1>1 DEF Scheduled
<1>4. Scheduled(r) \in RoomState /\ Scheduled(r).scheduled = b /\ Scheduled(r).error = r.error
      /\ Scheduled(r).imm = r.imm /\ Scheduled(r).level0 = r.level0
  BY <1>2, <1>3 DEF RoomState
<1> QED
  BY <1>1, <1>4 DEF RoomState

\* MakeRoomForWrite, until the mutex is given up.
LEMMA ProceedsStep ==
  ASSUME NEW w, NEW q, NEW t, Ready(w, q, t), Rest, Proceeds(w, q, t)
  PROVE  QueueInv'
<1>0. applied' = applied /\ lastSeq' = lastSeq
  BY DEF Proceeds
<1>1. /\ t \in Thread /\ w \in Writers /\ w[t] \in WriterState /\ ~w[t].done /\ t = q[1]
      /\ q \in Seq(Thread) /\ q # << >>
  BY DEF Ready, InLine, Writers
<1>2. ASSUME walog' = walog PROVE Grown /\ DOMAIN walog' = DOMAIN walog
  BY <1>2 DEF Grown, Rest
<1>3. ASSUME walog' = OldLog PROVE Grown /\ DOMAIN walog' = DOMAIN walog
  <2>1. DOMAIN walog' = DOMAIN walog
    BY <1>3 DEF OldLog
  <2>2. \A i \in DOMAIN walog : /\ walog[i] \in LogRecord
                                /\ walog'[i] = [walog[i] EXCEPT !.current = FALSE]
    BY <1>3 DEF OldLog, Rest
  <2>3. ASSUME NEW i \in DOMAIN walog
        PROVE  /\ walog'[i] \in LogRecord /\ walog'[i].id = walog[i].id
               /\ walog'[i].seq = walog[i].seq /\ walog'[i].synced = walog[i].synced
    BY <2>2 DEF LogRecord
  <2>4. walog' \in Seq(LogRecord)
    <3>1. DOMAIN walog = 1..Len(walog) /\ Len(walog) \in Nat
      BY DEF Rest
    <3>2. walog' \in [1..Len(walog) -> LogRecord]
      BY <1>3, <2>3, <3>1 DEF OldLog
    <3> QED
      BY <3>1, <3>2
  <2> QED
    BY <2>1, <2>3, <2>4 DEF Grown
<1>4. ASSUME room' = room PROVE room' \in RoomState /\ Busy'
  BY <1>4 DEF Rest, Busy
<1>5. ASSUME room' = Scheduled([room EXCEPT !.full = FALSE, !.imm = TRUE])
      PROVE  room' \in RoomState /\ Busy'
  <2>1. PICK r : r = [room EXCEPT !.full = FALSE, !.imm = TRUE]
    OBVIOUS
  <2>2. r \in RoomState
    BY <2>1 DEF Rest, RoomState
  <2> QED
    BY <1>5, <2>1, <2>2, ScheduledFacts DEF Busy
<1>6. ASSUME Answered(w, q, <<t>>, FALSE), Grown, DOMAIN walog' = DOMAIN walog, room' \in RoomState, Busy'
      PROVE  QueueInv'
  BY <1>0, <1>6, ReadyAnswered
<1>7. ASSUME Leads(w, q, t), Grown, DOMAIN walog' = DOMAIN walog, room' \in RoomState, Busy'
      PROVE  QueueInv'
  <2>1. CASE w[t].null
    <3>1. Answered(w, q, <<t>>, TRUE)
      BY <1>7, <2>1 DEF Leads
    <3> QED
      BY <1>0, <1>7, <2>1, <3>1, ReadyAnswered
  <2>2. CASE ~w[t].null
    <3>1. PICK v : v = [w[t] EXCEPT !.pc = "log", !.group = Group(w, q)]
      OBVIOUS
    <3>2. Group(w, q) \in Seq(Thread)
      BY <1>1, GroupFacts
    <3>3. /\ v \in WriterState /\ v.pc = "log" /\ v.group = Group(w, q)
          /\ v.id = w[t].id /\ v.null = w[t].null /\ v.sync = w[t].sync /\ ~v.done
      BY <1>1, <3>1, <3>2 DEF WriterState, Leading
    <3>4. writer' = [w EXCEPT ![t] = v]
      BY <1>1, <1>7, <2>2, <3>1 DEF Leads, Writers
    <3>5. queue' = q /\ signalled' = signalled \ {t} /\ answers' = answers
      BY <1>7, <2>2 DEF Leads
    <3> QED
      BY <1>0, <1>7, <2>2, <3>3, <3>4, <3>5, ReadyMoves
  <2> QED
    BY <2>1, <2>2
<1>8. CASE room.error
  <2>1. Answered(w, q, <<t>>, FALSE) /\ room' = room /\ walog' = walog
    BY <1>8 DEF Proceeds
  <2> QED
    BY <1>2, <1>4, <1>6, <2>1
<1>9. CASE ~room.error /\ w[t].delay /\ room.level0 >= SlowAt
  <2>1. Waits([w EXCEPT ![t].delay = FALSE], q, t, "delay")
    BY <1>9 DEF Proceeds
  <2>2. PICK v : v = [w[t] EXCEPT !.delay = FALSE, !.pc = "delay"]
    OBVIOUS
  <2>3. /\ v \in WriterState /\ v.pc = "delay"
        /\ v.id = w[t].id /\ v.null = w[t].null /\ v.sync = w[t].sync /\ ~v.done
    BY <1>1, <2>2 DEF WriterState, Waiting
  <2>4. writer' = [w EXCEPT ![t] = v]
    BY <1>1, <2>1, <2>2 DEF Waits, Writers
  <2>5. /\ queue' = q /\ signalled' = signalled \ {t} /\ answers' = answers
        /\ walog' = walog /\ room' = room
    BY <2>1 DEF Waits
  <2> QED
    BY <1>0, <1>2, <1>4, <2>3, <2>4, <2>5, ReadyMoves
<1>10. CASE /\ ~room.error /\ ~(w[t].delay /\ room.level0 >= SlowAt)
            /\ ~w[t].force /\ ~room.full
  <2>1. Leads(w, q, t) /\ room' = room /\ walog' = walog
    BY <1>10 DEF Proceeds
  <2> QED
    BY <1>2, <1>4, <1>7, <2>1
<1>11. CASE /\ ~room.error /\ ~(w[t].delay /\ room.level0 >= SlowAt)
            /\ ~(~w[t].force /\ ~room.full) /\ (room.imm \/ room.level0 >= StopAt)
  <2>1. Waits(w, q, t, "bgwait")
    BY <1>11 DEF Proceeds
  <2>2. PICK v : v = [w[t] EXCEPT !.pc = "bgwait"]
    OBVIOUS
  <2>3. /\ v \in WriterState /\ v.pc = "bgwait"
        /\ v.id = w[t].id /\ v.null = w[t].null /\ v.sync = w[t].sync /\ ~v.done
    BY <1>1, <2>2 DEF WriterState, Waiting
  <2>4. writer' = [w EXCEPT ![t] = v]
    BY <1>1, <2>1, <2>2 DEF Waits, Writers
  <2>5. /\ queue' = q /\ signalled' = signalled \ {t} /\ answers' = answers
        /\ walog' = walog /\ room' = room
    BY <2>1 DEF Waits
  <2>6. room'.scheduled
    <3>1. room.level0 \in Nat /\ CompactAt \in Nat /\ SlowAt \in Nat /\ StopAt \in Nat
      BY DEF Rest, RoomState
    <3>2. room.level0 >= StopAt => room.level0 >= CompactAt
      BY <3>1
    <3> QED
      BY <1>11, <2>5, <3>2 DEF Rest, Busy
  <2> QED
    BY <1>0, <1>2, <1>4, <2>3, <2>4, <2>5, <2>6, ReadyMoves
<1>12. CASE /\ ~room.error /\ ~(w[t].delay /\ room.level0 >= SlowAt)
            /\ ~(~w[t].force /\ ~room.full) /\ ~(room.imm \/ room.level0 >= StopAt)
  <2>1. \/ Answered(w, q, <<t>>, FALSE) /\ UNCHANGED <<room, walog>>
        \/ /\ room' = Scheduled([room EXCEPT !.full = FALSE, !.imm = TRUE])
           /\ walog' = OldLog
           /\ Leads(w, q, t)
    BY <1>12 DEF Proceeds
  <2>2. CASE Answered(w, q, <<t>>, FALSE) /\ UNCHANGED <<room, walog>>
    BY <1>2, <1>4, <1>6, <2>2
  <2>3. CASE /\ room' = Scheduled([room EXCEPT !.full = FALSE, !.imm = TRUE])
             /\ walog' = OldLog
             /\ Leads(w, q, t)
    BY <1>3, <1>5, <1>7, <2>3
  <2> QED
    BY <2>1, <2>2, <2>3
<1> QED
  BY <1>8, <1>9, <1>10, <1>11, <1>12

-----------------------------------------------------------------------------
(* The other steps.                                                        *)

\* The writes ws of a group g: its members with a batch, in their order.
WritesOf(ws, g) ==
  /\ ws \in Seq(Thread) /\ Len(ws) \in Nat /\ DOMAIN ws = 1..Len(ws)
  /\ \A i \in 1..Len(g) : ~writer[g[i]].null => \E j \in 1..Len(ws) : ws[j] = g[i]
  /\ \A j \in 1..Len(ws) : \E i \in 1..Len(g) : ws[j] = g[i] /\ ~writer[g[i]].null
  /\ \A j, k \in 1..Len(ws) : j < k => \E i, h \in 1..Len(g) :
       i < h /\ ws[j] = g[i] /\ ws[k] = g[h]

\* Writes is what its name says.
LEMMA WritesFacts ==
  ASSUME NEW g \in Seq(Thread)
  PROVE  WritesOf(Writes(g), g)
<1> DEFINE S == {i \in DOMAIN g : ~writer[g[i]].null}
<1>1. DOMAIN g = 1..Len(g) /\ Len(g) \in Nat
  OBVIOUS
<1>2. S \in SUBSET Nat /\ IsFiniteSet(S) /\ \A i \in S : i \in 1..Len(g) /\ ~writer[g[i]].null
  <2>1. S \in SUBSET (1..Len(g)) /\ S \in SUBSET Nat
    BY <1>1
  <2>2. IsFiniteSet(1..Len(g))
    BY <1>1, FS_Interval
  <2>3. \A i \in S : ~writer[g[i]].null
    OBVIOUS
  <2> HIDE DEF S
  <2> QED
    BY <2>1, <2>2, <2>3, FS_Subset
<1>3. \A i \in 1..Len(g) : ~writer[g[i]].null => i \in S
  BY <1>1
<1>4. PICK o, n : o = InOrder(S) /\ n = Cardinality(S)
  OBVIOUS
<1>5. Writes(g) = [j \in DOMAIN o |-> g[o[j]]]
  BY <1>4 DEF Writes
<1> HIDE DEF S
<1>6. /\ o \in [1..n -> S] /\ n \in Nat /\ Increasing(o)
      /\ \A x \in S : \E i \in 1..n : o[i] = x
  BY <1>2, <1>4, InOrderFacts
<1>7. \A j \in 1..n : o[j] \in 1..Len(g) /\ ~writer[g[o[j]]].null
  BY <1>2, <1>6
<1>8. PICK ws : ws = Writes(g)
  OBVIOUS
<1>9. ws = [j \in 1..n |-> g[o[j]]]
  BY <1>5, <1>6, <1>8
<1>10. ws \in Seq(Thread) /\ Len(ws) = n /\ DOMAIN ws = 1..n
  <2>1. \A j \in 1..n : g[o[j]] \in Thread
    BY <1>7
  <2>2. ws \in [1..n -> Thread]
    BY <1>9, <2>1
  <2> QED
    BY <1>6, <2>2
<1>11. \A j \in 1..n : ws[j] = g[o[j]]
  BY <1>9
<1>12. ASSUME NEW i \in 1..Len(g), ~writer[g[i]].null
       PROVE  \E j \in 1..Len(ws) : ws[j] = g[i]
  <2>1. PICK j \in 1..n : o[j] = i
    BY <1>3, <1>6, <1>12
  <2> QED
    BY <1>10, <1>11, <2>1
<1>13. ASSUME NEW j \in 1..Len(ws), NEW k \in 1..Len(ws), j < k
       PROVE  \E i, h \in 1..Len(g) : i < h /\ ws[j] = g[i] /\ ws[k] = g[h]
  <2>1. o[j] < o[k] /\ o[j] \in 1..Len(g) /\ o[k] \in 1..Len(g)
    BY <1>6, <1>7, <1>10, <1>13 DEF Increasing
  <2> QED
    BY <1>10, <1>11, <2>1
<1>14. \A j \in 1..Len(ws) : \E i \in 1..Len(g) : ws[j] = g[i] /\ ~writer[g[i]].null
  BY <1>7, <1>10, <1>11
<1> QED
  BY <1>6, <1>8, <1>10, <1>12, <1>13, <1>14 DEF WritesOf

\* They are the same when nobody's batch changes.
LEMMA WritesSame ==
  ASSUME NEW g \in Seq(Thread), \A u \in Thread : writer'[u].null = writer[u].null
  PROVE  Writes(g)' = Writes(g)
<1>1. \A i \in DOMAIN g : g[i] \in Thread
  OBVIOUS
<1>2. {i \in DOMAIN g : ~writer'[g[i]].null} = {i \in DOMAIN g : ~writer[g[i]].null}
  BY <1>1
<1> QED
  BY <1>2 DEF Writes

\* Only the front of the queue may be at work or wait for room; who is answered
\* is signalled.
LEMMA OnlyFrontWorks ==
  ASSUME QueueInv
  PROVE  /\ \A u \in Thread : writer[u].pc \notin {"out", "asleep"} =>
              u = queue[1] /\ queue # << >> /\ ~writer[u].done
         /\ DoneSignalled(writer)
<1>1. queue \in Seq(Thread) /\ DOMAIN queue = 1..Len(queue) /\ Len(queue) \in Nat
  BY DEF QueueInv, QueueTypeOK
<1>2. ASSUME NEW u \in Thread, writer[u].pc \notin {"out", "asleep"}
      PROVE  u = queue[1] /\ queue # << >> /\ ~writer[u].done
  <2>1. ~writer[u].done
    BY <1>2 DEF QueueInv, InLine
  <2>2. PICK i \in DOMAIN queue : queue[i] = u
    BY <1>2, <2>1 DEF QueueInv, InLine
  <2>3. ~(i > 1)
    BY <1>2, <2>2 DEF QueueInv, InLine
  <2> QED
    BY <1>1, <2>1, <2>2, <2>3
<1>3. DoneSignalled(writer)
  BY DEF QueueInv, InLine, NobodyForgotten, DoneSignalled
<1> QED
  BY <1>2, <1>3

\* When nobody has logged his group, the log is all numbered, and older than
\* the queue.
LEMMA NoneLogged ==
  ASSUME QueueInv, \A u \in Thread : ~HasLogged(u)
  PROVE  \A i \in DOMAIN walog :
           walog[i].seq <= lastSeq /\ \A j \in DOMAIN queue : walog[i].id < writer[queue[j]].id
<1>1. queue \in Seq(Thread) /\ (queue # << >> => queue[1] \in Thread)
  BY DEF QueueInv, QueueTypeOK
<1>2. \A j \in DOMAIN queue : queue # << >>
  BY <1>1
<1> QED
  BY <1>1, <1>2 DEF QueueInv, Behind

\* At the start nobody writes.
LEMMA QueueInitially == QueueInit => QueueInv
<1> SUFFICES ASSUME QueueInit PROVE QueueInv
  OBVIOUS
<1>1. Idle \in WriterState
  BY DEF Idle, WriterState
<1>2. QueueTypeOK
  BY <1>1 DEF QueueInit, QueueTypeOK, Writers, RoomState
<1>3. DOMAIN queue = {} /\ DOMAIN walog = {}
  BY DEF QueueInit
<1>4. \A t \in Thread : writer[t].pc = "out" /\ ~writer[t].done
  BY DEF QueueInit, Idle
<1>5. InLine(writer, queue) /\ Counted(writer, calls) /\ NoneNull(writer)
  BY <1>3, <1>4 DEF InLine, Counted, NoneNull, QueueInit
<1>6. Grouped /\ GroupLogged /\ NobodyForgotten /\ Promised(writer)
  BY <1>4 DEF Grouped, GroupLogged, HasLogged, NobodyForgotten, Promised, Leading
<1>7. Behind /\ Ordered
  BY <1>3 DEF Behind, Ordered
<1>8. Acknowledged
  BY DEF Acknowledged, QueueInit
<1>9. Busy
  <2>1. CompactAt \in Nat \ {0}
    OBVIOUS
  <2> QED
    BY <2>1 DEF Busy, QueueInit
<1> QED
  BY <1>2, <1>5, <1>6, <1>7, <1>8, <1>9 DEF QueueInv

\* What a front writer rests on.
LEMMA RestFacts ==
  ASSUME QueueInv, calls' \in Nat
  PROVE  Rest
BY DEF QueueInv, QueueTypeOK, Rest

\* The step of a thread t that is not in the queue, or joins it at the back,
\* while others may be at work.
Aside(t) ==
  /\ t \in Thread /\ writer' \in Writers /\ queue' \in Seq(Thread)
  /\ \A u \in Thread : u # t => writer'[u] = writer[u]
  /\ writer'[t].pc \in {"out", "asleep"}
  /\ \A j \in DOMAIN queue : queue[j] # t /\ queue'[j] = queue[j]
  /\ Len(queue) <= Len(queue')
  /\ UNCHANGED <<walog, applied, lastSeq>>

\* The leader's group stays as it is.
LEMMA LeaderStays ==
  ASSUME QueueInv, NEW t, Aside(t)
  PROVE  /\ Grouped' /\ GroupLogged'
         /\ \A u \in Thread : (HasLogged(u)' <=> HasLogged(u))
                              /\ (HasLogged(u) => u = queue[1] /\ writer'[u] = writer[u])
         /\ \A i \in DOMAIN walog' :
              \/ walog'[i].seq <= lastSeq'
              \/ \E u \in Thread : HasLogged(u)' /\ walog'[i].seq <= lastSeq' + Len(Writes(writer[u].group)')
<1>0. /\ t \in Thread /\ writer' \in Writers /\ queue' \in Seq(Thread)
      /\ \A u \in Thread : u # t => writer'[u] = writer[u]
      /\ writer'[t].pc \in {"out", "asleep"}
      /\ \A j \in DOMAIN queue : queue[j] # t /\ queue'[j] = queue[j]
      /\ Len(queue) <= Len(queue')
      /\ walog' = walog /\ applied' = applied /\ lastSeq' = lastSeq
  BY DEF Aside
<1>1. /\ queue \in Seq(Thread) /\ DOMAIN queue = 1..Len(queue) /\ Len(queue) \in Nat
      /\ Len(queue') \in Nat /\ writer \in Writers
  BY <1>0 DEF QueueInv, QueueTypeOK
<1>2. ASSUME NEW u \in Thread, writer[u].pc \in Leading \/ writer'[u].pc \in Leading
      PROVE  u # t /\ u = queue[1] /\ writer'[u] = writer[u] /\ writer[u].pc \in Leading
  <2>1. CASE u = t
    <3>1. writer[u].pc \in Leading
      BY <1>0, <1>2, <2>1 DEF Leading
    <3>2. u = queue[1] /\ queue # << >>
      BY <3>1, OnlyFrontWorks DEF Leading
    <3> QED
      BY <1>0, <1>1, <2>1, <3>2
  <2>2. CASE u # t
    <3>1. writer'[u] = writer[u] /\ writer[u].pc \in Leading
      BY <1>0, <1>2, <2>2
    <3>2. u = queue[1]
      BY <3>1, OnlyFrontWorks DEF Leading
    <3> QED
      BY <2>2, <3>1, <3>2
  <2> QED
    BY <2>1, <2>2
<1>3. ASSUME NEW u \in Thread, writer[u].pc \in Leading
      PROVE  /\ writer[u].group \in Seq(Thread) /\ Len(writer[u].group) \in 1..Len(queue)
             /\ \A i \in 1..Len(writer[u].group) :
                  /\ writer[u].group[i] = queue[i] /\ queue'[i] = queue[i]
                  /\ queue[i] \in Thread /\ writer'[queue[i]] = writer[queue[i]]
             /\ Writes(writer[u].group)' = Writes(writer[u].group)
  <2>1. writer[u].group \in Seq(Thread)
    BY <1>1 DEF Writers, WriterState
  <2>2. Len(writer[u].group) \in 1..Len(queue)
        /\ \A i \in 1..Len(writer[u].group) : writer[u].group[i] = queue[i]
    BY <1>3 DEF QueueInv, Grouped
  <2>3. \A i \in 1..Len(writer[u].group) :
          queue'[i] = queue[i] /\ queue[i] \in Thread /\ writer'[queue[i]] = writer[queue[i]]
    BY <1>0, <1>1, <2>2
  <2>4. PICK g : g = writer[u].group
    OBVIOUS
  <2>5. DOMAIN g = 1..Len(g) /\ \A i \in DOMAIN g : writer'[g[i]] = writer[g[i]]
    BY SMTT(30), <2>1, <2>2, <2>3, <2>4
  <2>6. {i \in DOMAIN g : ~writer'[g[i]].null} = {i \in DOMAIN g : ~writer[g[i]].null}
    BY <2>5
  <2>7. Writes(g)' = Writes(g)
    BY <2>6 DEF Writes
  <2>8. writer'[u] = writer[u]
    BY <1>2, <1>3
  <2> QED
    BY <2>1, <2>2, <2>3, <2>4, <2>7, <2>8
<1>4. ASSUME NEW u \in Thread
      PROVE  /\ HasLogged(u)' <=> HasLogged(u)
             /\ HasLogged(u) => /\ writer'[u] = writer[u] /\ u = queue[1]
                                /\ writer[u].pc \in Leading /\ writer'[u].pc \in Leading
  BY <1>2 DEF HasLogged, Leading
<1>5. Grouped'
  <2> SUFFICES ASSUME NEW u \in Thread, writer'[u].pc \in Leading
               PROVE  /\ ~writer'[u].null /\ ~writer'[u].done
                      /\ Len(writer'[u].group) \in 1..Len(queue')
                      /\ \A i \in 1..Len(writer'[u].group) :
                           /\ writer'[u].group[i] = queue'[i]
                           /\ writer'[queue'[i]].sync => writer'[u].sync
                      /\ writer'[u].pc \in {"sync", "apply"} => writer'[u].status = "ok"
    BY DEF Grouped
  <2>1. writer'[u] = writer[u] /\ writer[u].pc \in Leading
    BY <1>2
  <2>2. Len(writer[u].group) \in 1..Len(queue')
    BY <1>0, <1>1, <1>3, <2>1
  <2> QED
    BY <1>3, <2>1, <2>2 DEF QueueInv, Grouped
<1>6. GroupLogged'
  <2> SUFFICES ASSUME NEW u \in Thread, HasLogged(u)', NEW i \in 1..Len(writer'[u].group),
                      ~writer'[writer'[u].group[i]].null
               PROVE  /\ LoggedFor(u, writer[u].group[i])'
                      /\ writer'[u].pc = "finish" /\ writer'[u].status = "ok" =>
                           writer'[writer'[u].group[i]].id \in applied'
    BY DEF GroupLogged
  <2>1. HasLogged(u) /\ writer'[u] = writer[u] /\ writer[u].pc \in Leading
    BY <1>4
  <2>2. PICK v : v = writer[u].group[i]
    OBVIOUS
  <2>3. v \in Thread /\ writer'[v] = writer[v]
    BY <1>3, <2>1, <2>2
  <2>4. /\ LoggedFor(u, v)
        /\ writer[u].pc = "finish" /\ writer[u].status = "ok" => writer[v].id \in applied
    BY <2>1, <2>2, <2>3 DEF QueueInv, GroupLogged
  <2>5. Len(Writes(writer[u].group)') = Len(Writes(writer[u].group))
    BY <1>3, <2>1
  <2>6. LoggedFor(u, v)'
    BY <1>0, <2>1, <2>3, <2>4, <2>5 DEF LoggedFor
  <2> QED
    BY <1>0, <2>1, <2>2, <2>3, <2>4, <2>6
<1>7. ASSUME NEW i \in DOMAIN walog'
      PROVE  \/ walog'[i].seq <= lastSeq'
             \/ \E u \in Thread : HasLogged(u)' /\ walog'[i].seq <= lastSeq' + Len(Writes(writer[u].group)')
  <2>1. CASE walog[i].seq <= lastSeq
    BY <1>0, <2>1
  <2>2. CASE ~(walog[i].seq <= lastSeq)
    <3>1. PICK u \in Thread : HasLogged(u) /\ walog[i].seq <= lastSeq + Len(Writes(writer[u].group))
      BY <1>0, <2>2 DEF QueueInv, Behind
    <3>2. HasLogged(u)' /\ Len(Writes(writer[u].group)') = Len(Writes(writer[u].group))
      BY <1>3, <1>4, <3>1
    <3> QED
      BY <1>0, <3>1, <3>2
  <2> QED
    BY <2>1, <2>2
<1> QED
  BY <1>4, <1>5, <1>6, <1>7

\* A writer that has got its answer returns.
LEMMA ReturnsStep ==
  ASSUME QueueInv, NEW t \in Thread, Wakes(t), writer[t].done
  PROVE  QueueInv'
<1>0. calls' = calls /\ writer[t].pc \in Waiting /\ writer[t].pc # "out" /\ calls \in Nat
  BY DEF Wakes, Waiting, QueueInv, QueueTypeOK
<1>1. /\ queue \in Seq(Thread) /\ DOMAIN queue = 1..Len(queue) /\ Len(queue) \in Nat
      /\ writer \in Writers /\ writer[t] \in WriterState
  BY DEF QueueInv, QueueTypeOK, Writers
<1>2. PICK a : a = [id |-> writer[t].id, null |-> writer[t].null,
                    sync |-> writer[t].sync, ok |-> writer[t].status = "ok"]
  OBVIOUS
<1>3. /\ writer' = [writer EXCEPT ![t] = Idle] /\ signalled' = signalled \ {t}
      /\ answers' = answers \cup {a}
      /\ queue' = queue /\ room' = room /\ walog' = walog /\ applied' = applied /\ lastSeq' = lastSeq
  BY <1>2 DEF Wakes
<1>4. /\ a \in AnswerState /\ a.id = writer[t].id /\ a.null = writer[t].null
      /\ a.sync = writer[t].sync /\ (a.ok <=> writer[t].status = "ok")
  BY <1>1, <1>2 DEF AnswerState, WriterState
<1>5. Idle \in WriterState /\ Idle.pc = "out" /\ ~Idle.done
  BY DEF Idle, WriterState
<1>6. writer' \in Writers /\ writer'[t] = Idle /\ \A u \in Thread : u # t => writer'[u] = writer[u]
  BY <1>1, <1>3, <1>5 DEF Writers
<1>7. \A j \in DOMAIN queue : queue[j] \in Thread /\ queue[j] # t
  BY <1>1 DEF QueueInv, InLine
<1>8. /\ Grouped' /\ GroupLogged'
      /\ \A u \in Thread : (HasLogged(u)' <=> HasLogged(u))
                           /\ (HasLogged(u) => u = queue[1] /\ writer'[u] = writer[u])
      /\ \A i \in DOMAIN walog' :
           \/ walog'[i].seq <= lastSeq'
           \/ \E u \in Thread : HasLogged(u)' /\ walog'[i].seq <= lastSeq' + Len(Writes(writer[u].group)')
  <2>1. Aside(t)
    BY <1>1, <1>3, <1>5, <1>6, <1>7 DEF Aside
  <2> QED
    BY <2>1, LeaderStays
<1>9. QueueTypeOK'
  BY <1>0, <1>3, <1>4, <1>6 DEF QueueInv, QueueTypeOK
<1>10. InLine(writer, queue)'
  <2>1. \A u \in Thread : (\E i \in DOMAIN queue : queue[i] = u) <=> writer'[u].pc # "out" /\ ~writer'[u].done
    BY <1>5, <1>6, <1>7 DEF QueueInv, InLine
  <2>2. \A u \in Thread : writer'[u].done => writer'[u].pc = "asleep"
    BY <1>5, <1>6 DEF QueueInv, InLine
  <2>3. \A j \in DOMAIN queue : writer'[queue[j]] = writer[queue[j]]
    BY <1>6, <1>7
  <2> QED
    BY <1>3, <2>1, <2>2, <2>3 DEF QueueInv, InLine
<1>11. \A u \in Thread : writer'[u].pc # "out" => u # t /\ writer'[u] = writer[u]
  BY <1>5, <1>6
<1>12. Counted(writer, calls)'
  <2>1. \A u \in Thread : writer'[u].pc # "out" => writer'[u].id <= calls'
    BY <1>0, <1>11 DEF QueueInv, Counted
  <2>2. \A u, v \in Thread : writer'[u].pc # "out" /\ writer'[v].pc # "out" /\ u # v =>
          writer'[u].id # writer'[v].id
    BY <1>11 DEF QueueInv, Counted
  <2>3. ASSUME NEW b \in answers'
        PROVE  b.id <= calls' /\ \A u \in Thread : writer'[u].pc # "out" => writer'[u].id # b.id
    <3>1. CASE b \in answers
      BY <1>0, <1>11, <3>1 DEF QueueInv, Counted
    <3>2. CASE b = a
      BY <1>0, <1>4, <1>11, <3>2 DEF QueueInv, Counted
    <3> QED
      BY <1>3, <3>1, <3>2
  <2>4. \A i \in DOMAIN walog' : walog'[i].id <= calls'
    BY <1>0, <1>3 DEF QueueInv, Counted
  <2> QED
    BY <2>1, <2>2, <2>3, <2>4 DEF Counted
<1>13. NoneNull(writer)'
  <2>1. ASSUME NEW i \in DOMAIN walog, NEW b \in answers', b.null PROVE walog[i].id # b.id
    <3>1. CASE b \in answers
      BY <2>1, <3>1 DEF QueueInv, NoneNull
    <3>2. CASE b = a
      BY <1>0, <1>4, <2>1, <3>2 DEF QueueInv, NoneNull
    <3> QED
      BY <1>3, <3>1, <3>2
  <2>2. \A i \in DOMAIN walog : \A u \in Thread :
          writer'[u].pc # "out" /\ writer'[u].null => walog[i].id # writer'[u].id
    BY <1>11 DEF QueueInv, NoneNull
  <2> QED
    BY <1>3, <2>1, <2>2 DEF NoneNull
<1>14. Behind'
  <2> SUFFICES ASSUME NEW i \in DOMAIN walog, NEW j \in DOMAIN queue
               PROVE  \/ walog[i].id < writer'[queue[j]].id
                      \/ HasLogged(queue[1])' /\ j <= Len(writer'[queue[1]].group)
    BY <1>3, <1>8 DEF Behind
  <2>1. writer'[queue[j]] = writer[queue[j]]
    BY <1>6, <1>7
  <2>2. CASE walog[i].id < writer[queue[j]].id
    BY <2>1, <2>2
  <2>3. CASE HasLogged(queue[1]) /\ j <= Len(writer[queue[1]].group)
    <3>1. PICK f \in Thread : f = queue[1]
      BY <1>1
    <3>2. HasLogged(f)' /\ writer'[f] = writer[f]
      BY <1>8, <2>3, <3>1
    <3>3. HasLogged(queue[1])'
      BY <1>3, <3>1, <3>2
    <3> QED
      BY <2>3, <3>1, <3>2, <3>3
  <2> QED
    BY <2>2, <2>3 DEF QueueInv, Behind
<1>15. \A id, sync : Kept(id, sync)' <=> Kept(id, sync)
  BY <1>3 DEF Kept
<1>16. Promised(writer)'
  <2> SUFFICES ASSUME NEW u \in Thread, writer'[u].done, writer'[u].status = "ok", ~writer'[u].null
               PROVE  Kept(writer[u].id, writer[u].sync)'
    BY DEF Promised
  <2>1. writer'[u] = writer[u]
    BY <1>5, <1>6
  <2>2. PICK id, sync : id = writer[u].id /\ sync = writer[u].sync
    OBVIOUS
  <2>3. Kept(id, sync)'
    BY <1>15, <2>1, <2>2 DEF QueueInv, Promised
  <2> QED
    BY <2>1, <2>2, <2>3
<1>17. Acknowledged'
  <2> SUFFICES ASSUME NEW b \in answers', b.ok, ~b.null PROVE Kept(b.id, b.sync)'
    BY DEF Acknowledged
  <2>1. CASE b \in answers
    BY <1>15, <2>1 DEF QueueInv, Acknowledged
  <2>2. CASE b = a
    BY <1>4, <1>15, <2>2 DEF QueueInv, Promised
  <2> QED
    BY <1>3, <2>1, <2>2
<1>18. Ordered' /\ Busy'
  BY <1>3 DEF QueueInv, Ordered, Busy
<1>19. NobodyForgotten'
  BY <1>3, <1>5, <1>6, <1>7 DEF QueueInv, NobodyForgotten
<1> QED
  BY <1>8, <1>9, <1>10, <1>12, <1>13, <1>14, <1>16, <1>17, <1>18, <1>19 DEF QueueInv

\* A sleeper wakes.
LEMMA WakesStep ==
  ASSUME QueueInv, NEW t \in Thread, Wakes(t)
  PROVE  QueueInv'
<1>0. calls' = calls /\ writer[t].pc \in Waiting /\ writer[t].pc # "out" /\ calls \in Nat
  BY DEF Wakes, Waiting, QueueInv, QueueTypeOK
<1>1. CASE writer[t].done
  BY <1>1, ReturnsStep
<1>2. /\ queue \in Seq(Thread) /\ DOMAIN queue = 1..Len(queue) /\ Len(queue) \in Nat
      /\ writer \in Writers /\ writer[t] \in WriterState
  BY DEF QueueInv, QueueTypeOK, Writers
<1>3. CASE ~writer[t].done /\ queue[1] = t
  <2>1. Proceeds(writer, queue, t)
    BY <1>3 DEF Wakes
  <2>2. \A u \in Thread : writer[u].pc \notin {"out", "asleep"} => u = t
    BY <1>3, OnlyFrontWorks
  <2>3. \A u \in Thread : ~HasLogged(u) /\ writer[u].pc \notin Leading
    BY <1>0, <2>2 DEF HasLogged, Leading, Waiting
  <2>4. queue # << >>
    BY <1>0, <1>2, <1>3 DEF QueueInv, InLine
  <2>5. Ready(writer, queue, t)
    <3>1. Counted(writer, calls')
      BY <1>0 DEF QueueInv
    <3>2. InLine(writer, queue) /\ NoneNull(writer) /\ Promised(writer)
      BY DEF QueueInv
    <3>3. DoneSignalled(writer)
      BY OnlyFrontWorks
    <3>4. \A i \in DOMAIN walog :
            walog[i].seq <= lastSeq /\ \A j \in DOMAIN queue : walog[i].id < writer[queue[j]].id
      BY <2>3, NoneLogged
    <3>5. \A u \in Thread : u # t => writer[u].pc \in {"out", "asleep"}
      BY <2>2
    <3> QED
      BY <1>2, <1>3, <2>3, <2>4, <3>1, <3>2, <3>3, <3>4, <3>5 DEF Ready
  <2>6. Rest
    BY <1>0, RestFacts
  <2> QED
    BY <2>1, <2>5, <2>6, ProceedsStep
<1>4. CASE ~writer[t].done /\ queue[1] # t
  <2>1. writer[t].pc = "asleep"
    BY <1>0, <1>4, OnlyFrontWorks
  <2>2. writer' = [writer EXCEPT ![t].pc = "asleep"]
        /\ queue' = queue /\ signalled' = signalled \ {t}
        /\ room' = room /\ answers' = answers /\ walog' = walog /\ applied' = applied /\ lastSeq' = lastSeq
    BY <1>4 DEF Wakes, Waits
  <2>3. writer' = writer
    BY <1>2, <2>1, <2>2 DEF Writers, WriterState
  <2>4. QueueTypeOK'
    BY <1>0, <2>2, <2>3 DEF QueueInv, QueueTypeOK
  <2>5. InLine(writer, queue)' /\ Counted(writer, calls)' /\ NoneNull(writer)'
    BY <1>0, <2>2, <2>3 DEF QueueInv, InLine, Counted, NoneNull
  <2>6. \A u \in Thread : HasLogged(u)' <=> HasLogged(u)
    BY <2>3 DEF HasLogged
  <2>7. Grouped' /\ GroupLogged' /\ Behind'
    <3>1. Grouped'
      <4>1. Grouped
        BY DEF QueueInv
      <4>2. ASSUME NEW u \in Thread, writer'[u].pc \in Leading
            PROVE  /\ ~writer'[u].null /\ ~writer'[u].done
                   /\ Len(writer'[u].group) \in 1..Len(queue')
                   /\ writer'[u].pc \in {"sync", "apply"} => writer'[u].status = "ok"
        BY <2>2, <2>3, <4>1, <4>2 DEF Grouped
      <4>3. ASSUME NEW u \in Thread, writer'[u].pc \in Leading, NEW i \in 1..Len(writer'[u].group)
            PROVE  /\ writer'[u].group[i] = queue'[i]
                   /\ writer'[queue'[i]].sync => writer'[u].sync
        BY <2>2, <2>3, <4>1, <4>3 DEF Grouped
      <4> QED
        BY <4>2, <4>3 DEF Grouped
    <3>2. \A g : Writes(g)' = Writes(g)
      BY <2>3 DEF Writes
    <3>3. \A u, v \in Thread : LoggedFor(u, v)' <=> LoggedFor(u, v)
      BY <2>2, <2>3, <3>2 DEF LoggedFor
    <3>4. \A u \in Thread : writer[u].group \in Seq(Thread)
      BY <1>2 DEF Writers, WriterState
    <3>5. GroupLogged'
      BY SMTT(30), <2>2, <2>3, <2>6, <3>3, <3>4 DEF QueueInv, GroupLogged
    <3>6. Behind'
      BY <2>2, <2>3, <2>6, <3>2 DEF QueueInv, Behind, HasLogged
    <3> QED
      BY <3>1, <3>5, <3>6
  <2>8. Ordered' /\ Promised(writer)' /\ Acknowledged' /\ Busy'
    BY <2>2, <2>3 DEF QueueInv, Ordered, Promised, Acknowledged, Busy, Kept
  <2>9. NobodyForgotten'
    BY <1>4, <2>1, <2>2, <2>3 DEF QueueInv, NobodyForgotten
  <2> QED
    BY <2>4, <2>5, <2>7, <2>8, <2>9 DEF QueueInv
<1> QED
  BY <1>1, <1>3, <1>4

\* A call of Write: t becomes v, at the back of the queue.
Called(t, v, null, sync, size) ==
  v = [Idle EXCEPT !.pc = "asleep", !.id = calls + 1, !.null = null, !.sync = sync,
                   !.size = size, !.delay = ~null, !.force = null]

\* The new writer sleeps until it is known to be the front.
LEMMA CalledFacts ==
  ASSUME NEW t, NEW v, NEW null \in BOOLEAN, NEW sync \in BOOLEAN, NEW size \in Nat,
         calls \in Nat, Called(t, v, null, sync, size)
  PROVE  /\ v \in WriterState /\ v.pc = "asleep" /\ ~v.done /\ v.id = calls + 1
         /\ v.null = null /\ v.sync = sync
<1>1. Idle \in WriterState
  BY DEF Idle, WriterState
<1>2. PICK d : d = ~null /\ d \in BOOLEAN
  OBVIOUS
<1>3. v = [Idle EXCEPT !.pc = "asleep", !.id = calls + 1, !.null = null, !.sync = sync,
                       !.size = size, !.delay = d, !.force = null]
  BY <1>2 DEF Called
<1>4. calls + 1 \in Nat /\ ~Idle.done
  BY DEF Idle
<1> QED
  BY <1>1, <1>2, <1>3, <1>4 DEF WriterState, Waiting

\* What the queue looks like with t at its back.
Joined(w, q, t, v) ==
  /\ w \in Writers /\ w[t] = v /\ \A u \in Thread : u # t => w[u] = writer[u]
  /\ q \in Seq(Thread) /\ Len(q) = Len(queue) + 1 /\ q[Len(q)] = t
  /\ \A j \in DOMAIN queue : q[j] = queue[j] /\ queue[j] # t
  /\ InLine(w, q) /\ Counted(w, calls') /\ NoneNull(w) /\ Promised(w) /\ DoneSignalled(w)
  /\ \A i \in DOMAIN walog : walog[i].id < v.id

\* That is what a call makes of it.
LEMMA JoinedFacts ==
  ASSUME QueueInv, NEW t \in Thread, writer[t].pc = "out", NEW v \in WriterState,
         v.pc = "asleep", ~v.done, v.id = calls + 1, calls' = calls + 1,
         NEW w, w = [writer EXCEPT ![t] = v], NEW q, q = Append(queue, t)
  PROVE  Joined(w, q, t, v)
<1>1. /\ queue \in Seq(Thread) /\ DOMAIN queue = 1..Len(queue) /\ Len(queue) \in Nat
      /\ writer \in Writers /\ calls \in Nat
  BY DEF QueueInv, QueueTypeOK
<1>2. w \in Writers /\ w[t] = v /\ \A u \in Thread : u # t => w[u] = writer[u]
  BY <1>1 DEF Writers
<1>3. \A j \in DOMAIN queue : queue[j] \in Thread /\ queue[j] # t
  BY <1>1 DEF QueueInv, InLine
<1>4. /\ q \in Seq(Thread) /\ Len(q) = Len(queue) + 1 /\ q[Len(q)] = t
      /\ DOMAIN q = 1..Len(q) /\ \A j \in DOMAIN queue : q[j] = queue[j]
  BY <1>1
<1>5. \A j \in DOMAIN q : j \in DOMAIN queue \/ j = Len(q)
  BY <1>1, <1>4
<1>6. \A j \in DOMAIN queue : j \in DOMAIN q /\ w[q[j]] = writer[queue[j]]
  BY <1>1, <1>2, <1>3, <1>4
<1>7. Len(q) \in DOMAIN q
  BY <1>1, <1>4
<1>8. \A u \in Thread : u # t => w[u].pc = writer[u].pc /\ w[u].id = writer[u].id
                                  /\ w[u].done = writer[u].done
  BY <1>2
<1>9. \A u \in Thread : writer[u].pc # "out" => writer[u].id <= calls /\ writer[u].id \in Nat
  BY <1>1 DEF QueueInv, Counted, Writers, WriterState
<1>10. \A j \in DOMAIN queue : writer[queue[j]].pc # "out"
  BY <1>3 DEF QueueInv, InLine
<1>11. InLine(w, q)
  <2>1. ASSUME NEW u \in Thread
        PROVE  (\E j \in DOMAIN q : q[j] = u) <=> w[u].pc # "out" /\ ~w[u].done
    <3>1. CASE u = t
      BY <1>2, <1>4, <1>7, <3>1
    <3>2. CASE u # t
      <4>1. (\E j \in DOMAIN q : q[j] = u) <=> (\E j \in DOMAIN queue : queue[j] = u)
        BY <1>4, <1>5, <1>6, <3>2
      <4> QED
        BY <1>2, <3>2, <4>1 DEF QueueInv, InLine
    <3> QED
      BY <3>1, <3>2
  <2>2. \A u \in Thread : w[u].done => w[u].pc = "asleep"
    BY <1>2 DEF QueueInv, InLine
  <2>3. ASSUME NEW i \in DOMAIN q, NEW j \in DOMAIN q, i < j PROVE w[q[i]].id < w[q[j]].id
    <3>1. i \in DOMAIN queue
      BY <1>1, <1>4, <2>3
    <3>2. CASE j \in DOMAIN queue
      BY <1>6, <2>3, <3>1, <3>2 DEF QueueInv, InLine
    <3>3. CASE j = Len(q)
      BY <1>1, <1>2, <1>3, <1>4, <1>6, <1>9, <1>10, <3>1, <3>3
    <3> QED
      BY <1>5, <3>2, <3>3
  <2>4. ASSUME NEW i \in DOMAIN q, i > 1 PROVE w[q[i]].pc = "asleep"
    <3>1. CASE i \in DOMAIN queue
      BY <1>6, <2>4, <3>1 DEF QueueInv, InLine
    <3>2. CASE i = Len(q)
      BY <1>2, <1>4, <3>2
    <3> QED
      BY <1>5, <3>1, <3>2
  <2> QED
    BY <2>1, <2>2, <2>3, <2>4 DEF InLine
<1>12. \A a \in answers : a.id <= calls /\ a.id \in Nat
  BY DEF QueueInv, QueueTypeOK, Counted, AnswerState
<1>13. \A i \in DOMAIN walog : walog[i].id <= calls /\ walog[i].id \in Nat
  <2>1. \A i \in DOMAIN walog : walog[i] \in LogRecord
    BY DEF QueueInv, QueueTypeOK
  <2> QED
    BY <2>1 DEF QueueInv, Counted, LogRecord
<1>14. Counted(w, calls')
  <2>1. \A u \in Thread : w[u].pc # "out" => w[u].id <= calls'
    BY <1>1, <1>2, <1>9
  <2>2. ASSUME NEW u \in Thread, NEW x \in Thread, w[u].pc # "out", w[x].pc # "out", u # x
        PROVE  w[u].id # w[x].id
    <3>1. CASE u # t /\ x # t
      BY <1>2, <2>2, <3>1 DEF QueueInv, Counted
    <3>2. CASE u = t \/ x = t
      BY <1>1, <1>2, <1>9, <2>2, <3>2
    <3> QED
      BY <3>1, <3>2
  <2>3. ASSUME NEW a \in answers
        PROVE  a.id <= calls' /\ \A u \in Thread : w[u].pc # "out" => w[u].id # a.id
    <3>1. a.id <= calls'
      BY <1>1, <1>12
    <3>2. ASSUME NEW u \in Thread, w[u].pc # "out", u # t PROVE w[u].id # a.id
      BY <1>2, <3>2 DEF QueueInv, Counted
    <3>3. w[t].id # a.id
      BY <1>1, <1>2, <1>12
    <3> QED
      BY <3>1, <3>2, <3>3
  <2>4. \A i \in DOMAIN walog : walog[i].id <= calls'
    BY <1>1, <1>13
  <2> QED
    BY <2>1, <2>2, <2>3, <2>4 DEF Counted
<1>15. NoneNull(w)
  <2>1. \A i \in DOMAIN walog : \A a \in answers : a.null => walog[i].id # a.id
    BY DEF QueueInv, NoneNull
  <2>2. ASSUME NEW i \in DOMAIN walog, NEW u \in Thread, w[u].pc # "out", w[u].null
        PROVE  walog[i].id # w[u].id
    <3>1. CASE u = t
      BY <1>1, <1>2, <1>13, <3>1
    <3>2. CASE u # t
      BY <1>2, <2>2, <3>2 DEF QueueInv, NoneNull
    <3> QED
      BY <3>1, <3>2
  <2> QED
    BY <2>1, <2>2 DEF NoneNull
<1>16. Promised(w)
  <2> SUFFICES ASSUME NEW u \in Thread, w[u].done, w[u].status = "ok", ~w[u].null
               PROVE  Kept(w[u].id, w[u].sync)
    BY DEF Promised
  <2>1. w[u] = writer[u]
    BY <1>2
  <2> QED
    BY <2>1 DEF QueueInv, Promised
<1>17. DoneSignalled(w)
  <2>1. DoneSignalled(writer)
    BY OnlyFrontWorks
  <2> QED
    BY <1>2, <2>1 DEF DoneSignalled
<1>18. \A i \in DOMAIN walog : walog[i].id < v.id
  BY <1>1, <1>13
<1> QED
  BY <1>2, <1>3, <1>4, <1>11, <1>14, <1>15, <1>16, <1>17, <1>18 DEF Joined

\* A call of Write proceeds at once or waits behind the others.
LEMMA WriteCallStep ==
  ASSUME QueueInv, NEW t \in Thread, NEW null \in BOOLEAN, NEW sync \in BOOLEAN, NEW size \in Nat,
         WriteCall(t, null, sync, size)
  PROVE  QueueInv'
<1>1. writer[t].pc = "out" /\ calls' = calls + 1 /\ calls \in Nat
  BY DEF WriteCall, QueueInv, QueueTypeOK
<1>2. PICK v : Called(t, v, null, sync, size)
  BY DEF Called
<1>3. PICK w, q : w = [writer EXCEPT ![t] = v] /\ q = Append(queue, t)
  OBVIOUS
<1>4. IF queue = << >> THEN Proceeds(w, q, t)
      ELSE Waits(w, q, t, "asleep") /\ UNCHANGED <<applied, lastSeq>>
  BY <1>2, <1>3 DEF WriteCall, Called
<1>5. /\ v \in WriterState /\ v.pc = "asleep" /\ ~v.done /\ v.id = calls + 1
      /\ v.null = null /\ v.sync = sync
  BY <1>1, <1>2, CalledFacts
<1>6. /\ w \in Writers /\ w[t] = v /\ \A u \in Thread : u # t => w[u] = writer[u]
      /\ q \in Seq(Thread) /\ Len(q) = Len(queue) + 1 /\ q[Len(q)] = t
      /\ \A j \in DOMAIN queue : q[j] = queue[j] /\ queue[j] # t
      /\ InLine(w, q) /\ Counted(w, calls') /\ NoneNull(w) /\ Promised(w) /\ DoneSignalled(w)
      /\ \A i \in DOMAIN walog : walog[i].id < v.id
  <2>1. Joined(w, q, t, v)
    BY <1>1, <1>3, <1>5, JoinedFacts
  <2> QED
    BY <2>1 DEF Joined
<1>7. /\ queue \in Seq(Thread) /\ DOMAIN queue = 1..Len(queue) /\ Len(queue) \in Nat
      /\ writer \in Writers
  BY DEF QueueInv, QueueTypeOK
<1>8. CASE queue = << >>
  <2>1. q # << >> /\ q[1] = t /\ Len(q) = 1 /\ DOMAIN q = {1}
    BY <1>6, <1>8
  <2>2. \A u \in Thread : writer[u].pc \in {"out", "asleep"} /\ ~HasLogged(u)
    BY <1>8, OnlyFrontWorks DEF HasLogged
  <2>3. \A u \in Thread : w[u].pc \notin Leading /\ w[u].pc \in {"out", "asleep"}
    BY <1>5, <1>6, <2>2 DEF Leading
  <2>4. \A i \in DOMAIN walog : walog[i].seq <= lastSeq
    BY <2>2, NoneLogged
  <2>5. \A i \in DOMAIN walog : \A j \in DOMAIN q : walog[i].id < w[q[j]].id
    BY <1>6, <2>1
  <2>6. Ready(w, q, t)
    BY <1>6, <2>1, <2>3, <2>4, <2>5 DEF Ready
  <2>7. Rest
    BY <1>1, RestFacts
  <2> QED
    BY <1>4, <1>8, <2>6, <2>7, ProceedsStep
<1>9. CASE queue # << >>
  <2>1. /\ queue' = q /\ writer' = [w EXCEPT ![t].pc = "asleep"] /\ signalled' = signalled \ {t}
        /\ room' = room /\ answers' = answers /\ walog' = walog /\ applied' = applied
        /\ lastSeq' = lastSeq
    BY <1>4, <1>9 DEF Waits
  <2>2. writer' = w
    BY <1>5, <1>6, <2>1 DEF Writers, WriterState
  <2>3. Aside(t)
    BY <1>5, <1>6, <1>7, <2>1, <2>2 DEF Aside
  <2>4. /\ Grouped' /\ GroupLogged'
        /\ \A u \in Thread : (HasLogged(u)' <=> HasLogged(u))
                             /\ (HasLogged(u) => u = queue[1] /\ writer'[u] = writer[u])
        /\ \A i \in DOMAIN walog' :
             \/ walog'[i].seq <= lastSeq'
             \/ \E u \in Thread : HasLogged(u)' /\ walog'[i].seq <= lastSeq' + Len(Writes(writer[u].group)')
    BY <2>3, LeaderStays
  <2>5. QueueTypeOK'
    <3>1. calls' \in Nat /\ queue' \in Seq(Thread) /\ writer' \in Writers
      BY <1>1, <1>6, <2>1, <2>2
    <3> QED
      BY <2>1, <3>1 DEF QueueInv, QueueTypeOK
  <2>6. InLine(writer, queue)'
    BY <1>6, <2>1, <2>2 DEF InLine
  <2>7. Counted(writer, calls)' /\ NoneNull(writer)'
    <3>1. Counted(w, calls') /\ NoneNull(w)
      BY <1>6
    <3>2. Counted(writer, calls)'
      BY <2>1, <2>2, <3>1 DEF Counted
    <3>3. NoneNull(writer)'
      BY <2>1, <2>2, <3>1 DEF NoneNull
    <3> QED
      BY <3>2, <3>3
  <2>8. \A id, sy : Kept(id, sy)' <=> Kept(id, sy)
    BY <2>1 DEF Kept
  <2>9. Promised(writer)'
    <3> SUFFICES ASSUME NEW u \in Thread, writer'[u].done, writer'[u].status = "ok", ~writer'[u].null
                 PROVE  Kept(writer[u].id, writer[u].sync)'
      BY DEF Promised
    <3>1. PICK id, sy : id = w[u].id /\ sy = w[u].sync
      OBVIOUS
    <3>2. Kept(id, sy)'
      BY <1>6, <2>2, <2>8, <3>1 DEF Promised
    <3> QED
      BY <2>2, <3>1, <3>2
  <2>10. Acknowledged'
    <3> SUFFICES ASSUME NEW b \in answers', b.ok, ~b.null PROVE Kept(b.id, b.sync)'
      BY DEF Acknowledged
    <3> QED
      BY <2>1, <2>8 DEF QueueInv, Acknowledged
  <2>11. Ordered' /\ Busy'
    BY <2>1 DEF QueueInv, Ordered, Busy
  <2>12. queue'[1] = queue[1] /\ queue[1] # t /\ queue[1] \in Thread /\ 1 \in DOMAIN queue
    BY <1>6, <1>7, <1>9, <2>1
  <2>13. Behind'
    <3> SUFFICES ASSUME NEW i \in DOMAIN walog, NEW j \in DOMAIN queue'
                 PROVE  \/ walog[i].id < writer'[queue'[j]].id
                        \/ HasLogged(queue[1])' /\ j <= Len(writer'[queue'[1]].group)
      BY <2>1, <2>4 DEF Behind
    <3>1. CASE j = Len(q)
      BY <1>6, <2>1, <2>2, <3>1
    <3>2. CASE j \in DOMAIN queue
      <4>1. queue'[j] = queue[j] /\ writer'[queue[j]] = writer[queue[j]]
        BY <1>6, <1>7, <2>1, <2>2, <3>2
      <4>2. CASE walog[i].id < writer[queue[j]].id
        BY <4>1, <4>2
      <4>3. CASE HasLogged(queue[1]) /\ j <= Len(writer[queue[1]].group)
        <5>1. PICK f \in Thread : f = queue[1]
          BY <2>12
        <5>2. HasLogged(f)' /\ writer'[f] = writer[f]
          BY <2>4, <4>3, <5>1
        <5>3. HasLogged(queue[1])'
          BY <2>12, <5>1, <5>2
        <5> QED
          BY <2>12, <4>3, <5>1, <5>2, <5>3
      <4> QED
        BY <3>2, <4>2, <4>3 DEF QueueInv, Behind
    <3> QED
      BY <1>6, <1>7, <2>1, <3>1, <3>2
  <2>14. NobodyForgotten'
    <3>1. ASSUME NEW u \in Thread, writer'[u].pc = "asleep", writer'[u].done \/ queue'[1] = u
          PROVE  u \in signalled'
      <4>1. u # t /\ writer'[u] = writer[u]
        BY <1>5, <1>6, <2>2, <2>12, <3>1
      <4> QED
        BY <2>1, <2>12, <3>1, <4>1 DEF QueueInv, NobodyForgotten
    <3>2. ASSUME NEW u \in Thread, writer'[u].pc = "bgwait" PROVE u \in signalled' \/ room'.scheduled
      <4>1. u # t /\ writer'[u] = writer[u]
        BY <1>5, <1>6, <2>2, <3>2
      <4> QED
        BY <2>1, <3>2, <4>1 DEF QueueInv, NobodyForgotten
    <3> QED
      BY <3>1, <3>2 DEF NobodyForgotten
  <2> QED
    BY <2>4, <2>5, <2>6, <2>7, <2>9, <2>10, <2>11, <2>13, <2>14 DEF QueueInv
<1> QED
  BY <1>8, <1>9

\* The leader t goes on to v; nothing but the log and the memtable changes
\* besides.
Moved(t, v) ==
  /\ t \in Thread /\ writer[t].pc \in Leading
  /\ v \in WriterState /\ v.pc \in Leading /\ (v.pc \in {"sync", "apply"} => v.status = "ok")
  /\ v.id = writer[t].id /\ v.null = writer[t].null /\ v.sync = writer[t].sync
  /\ v.done = writer[t].done /\ v.group = writer[t].group
  /\ writer' = [writer EXCEPT ![t] = v]
  /\ UNCHANGED <<queue, signalled, lastSeq, room, calls, answers>>

\* What that leaves as it was.
Led(t, v) ==
  /\ writer' \in Writers /\ writer'[t] = v /\ \A u \in Thread : u # t => writer'[u] = writer[u]
  /\ \A u \in Thread : /\ writer'[u].id = writer[u].id /\ writer'[u].null = writer[u].null
                       /\ writer'[u].sync = writer[u].sync /\ writer'[u].done = writer[u].done
                       /\ writer'[u].group = writer[u].group
                       /\ (writer'[u].pc # "out" <=> writer[u].pc # "out")
  /\ t = queue[1] /\ \A u \in Thread : u # t => writer[u].pc \in {"out", "asleep"}
  /\ writer[t].group \in Seq(Thread) /\ Len(writer[t].group) \in 1..Len(queue) /\ Len(queue) \in Nat
  /\ \A i \in 1..Len(writer[t].group) :
       writer[t].group[i] = queue[i] /\ queue[i] \in Thread /\ (writer[queue[i]].sync => writer[t].sync)
  /\ \A u \in Thread : u # t => ~HasLogged(u) /\ ~HasLogged(u)'
  /\ Writes(writer[t].group)' = Writes(writer[t].group)
  /\ InLine(writer, queue)' /\ Grouped' /\ NobodyForgotten'

\* A step of the leader is such a step.
LEMMA LedFacts ==
  ASSUME QueueInv, NEW t, NEW v, Moved(t, v)
  PROVE  Led(t, v)
<1>1. /\ t \in Thread /\ writer[t].pc \in Leading
      /\ v \in WriterState /\ v.pc \in Leading /\ (v.pc \in {"sync", "apply"} => v.status = "ok")
      /\ v.id = writer[t].id /\ v.null = writer[t].null /\ v.sync = writer[t].sync
      /\ v.done = writer[t].done /\ v.group = writer[t].group
      /\ writer' = [writer EXCEPT ![t] = v]
      /\ queue' = queue /\ signalled' = signalled /\ lastSeq' = lastSeq /\ room' = room
      /\ calls' = calls /\ answers' = answers
  BY DEF Moved
<1>2. /\ queue \in Seq(Thread) /\ DOMAIN queue = 1..Len(queue) /\ Len(queue) \in Nat
      /\ writer \in Writers
  BY DEF QueueInv, QueueTypeOK
<1>3. writer' \in Writers /\ writer'[t] = v /\ \A u \in Thread : u # t => writer'[u] = writer[u]
  BY <1>1, <1>2 DEF Writers
<1>4. writer[t].pc # "out" /\ writer[t].pc # "asleep" /\ v.pc # "out" /\ v.pc # "asleep"
      /\ v.pc # "bgwait"
  BY <1>1 DEF Leading
<1>5. \A u \in Thread : /\ writer'[u].id = writer[u].id /\ writer'[u].null = writer[u].null
                        /\ writer'[u].sync = writer[u].sync /\ writer'[u].done = writer[u].done
                        /\ writer'[u].group = writer[u].group
                        /\ (writer'[u].pc # "out" <=> writer[u].pc # "out")
  BY <1>1, <1>3, <1>4
<1>6. t = queue[1] /\ queue # << >> /\ ~writer[t].done
      /\ \A u \in Thread : u # t => writer[u].pc \in {"out", "asleep"}
  BY <1>1, <1>4, OnlyFrontWorks
<1>7. /\ writer[t].group \in Seq(Thread) /\ Len(writer[t].group) \in 1..Len(queue)
      /\ \A i \in 1..Len(writer[t].group) :
           /\ writer[t].group[i] = queue[i] /\ queue[i] \in Thread
           /\ writer[queue[i]].sync => writer[t].sync
  <2>1. writer[t].group \in Seq(Thread)
    BY <1>1, <1>2 DEF Writers, WriterState
  <2>2. Len(writer[t].group) \in 1..Len(queue)
        /\ \A i \in 1..Len(writer[t].group) :
             writer[t].group[i] = queue[i] /\ (writer[queue[i]].sync => writer[t].sync)
    BY <1>1 DEF QueueInv, Grouped
  <2>3. \A i \in 1..Len(writer[t].group) : queue[i] \in Thread
    BY <1>2, <2>2
  <2> QED
    BY <2>1, <2>2, <2>3
<1>8. \A u \in Thread : u # t => ~HasLogged(u) /\ ~HasLogged(u)'
  BY <1>3, <1>6 DEF HasLogged
<1>9. Writes(writer[t].group)' = Writes(writer[t].group)
  <2>1. PICK g : g = writer[t].group
    OBVIOUS
  <2>2. Writes(g)' = Writes(g)
    BY <1>5, <1>7, <2>1, WritesSame
  <2>3. writer'[t].group = g
    BY <1>1, <1>3, <2>1
  <2> QED
    BY <2>1, <2>2, <2>3
<1>10. InLine(writer, queue)'
  <2>1. \A u \in Thread : (\E i \in DOMAIN queue : queue[i] = u) <=> writer'[u].pc # "out" /\ ~writer'[u].done
    BY <1>5 DEF QueueInv, InLine
  <2>2. \A u \in Thread : writer'[u].done => writer'[u].pc = "asleep"
    BY <1>1, <1>3, <1>6 DEF QueueInv, InLine
  <2>3. \A i, j \in DOMAIN queue : i < j => writer'[queue[i]].id < writer'[queue[j]].id
    BY <1>2, <1>5 DEF QueueInv, InLine
  <2>4. ASSUME NEW i \in DOMAIN queue, i > 1 PROVE writer'[queue[i]].pc = "asleep"
    <3>1. writer[queue[i]].pc = "asleep" /\ queue[i] \in Thread
      BY <1>2, <2>4 DEF QueueInv, InLine
    <3> QED
      BY <1>3, <1>4, <3>1
  <2> QED
    BY <1>1, <2>1, <2>2, <2>3, <2>4 DEF InLine
<1>11. Grouped'
  <2> SUFFICES ASSUME NEW u \in Thread, writer'[u].pc \in Leading
               PROVE  /\ ~writer'[u].null /\ ~writer'[u].done
                      /\ Len(writer'[u].group) \in 1..Len(queue)
                      /\ \A i \in 1..Len(writer'[u].group) :
                           /\ writer'[u].group[i] = queue[i]
                           /\ writer'[queue[i]].sync => writer'[u].sync
                      /\ writer'[u].pc \in {"sync", "apply"} => writer'[u].status = "ok"
    BY <1>1 DEF Grouped
  <2>1. u = t
    BY <1>3, <1>6 DEF Leading
  <2>2. ~writer[t].null
    BY <1>1 DEF QueueInv, Grouped
  <2> QED
    BY <1>1, <1>3, <1>5, <1>6, <1>7, <2>1, <2>2
<1>12. NobodyForgotten'
  BY <1>1, <1>3, <1>4, <1>6 DEF QueueInv, NobodyForgotten
<1> QED
  BY <1>2, <1>3, <1>5, <1>6, <1>7, <1>8, <1>9, <1>10, <1>11, <1>12 DEF Led

\* A step of the leader that adds nothing to the log.
LEMMA MovedStep ==
  ASSUME QueueInv, NEW t, NEW v, Moved(t, v), Grown, DOMAIN walog' = DOMAIN walog,
         applied \subseteq applied', HasLogged(t)' <=> HasLogged(t), GroupLogged'
  PROVE  QueueInv'
<1>1. t \in Thread /\ v.group = writer[t].group
      /\ queue' = queue /\ signalled' = signalled /\ lastSeq' = lastSeq /\ room' = room
      /\ calls' = calls /\ answers' = answers
  BY DEF Moved
<1>2. Led(t, v)
  BY LedFacts
<1>3. /\ writer' \in Writers /\ writer'[t] = v /\ t = queue[1]
      /\ \A u \in Thread : /\ writer'[u].id = writer[u].id /\ writer'[u].null = writer[u].null
                           /\ writer'[u].sync = writer[u].sync /\ writer'[u].done = writer[u].done
                           /\ (writer'[u].pc # "out" <=> writer[u].pc # "out")
      /\ \A u \in Thread : u # t => ~HasLogged(u) /\ ~HasLogged(u)' /\ writer'[u] = writer[u]
  BY <1>2 DEF Led
<1>4. walog' \in Seq(LogRecord) /\ \A i \in DOMAIN walog' :
        i \in DOMAIN walog /\ walog'[i].id = walog[i].id /\ walog'[i].seq = walog[i].seq
  BY DEF Grown
<1>5. QueueTypeOK'
  BY <1>1, <1>3, <1>4 DEF QueueInv, QueueTypeOK
<1>6. Counted(writer, calls)'
  BY <1>1, <1>3, <1>4 DEF QueueInv, Counted
<1>7. NoneNull(writer)'
  BY <1>1, <1>3, <1>4 DEF QueueInv, NoneNull
<1>8. InLine(writer, queue)' /\ Grouped' /\ NobodyForgotten'
  BY <1>2 DEF Led
<1>9. Behind'
  <2>1. \A j \in DOMAIN queue : queue[j] \in Thread
    BY DEF QueueInv, QueueTypeOK
  <2>2. ASSUME NEW i \in DOMAIN walog', NEW j \in DOMAIN queue
        PROVE  \/ walog'[i].id < writer'[queue[j]].id
               \/ HasLogged(queue[1])' /\ j <= Len(writer'[queue[1]].group)
    <3>1. CASE walog[i].id < writer[queue[j]].id
      BY <1>3, <1>4, <2>1, <3>1
    <3>2. CASE HasLogged(queue[1]) /\ j <= Len(writer[queue[1]].group)
      <4>1. HasLogged(t)' /\ j <= Len(writer'[t].group)
        BY <1>1, <1>3, <3>2
      <4>2. HasLogged(queue[1])'
        BY <1>1, <1>3, <4>1
      <4> QED
        BY <1>3, <4>1, <4>2
    <3> QED
      BY <1>4, <3>1, <3>2 DEF QueueInv, Behind
  <2>3. ASSUME NEW i \in DOMAIN walog'
        PROVE  \/ walog'[i].seq <= lastSeq'
               \/ \E u \in Thread : HasLogged(u)' /\ walog'[i].seq <= lastSeq' + Len(Writes(writer[u].group)')
    <3>1. CASE walog[i].seq <= lastSeq
      BY <1>1, <1>4, <3>1
    <3>2. CASE ~(walog[i].seq <= lastSeq)
      <4>1. PICK u \in Thread : HasLogged(u) /\ walog[i].seq <= lastSeq + Len(Writes(writer[u].group))
        BY <1>4, <3>2 DEF QueueInv, Behind
      <4>2. u = t
        BY <1>3, <4>1
      <4>3. Writes(writer[t].group)' = Writes(writer[t].group)
        BY <1>2 DEF Led
      <4>4. walog'[i].seq <= lastSeq' + Len(Writes(writer[t].group)')
        BY <1>1, <1>4, <4>1, <4>2, <4>3
      <4> QED
        BY <1>1, <4>1, <4>2, <4>4
    <3> QED
      BY <3>1, <3>2
  <2> QED
    BY <1>1, <2>2, <2>3 DEF Behind
<1>10. walog \in Seq(LogRecord) /\ lastSeq \in Nat /\ lastSeq' \in Nat /\ lastSeq <= lastSeq'
  BY <1>1 DEF QueueInv, QueueTypeOK
<1>11. \A id, sync : Kept(id, sync) => Kept(id, sync)'
  BY <1>10, KeptStays
<1>12. Promised(writer)'
  <2> SUFFICES ASSUME NEW u \in Thread, writer'[u].done, writer'[u].status = "ok", ~writer'[u].null
               PROVE  Kept(writer[u].id, writer[u].sync)'
    BY DEF Promised
  <2>1. PICK id, sync : id = writer[u].id /\ sync = writer[u].sync
    OBVIOUS
  <2>2. u # t
    BY <1>3, OnlyFrontWorks DEF Moved, Leading
  <2>3. Kept(id, sync)
    BY <1>3, <2>1, <2>2 DEF QueueInv, Promised
  <2>4. Kept(id, sync)'
    BY <1>11, <2>3
  <2> QED
    BY <1>3, <2>1, <2>4
<1>13. Acknowledged'
  <2> SUFFICES ASSUME NEW b \in answers', b.ok, ~b.null PROVE Kept(b.id, b.sync)'
    BY DEF Acknowledged
  <2>1. Kept(b.id, b.sync)
    BY <1>1 DEF QueueInv, Acknowledged
  <2> QED
    BY <1>10, <2>1, KeptStays
<1>14. Ordered' /\ Busy'
  BY <1>1, OrderStays DEF QueueInv, Busy
<1> QED
  BY <1>5, <1>6, <1>7, <1>8, <1>9, <1>12, <1>13, <1>14 DEF QueueInv

\* The log is synced, or that fails.
LEMMA SyncLogStep ==
  ASSUME QueueInv, NEW t \in Thread, SyncLog(t)
  PROVE  QueueInv'
<1>1. /\ writer[t].pc = "sync" /\ writer[t] \in WriterState /\ writer \in Writers
      /\ walog \in Seq(LogRecord) /\ \A i \in DOMAIN walog : walog[i] \in LogRecord
      /\ queue' = queue /\ signalled' = signalled /\ applied' = applied /\ lastSeq' = lastSeq
      /\ room' = room /\ calls' = calls /\ answers' = answers
  BY DEF SyncLog, QueueInv, QueueTypeOK, Writers
<1>2. HasLogged(t) /\ writer[t].status = "ok"
  BY <1>1 DEF HasLogged, QueueInv, Grouped, Leading
<1>3. CASE /\ walog' = [i \in DOMAIN walog |-> [walog[i] EXCEPT !.synced = @ \/ walog[i].current]]
           /\ Turns(t, "apply", "ok")
  <2>1. PICK v : v = [writer[t] EXCEPT !.pc = "apply", !.status = "ok"]
    OBVIOUS
  <2>2. /\ v \in WriterState /\ v.pc = "apply" /\ v.status = "ok"
        /\ v.id = writer[t].id /\ v.null = writer[t].null /\ v.sync = writer[t].sync
        /\ v.done = writer[t].done /\ v.group = writer[t].group
    BY <1>1, <2>1 DEF WriterState, Leading
  <2>3. writer' = [writer EXCEPT ![t] = v]
    BY <1>1, <1>3, <2>1 DEF Turns, Writers
  <2>4. Moved(t, v)
    BY <1>1, <2>2, <2>3 DEF Moved, Leading
  <2>5. ASSUME NEW i \in DOMAIN walog
        PROVE  /\ walog'[i] \in LogRecord /\ walog'[i].id = walog[i].id /\ walog'[i].seq = walog[i].seq
               /\ walog[i].synced \/ walog[i].current => walog'[i].synced
    <3>1. PICK b : b = (walog[i].synced \/ walog[i].current) /\ b \in BOOLEAN
      OBVIOUS
    <3>2. walog'[i] = [walog[i] EXCEPT !.synced = b]
      BY <1>3, <3>1
    <3> QED
      BY <1>1, <3>1, <3>2 DEF LogRecord
  <2>6. DOMAIN walog' = DOMAIN walog /\ walog' \in Seq(LogRecord)
    <3>1. DOMAIN walog = 1..Len(walog) /\ Len(walog) \in Nat
      BY <1>1
    <3>2. walog' \in [1..Len(walog) -> LogRecord]
      BY <1>3, <2>5, <3>1
    <3> QED
      BY <3>1, <3>2
  <2>7. Grown
    BY <2>5, <2>6 DEF Grown
  <2>8. Led(t, v)
    BY <2>4, LedFacts
  <2>9. HasLogged(t)'
    BY <2>2, <2>8 DEF HasLogged, Led
  <2>10. GroupLogged'
    <3> SUFFICES ASSUME NEW u \in Thread, HasLogged(u)', NEW i \in 1..Len(writer'[u].group),
                        ~writer'[writer'[u].group[i]].null
                 PROVE  /\ LoggedFor(u, writer[u].group[i])'
                        /\ writer'[u].pc = "finish" /\ writer'[u].status = "ok" =>
                             writer'[writer'[u].group[i]].id \in applied'
      BY DEF GroupLogged
    <3>1. u = t /\ writer'[u] = v /\ v.group = writer[t].group
      BY <2>2, <2>8 DEF Led
    <3>2. PICK x : x = writer[t].group[i]
      OBVIOUS
    <3>3. x \in Thread /\ ~writer[x].null
      BY <2>8, <3>1, <3>2 DEF Led
    <3>4. LoggedFor(t, x)
      BY <1>2, <3>1, <3>2, <3>3 DEF QueueInv, GroupLogged
    <3>5. PICK k \in DOMAIN walog :
            /\ walog[k].id = writer[x].id /\ walog[k].seq > lastSeq
            /\ walog[k].seq <= lastSeq + Len(Writes(writer[t].group))
            /\ walog[k].current
      BY <1>1, <3>4 DEF LoggedFor
    <3>6. /\ walog'[k].id = writer'[x].id /\ walog'[k].seq > lastSeq' /\ walog'[k].synced
          /\ walog'[k].seq <= lastSeq' + Len(Writes(writer[t].group)')
      <4>1. walog'[k].id = walog[k].id /\ walog'[k].seq = walog[k].seq /\ walog'[k].synced
        BY <2>5, <3>5
      <4>2. writer'[x].id = writer[x].id
        BY <2>8, <3>3 DEF Led
      <4>3. Writes(writer[t].group)' = Writes(writer[t].group)
        BY <2>8 DEF Led
      <4> QED
        BY <1>1, <3>5, <4>1, <4>2, <4>3
    <3>7. LoggedFor(t, x)'
      BY <2>2, <2>6, <3>1, <3>5, <3>6 DEF LoggedFor
    <3> QED
      BY <2>2, <3>1, <3>2, <3>7
  <2> QED
    BY <1>1, <1>2, <2>4, <2>6, <2>7, <2>9, <2>10, MovedStep
<1>4. CASE Turns(t, "finish", "unsynced") /\ UNCHANGED walog
  <2>1. PICK v : v = [writer[t] EXCEPT !.pc = "finish", !.status = "unsynced"]
    OBVIOUS
  <2>2. /\ v \in WriterState /\ v.pc = "finish" /\ v.status = "unsynced"
        /\ v.id = writer[t].id /\ v.null = writer[t].null /\ v.sync = writer[t].sync
        /\ v.done = writer[t].done /\ v.group = writer[t].group
    BY <1>1, <2>1 DEF WriterState, Leading
  <2>3. writer' = [writer EXCEPT ![t] = v]
    BY <1>1, <1>4, <2>1 DEF Turns, Writers
  <2>4. Moved(t, v)
    BY <1>1, <2>2, <2>3 DEF Moved, Leading
  <2>5. Grown /\ DOMAIN walog' = DOMAIN walog
    BY <1>1, <1>4 DEF Grown
  <2>6. Led(t, v)
    BY <2>4, LedFacts
  <2>7. HasLogged(t)'
    BY <2>2, <2>6 DEF HasLogged, Led
  <2>8. GroupLogged'
    <3> SUFFICES ASSUME NEW u \in Thread, HasLogged(u)', NEW i \in 1..Len(writer'[u].group),
                        ~writer'[writer'[u].group[i]].null
                 PROVE  /\ LoggedFor(u, writer[u].group[i])'
                        /\ writer'[u].pc = "finish" /\ writer'[u].status = "ok" =>
                             writer'[writer'[u].group[i]].id \in applied'
      BY DEF GroupLogged
    <3>1. u = t /\ writer'[u] = v /\ v.group = writer[t].group
      BY <2>2, <2>6 DEF Led
    <3>2. PICK x : x = writer[t].group[i]
      OBVIOUS
    <3>3. x \in Thread /\ ~writer[x].null
      BY <2>6, <3>1, <3>2 DEF Led
    <3>4. LoggedFor(t, x)
      BY <1>2, <3>1, <3>2, <3>3 DEF QueueInv, GroupLogged
    <3>5. PICK k \in DOMAIN walog :
            /\ walog[k].id = writer[x].id /\ walog[k].seq > lastSeq
            /\ walog[k].seq <= lastSeq + Len(Writes(writer[t].group))
      BY <3>4 DEF LoggedFor
    <3>6. /\ walog'[k].id = writer'[x].id /\ walog'[k].seq > lastSeq'
          /\ walog'[k].seq <= lastSeq' + Len(Writes(writer[t].group)')
      <4>1. writer'[x].id = writer[x].id
        BY <2>6, <3>3 DEF Led
      <4>2. Writes(writer[t].group)' = Writes(writer[t].group)
        BY <2>6 DEF Led
      <4> QED
        BY <1>1, <1>4, <3>5, <4>1, <4>2
    <3>7. LoggedFor(t, x)'
      BY <1>4, <2>2, <3>1, <3>5, <3>6 DEF LoggedFor
    <3> QED
      BY <2>2, <3>1, <3>2, <3>7
  <2> QED
    BY <1>1, <1>2, <2>4, <2>5, <2>7, <2>8, MovedStep
<1> QED
  BY <1>3, <1>4 DEF SyncLog

\* A batch of the group is applied, or all are.
LEMMA ApplyBatchStep ==
  ASSUME QueueInv, NEW t \in Thread, ApplyBatch(t)
  PROVE  QueueInv'
<1>1. /\ writer[t].pc = "apply" /\ writer[t] \in WriterState /\ writer \in Writers
      /\ walog \in Seq(LogRecord)
      /\ queue' = queue /\ signalled' = signalled /\ walog' = walog /\ lastSeq' = lastSeq
      /\ room' = room /\ calls' = calls /\ answers' = answers
  BY DEF ApplyBatch, QueueInv, QueueTypeOK, Writers
<1>2. HasLogged(t) /\ writer[t].status = "ok"
  BY <1>1 DEF HasLogged, QueueInv, Grouped, Leading
<1>3. Grown /\ DOMAIN walog' = DOMAIN walog
  BY <1>1 DEF Grown
<1>4. PICK ws : ws = Writes(writer[t].group)
  OBVIOUS
<1>5. PICK left : left = {i \in DOMAIN ws : writer[ws[i]].id \notin applied}
  OBVIOUS
<1>6. IF left = {} THEN Turns(t, "finish", "ok") /\ UNCHANGED applied
      ELSE applied' = applied \cup {writer[ws[Min(left)]].id} /\ UNCHANGED writer
  BY <1>4, <1>5 DEF ApplyBatch
\* The group as it is logged, seen by the next state.
<1>7. ASSUME NEW v, Moved(t, v), v.pc \in {"apply", "finish"}, v.status = "ok", applied \subseteq applied',
             v.pc = "finish" => left = {}
      PROVE  HasLogged(t)' /\ GroupLogged'
  <2>1. Led(t, v)
    BY <1>7, LedFacts
  <2>2. HasLogged(t)'
    BY <1>7, <2>1 DEF HasLogged, Led
  <2>3. GroupLogged'
    <3> SUFFICES ASSUME NEW u \in Thread, HasLogged(u)', NEW i \in 1..Len(writer'[u].group),
                        ~writer'[writer'[u].group[i]].null
                 PROVE  /\ LoggedFor(u, writer[u].group[i])'
                        /\ writer'[u].pc = "finish" /\ writer'[u].status = "ok" =>
                             writer'[writer'[u].group[i]].id \in applied'
      BY DEF GroupLogged
    <3>1. u = t /\ writer'[u] = v /\ v.group = writer[t].group
      BY <1>7, <2>1 DEF Led, Moved
    <3>2. PICK x : x = writer[t].group[i]
      OBVIOUS
    <3>3. x \in Thread /\ ~writer[x].null
      BY <2>1, <3>1, <3>2 DEF Led
    <3>4. LoggedFor(t, x)
      BY <1>2, <3>1, <3>2, <3>3 DEF QueueInv, GroupLogged
    <3>5. PICK k \in DOMAIN walog :
            /\ walog[k].id = writer[x].id /\ walog[k].seq > lastSeq
            /\ walog[k].seq <= lastSeq + Len(Writes(writer[t].group))
            /\ writer[t].sync => walog[k].synced
      BY <1>1, <1>2, <3>4 DEF LoggedFor
    <3>6. /\ walog'[k].id = writer'[x].id /\ walog'[k].seq > lastSeq'
          /\ walog'[k].seq <= lastSeq' + Len(Writes(writer[t].group)')
          /\ v.sync => walog'[k].synced
      <4>1. writer'[x].id = writer[x].id /\ v.sync = writer[t].sync
        BY <1>7, <2>1, <3>3 DEF Led, Moved
      <4>2. Writes(writer[t].group)' = Writes(writer[t].group)
        BY <2>1 DEF Led
      <4> QED
        BY <1>1, <3>5, <4>1, <4>2
    <3>7. LoggedFor(t, x)'
      BY <1>1, <1>7, <3>1, <3>5, <3>6 DEF LoggedFor
    <3>8. ASSUME v.pc = "finish" PROVE writer'[x].id \in applied'
      <4>1. PICK g \in Seq(Thread) : g = writer[t].group /\ i \in 1..Len(g)
        BY <2>1, <3>1 DEF Led
      <4>2. PICK j \in 1..Len(ws) : ws[j] = x
        <5>1. WritesOf(ws, g)
          BY <1>4, <4>1, WritesFacts
        <5>2. g[i] = x
          BY <3>2, <4>1
        <5> QED
          BY <3>3, <4>1, <5>1, <5>2 DEF WritesOf
      <4>3. j \in DOMAIN ws
        BY <1>4, <4>1, WritesFacts DEF WritesOf
      <4>4. writer[x].id \in applied
        BY <1>5, <1>7, <3>8, <4>2, <4>3
      <4> QED
        BY <1>7, <2>1, <3>3, <4>4 DEF Led
    <3> QED
      BY <3>1, <3>2, <3>7, <3>8
  <2> QED
    BY <2>2, <2>3
<1>8. CASE left = {}
  <2>1. PICK v : v = [writer[t] EXCEPT !.pc = "finish", !.status = "ok"]
    OBVIOUS
  <2>2. /\ v \in WriterState /\ v.pc = "finish" /\ v.status = "ok"
        /\ v.id = writer[t].id /\ v.null = writer[t].null /\ v.sync = writer[t].sync
        /\ v.done = writer[t].done /\ v.group = writer[t].group
    BY <1>1, <2>1 DEF WriterState, Leading
  <2>3. writer' = [writer EXCEPT ![t] = v] /\ applied' = applied
    BY <1>1, <1>6, <1>8, <2>1 DEF Turns, Writers
  <2>4. Moved(t, v)
    BY <1>1, <2>2, <2>3 DEF Moved, Leading
  <2> QED
    BY <1>2, <1>3, <1>7, <1>8, <2>2, <2>3, <2>4, MovedStep
<1>9. CASE left # {}
  <2>1. PICK v : v = writer[t]
    OBVIOUS
  <2>2. writer' = [writer EXCEPT ![t] = v] /\ applied \subseteq applied'
    BY <1>1, <1>6, <1>9, <2>1 DEF Writers
  <2>3. Moved(t, v)
    BY <1>1, <1>2, <2>1, <2>2 DEF Moved, Leading
  <2> QED
    BY <1>1, <1>2, <1>3, <1>7, <2>1, <2>2, <2>3, MovedStep
<1> QED
  BY <1>8, <1>9

\* The group is logged, or that fails.
LEMMA LogGroupStep ==
  ASSUME QueueInv, NEW t \in Thread, LogGroup(t)
  PROVE  QueueInv'
<1>1. /\ writer[t].pc = "log" /\ writer[t] \in WriterState /\ writer \in Writers
      /\ walog \in Seq(LogRecord) /\ lastSeq \in Nat /\ \A i \in DOMAIN walog : walog[i] \in LogRecord
      /\ queue' = queue /\ signalled' = signalled /\ applied' = applied /\ lastSeq' = lastSeq
      /\ room' = room /\ calls' = calls /\ answers' = answers
      /\ queue \in Seq(Thread) /\ DOMAIN queue = 1..Len(queue)
  BY DEF LogGroup, QueueInv, QueueTypeOK, Writers
<1>2. PICK ws : ws = Writes(writer[t].group)
  OBVIOUS
<1>3. \/ /\ walog' = walog \o [i \in DOMAIN ws |->
              [id |-> writer[ws[i]].id, seq |-> lastSeq + i, synced |-> FALSE, current |-> TRUE]]
         /\ Turns(t, IF writer[t].sync THEN "sync" ELSE "apply", "ok")
      \/ Turns(t, "finish", "failed") /\ walog' = walog
  BY <1>2 DEF LogGroup
<1>4. ~HasLogged(t)
  BY <1>1 DEF HasLogged
<1>5. CASE Turns(t, "finish", "failed") /\ walog' = walog
  <2>1. PICK v : v = [writer[t] EXCEPT !.pc = "finish", !.status = "failed"]
    OBVIOUS
  <2>2. /\ v \in WriterState /\ v.pc = "finish" /\ v.status = "failed"
        /\ v.id = writer[t].id /\ v.null = writer[t].null /\ v.sync = writer[t].sync
        /\ v.done = writer[t].done /\ v.group = writer[t].group
    BY <1>1, <2>1 DEF WriterState, Leading
  <2>3. writer' = [writer EXCEPT ![t] = v]
    BY <1>1, <1>5, <2>1 DEF Turns, Writers
  <2>4. Moved(t, v)
    BY <1>1, <2>2, <2>3 DEF Moved, Leading
  <2>5. Led(t, v)
    BY <2>4, LedFacts
  <2>6. \A u \in Thread : ~HasLogged(u)'
    BY <2>2, <2>5 DEF HasLogged, Led
  <2>7. GroupLogged'
    BY <2>6 DEF GroupLogged
  <2>8. Grown /\ DOMAIN walog' = DOMAIN walog
    BY <1>1, <1>5 DEF Grown
  <2>9. applied \subseteq applied' /\ (HasLogged(t)' <=> HasLogged(t))
    BY <1>1, <1>4, <2>6
  <2> QED
    BY <2>4, <2>7, <2>8, <2>9, MovedStep
<1>6. CASE /\ walog' = walog \o [i \in DOMAIN ws |->
                [id |-> writer[ws[i]].id, seq |-> lastSeq + i, synced |-> FALSE, current |-> TRUE]]
           /\ Turns(t, IF writer[t].sync THEN "sync" ELSE "apply", "ok")
  <2>1. PICK v : v = [writer[t] EXCEPT !.pc = IF writer[t].sync THEN "sync" ELSE "apply", !.status = "ok"]
    OBVIOUS
  <2>2. /\ v \in WriterState /\ v.status = "ok" /\ v.pc \in {"sync", "apply"}
        /\ (v.pc # "sync" => ~v.sync)
        /\ v.id = writer[t].id /\ v.null = writer[t].null /\ v.sync = writer[t].sync
        /\ v.done = writer[t].done /\ v.group = writer[t].group
    <3>1. CASE writer[t].sync
      BY <1>1, <2>1, <3>1 DEF WriterState, Leading
    <3>2. CASE ~writer[t].sync
      BY <1>1, <2>1, <3>2 DEF WriterState, Leading
    <3> QED
      BY <3>1, <3>2
  <2>3. writer' = [writer EXCEPT ![t] = v]
    BY <1>1, <1>6, <2>1 DEF Turns, Writers
  <2>4. Moved(t, v)
    BY <1>1, <2>2, <2>3 DEF Moved, Leading
  <2>5. Led(t, v)
    BY <2>4, LedFacts
  <2>6. PICK g \in Seq(Thread) : g = writer[t].group
    BY <2>5 DEF Led
  <2>7. /\ t = queue[1] /\ Len(g) \in 1..Len(queue) /\ Len(queue) \in Nat
        /\ \A i \in 1..Len(g) : g[i] = queue[i] /\ queue[i] \in Thread
        /\ \A u \in Thread : u # t => ~HasLogged(u) /\ ~HasLogged(u)'
        /\ \A u \in Thread : /\ writer'[u].id = writer[u].id /\ writer'[u].null = writer[u].null
                             /\ writer'[u].sync = writer[u].sync /\ writer'[u].done = writer[u].done
                             /\ writer'[u].group = writer[u].group
                             /\ (writer'[u].pc # "out" <=> writer[u].pc # "out")
        /\ writer' \in Writers /\ writer'[t] = v /\ \A u \in Thread : u # t => writer'[u] = writer[u]
    BY <2>5, <2>6 DEF Led
  <2>8. PICK n \in Nat, m \in Nat : n = Len(walog) /\ m = Len(ws)
    BY <1>1, <1>2, <2>6, WritesFacts DEF WritesOf
  <2>9. /\ ws \in Seq(Thread) /\ DOMAIN ws = 1..m
        /\ \A i \in 1..Len(g) : ~writer[g[i]].null => \E j \in 1..m : ws[j] = g[i]
        /\ \A j \in 1..m : \E i \in 1..Len(g) : ws[j] = g[i] /\ ~writer[g[i]].null
        /\ \A j, k \in 1..m : j < k => \E i, h \in 1..Len(g) : i < h /\ ws[j] = g[i] /\ ws[k] = g[h]
    <3>1. WritesOf(ws, g)
      BY <1>2, <2>6, WritesFacts
    <3> QED
      BY <2>8, <3>1 DEF WritesOf
  <2>10. PICK new : new = [i \in 1..m |-> [id |-> writer[ws[i]].id, seq |-> lastSeq + i,
                                           synced |-> FALSE, current |-> TRUE]]
    OBVIOUS
  <2>11. walog' = walog \o new
    BY <1>6, <2>9, <2>10
  <2>12. \A j \in 1..m : /\ new[j] \in LogRecord /\ new[j].id = writer[ws[j]].id
                         /\ new[j].seq = lastSeq + j /\ new[j].current /\ ~new[j].synced
                         /\ ws[j] \in Thread
    <3>1. \A j \in 1..m : ws[j] \in Thread /\ writer[ws[j]].id \in Nat /\ lastSeq + j \in Nat
      <4>1. \A j \in 1..m : ws[j] \in Thread /\ lastSeq + j \in Nat
        BY <1>1, <2>9
      <4>2. \A u \in Thread : writer[u].id \in Nat
        BY <1>1 DEF Writers, WriterState
      <4> QED
        BY <4>1, <4>2
    <3> QED
      BY <2>10, <3>1 DEF LogRecord
  <2>13. new \in Seq(LogRecord) /\ Len(new) = m
    BY SMTT(30), <2>10, <2>12
  <2>14. /\ walog' \in Seq(LogRecord) /\ Len(walog') = n + m /\ DOMAIN walog' = 1..n + m
         /\ DOMAIN walog = 1..n
         /\ \A i \in 1..n : walog'[i] = walog[i]
         /\ \A j \in 1..m : n + j \in 1..n + m /\ walog'[n + j] = new[j]
    <3>1. Len(walog \o new) = n + m /\ walog \o new \in Seq(LogRecord)
      <4>1. walog \in Seq(LogRecord) /\ new \in Seq(LogRecord)
        BY <1>1, <2>13
      <4>2. Len(walog \o new) = Len(walog) + Len(new)
        BY <4>1
      <4>3. walog \o new \in Seq(LogRecord)
        BY <4>1
      <4> QED
        BY <2>8, <2>13, <4>2, <4>3
    <3>2. DOMAIN walog' = 1..n + m /\ DOMAIN walog = 1..n
      BY <1>1, <2>8, <2>11, <3>1
    <3>3. \A i \in 1..n : walog'[i] = walog[i]
      BY <1>1, <2>8, <2>11, <2>13
    <3>4. \A j \in 1..m : n + j \in 1..n + m /\ walog'[n + j] = new[j]
      BY <1>1, <2>8, <2>11, <2>13
    <3> QED
      BY <2>11, <3>1, <3>2, <3>3, <3>4
  <2>15. \A i \in 1..n + m : i \in 1..n \/ \E j \in 1..m : i = n + j
    <3>1. ASSUME NEW i \in 1..n + m, i \notin 1..n PROVE i - n \in 1..m /\ i = n + (i - n)
      BY <2>8, <3>1
    <3> QED
      BY <3>1
  <2>16. Grown
    BY <2>8, <2>14 DEF Grown
  <2>17. HasLogged(t)' /\ HasLogged(queue[1])'
    <3>1. HasLogged(t)'
      BY <2>2, <2>7 DEF HasLogged
    <3> QED
      BY <1>1, <2>7, <3>1
  <2>18. Len(Writes(writer[t].group)') = m
    BY <1>2, <2>5, <2>8 DEF Led
  <2>19. \A i \in 1..n : walog[i].seq <= lastSeq /\ walog[i].seq \in Nat /\ walog[i].id \in Nat
                         /\ \A j \in DOMAIN queue : walog[i].id < writer[queue[j]].id
    <3>1. \A u \in Thread : ~HasLogged(u)
      BY <1>4, <2>7
    <3>2. \A i \in 1..n : walog[i] \in LogRecord
      BY <1>1, <2>14
    <3> QED
      BY <2>14, <3>1, <3>2, NoneLogged DEF LogRecord
  <2>20. \A j \in 1..m : \E i \in DOMAIN queue : ws[j] = queue[i] /\ i <= Len(g) /\ ~writer[queue[i]].null
    <3>1. \A i \in 1..Len(g) : i \in DOMAIN queue /\ i <= Len(g) /\ g[i] = queue[i]
      BY <1>1, <2>7
    <3>2. ASSUME NEW j \in 1..m
          PROVE  \E i \in DOMAIN queue : ws[j] = queue[i] /\ i <= Len(g) /\ ~writer[queue[i]].null
      <4>1. PICK i \in 1..Len(g) : ws[j] = g[i] /\ ~writer[g[i]].null
        BY <2>9
      <4> QED
        BY <3>1, <4>1
    <3> QED
      BY <3>2
  <2>21. \A j \in 1..m : writer[ws[j]].pc # "out" /\ ~writer[ws[j]].null /\ writer[ws[j]].id <= calls
    <3>1. \A i \in DOMAIN queue : queue[i] \in Thread
      BY <1>1
    <3> QED
      BY <2>20, <3>1 DEF QueueInv, InLine, Counted
  <2>22. QueueTypeOK'
    BY <1>1, <2>7, <2>14 DEF QueueInv, QueueTypeOK
  <2>23. InLine(writer, queue)' /\ Grouped' /\ NobodyForgotten'
    BY <2>5 DEF Led
  <2>24. Counted(writer, calls)'
    <3>1. ASSUME NEW i \in 1..n + m PROVE walog'[i].id <= calls
      <4>1. CASE i \in 1..n
        BY <2>14, <4>1 DEF QueueInv, Counted
      <4>2. ASSUME NEW j \in 1..m, i = n + j PROVE walog'[i].id <= calls
        <5>1. walog'[i] = new[j]
          BY <2>14, <4>2
        <5> QED
          BY <2>12, <2>21, <5>1
      <4> QED
        BY <2>15, <4>1, <4>2
    <3> QED
      BY SMTT(30), <1>1, <2>7, <2>14, <3>1 DEF QueueInv, Counted
  <2>25. NoneNull(writer)'
    <3> SUFFICES ASSUME NEW i \in 1..n + m
                 PROVE  /\ \A a \in answers : a.null => walog'[i].id # a.id
                        /\ \A u \in Thread : writer'[u].pc # "out" /\ writer'[u].null =>
                             walog'[i].id # writer'[u].id
      BY <1>1, <2>14 DEF NoneNull
    <3>1. CASE i \in 1..n
      <4>1. walog'[i] = walog[i] /\ i \in DOMAIN walog
        BY <2>14, <3>1
      <4> QED
        BY <2>7, <4>1 DEF QueueInv, NoneNull
    <3>2. ASSUME NEW j \in 1..m, i = n + j
          PROVE  /\ \A a \in answers : a.null => walog'[i].id # a.id
                 /\ \A u \in Thread : writer'[u].pc # "out" /\ writer'[u].null =>
                      walog'[i].id # writer'[u].id
      <4>1. walog'[i].id = writer[ws[j]].id /\ ws[j] \in Thread
        BY <2>12, <2>14, <3>2
      <4>2. \A a \in answers : walog'[i].id # a.id
        BY <2>21, <4>1 DEF QueueInv, Counted
      <4>3. \A u \in Thread : writer[u].pc # "out" /\ writer[u].null => writer[u].id # writer[ws[j]].id
        BY <2>21, <4>1 DEF QueueInv, Counted
      <4> QED
        BY <2>7, <4>1, <4>2, <4>3
    <3> QED
      BY <2>15, <3>1, <3>2
  <2>26. GroupLogged'
    <3> SUFFICES ASSUME NEW u \in Thread, HasLogged(u)', NEW i \in 1..Len(writer'[u].group),
                        ~writer'[writer'[u].group[i]].null
                 PROVE  /\ LoggedFor(u, writer[u].group[i])'
                        /\ writer'[u].pc = "finish" /\ writer'[u].status = "ok" =>
                             writer'[writer'[u].group[i]].id \in applied'
      BY DEF GroupLogged
    <3>1. u = t /\ writer'[u] = v /\ v.group = g /\ i \in 1..Len(g)
      BY <2>2, <2>6, <2>7
    <3>2. PICK x : x = g[i]
      OBVIOUS
    <3>3. x \in Thread /\ ~writer[x].null
      BY <2>7, <3>1, <3>2
    <3>4. PICK j \in 1..m : ws[j] = x
      BY <2>9, <3>1, <3>2, <3>3
    <3>5. PICK k : k = n + j
      OBVIOUS
    <3>6. /\ k \in DOMAIN walog' /\ walog'[k].id = writer'[x].id /\ walog'[k].seq = lastSeq + j
          /\ walog'[k].current
      <4>1. k \in DOMAIN walog' /\ walog'[k] = new[j]
        BY <2>14, <3>4, <3>5
      <4>2. writer'[x].id = writer[x].id
        BY <2>7, <3>3
      <4> QED
        BY <2>12, <3>4, <4>1, <4>2
    <3>7. walog'[k].seq > lastSeq' /\ walog'[k].seq <= lastSeq' + Len(Writes(writer[t].group)')
      BY <1>1, <2>18, <3>4, <3>6
    <3>8. LoggedFor(t, x)'
      BY <2>2, <3>1, <3>6, <3>7 DEF LoggedFor
    <3> QED
      BY <2>2, <3>1, <3>2, <3>8
  <2>27. Behind'
    <3> SUFFICES ASSUME NEW i \in 1..n + m
                 PROVE  /\ \A j \in DOMAIN queue :
                             \/ walog'[i].id < writer'[queue[j]].id
                             \/ j <= Len(writer'[queue[1]].group)
                        /\ walog'[i].seq <= lastSeq' + Len(Writes(writer[t].group)')
      BY <1>1, <2>14, <2>17 DEF Behind
    <3>1. CASE i \in 1..n
      <4>1. \A j \in DOMAIN queue : writer'[queue[j]].id = writer[queue[j]].id
        BY <1>1, <2>7
      <4> QED
        BY SMTT(30), <1>1, <2>8, <2>14, <2>18, <2>19, <3>1, <4>1
    <3>2. ASSUME NEW j \in 1..m, i = n + j
          PROVE  /\ \A h \in DOMAIN queue :
                      \/ walog'[i].id < writer'[queue[h]].id
                      \/ h <= Len(writer'[queue[1]].group)
                 /\ walog'[i].seq <= lastSeq' + Len(Writes(writer[t].group)')
      <4>1. walog'[i].id = writer[ws[j]].id /\ walog'[i].seq = lastSeq + j
        BY <2>12, <2>14, <3>2
      <4>2. walog'[i].seq <= lastSeq' + Len(Writes(writer[t].group)')
        BY <1>1, <2>8, <2>18, <4>1
      <4>3. ASSUME NEW h \in DOMAIN queue, ~(h <= Len(writer'[queue[1]].group))
            PROVE  walog'[i].id < writer'[queue[h]].id
        <5>1. Len(writer'[queue[1]].group) = Len(g) /\ Len(g) \in Nat /\ h > Len(g)
          BY SMTT(30), <1>1, <2>2, <2>6, <2>7, <4>3
        <5>2. PICK f \in DOMAIN queue : ws[j] = queue[f] /\ f <= Len(g)
          BY <2>20
        <5>3. writer[queue[f]].id < writer[queue[h]].id
          <6>1. \A a, b \in DOMAIN queue : a < b => writer[queue[a]].id < writer[queue[b]].id
            BY <1>1 DEF QueueInv, InLine
          <6>2. f \in Nat /\ h \in Nat /\ f < h
            BY <1>1, <5>1, <5>2
          <6> QED
            BY <4>3, <5>2, <6>1, <6>2
        <5>4. queue[h] \in Thread
          BY <1>1
        <5> QED
          BY <2>7, <4>1, <5>2, <5>3, <5>4
      <4> QED
        BY <4>2, <4>3
    <3> QED
      BY <2>15, <3>1, <3>2
  <2>28. Ordered'
    <3> SUFFICES ASSUME NEW i \in 1..n + m, NEW k \in 1..n + m, i < k
                 PROVE  walog'[i].id < walog'[k].id /\ walog'[i].seq < walog'[k].seq
      BY <2>14 DEF Ordered
    <3>1. CASE i \in 1..n /\ k \in 1..n
      BY <2>14, <3>1 DEF QueueInv, Ordered
    <3>2. ASSUME i \in 1..n, NEW j \in 1..m, k = n + j
          PROVE  walog'[i].id < walog'[k].id /\ walog'[i].seq < walog'[k].seq
      <4>1. PICK h \in DOMAIN queue : ws[j] = queue[h]
        BY <2>20
      <4>2. walog'[i] = walog[i] /\ walog'[k] = new[j]
        BY <2>14, <3>2
      <4>3. walog[i].id < writer[queue[h]].id /\ walog[i].seq <= lastSeq /\ walog[i].seq \in Nat
        BY <2>19, <3>2, <4>1
      <4> QED
        BY SMTT(30), <1>1, <2>12, <4>1, <4>2, <4>3
    <3>3. ASSUME NEW j \in 1..m, NEW h \in 1..m, i = n + j, k = n + h
          PROVE  walog'[i].id < walog'[k].id /\ walog'[i].seq < walog'[k].seq
      <4>1. j < h
        BY <2>8, <3>3
      <4>2. PICK a \in 1..Len(g), b \in 1..Len(g) : a < b /\ ws[j] = g[a] /\ ws[h] = g[b]
        BY <2>9, <4>1
      <4>3. a \in DOMAIN queue /\ b \in DOMAIN queue /\ g[a] = queue[a] /\ g[b] = queue[b]
        BY <1>1, <2>7, <4>2
      <4>4. writer[ws[j]].id < writer[ws[h]].id
        BY <4>2, <4>3 DEF QueueInv, InLine
      <4>5. walog'[i] = new[j] /\ walog'[k] = new[h]
        BY <2>14, <3>3
      <4> QED
        BY <1>1, <2>12, <4>1, <4>4, <4>5
    <3>4. ASSUME i \notin 1..n, k \in 1..n PROVE FALSE
      BY <2>8, <3>4
    <3> QED
      BY <2>15, <3>1, <3>2, <3>3, <3>4
  <2>29. \A id, sync : Kept(id, sync) => Kept(id, sync)'
    <3>1. lastSeq' \in Nat /\ lastSeq <= lastSeq' /\ applied \subseteq applied'
      BY <1>1
    <3> QED
      BY <1>1, <2>16, <3>1, KeptStays
  <2>30. Promised(writer)'
    <3> SUFFICES ASSUME NEW u \in Thread, writer'[u].done, writer'[u].status = "ok", ~writer'[u].null
                 PROVE  Kept(writer[u].id, writer[u].sync)'
      BY DEF Promised
    <3>1. PICK id, sync : id = writer[u].id /\ sync = writer[u].sync
      OBVIOUS
    <3>2. u # t
      BY <2>7, <1>1, OnlyFrontWorks
    <3>3. Kept(id, sync)'
      BY <2>7, <2>29, <3>1, <3>2 DEF QueueInv, Promised
    <3> QED
      BY <2>7, <3>1, <3>3
  <2>31. Acknowledged'
    <3> SUFFICES ASSUME NEW b \in answers', b.ok, ~b.null PROVE Kept(b.id, b.sync)'
      BY DEF Acknowledged
    <3>1. Kept(b.id, b.sync)
      BY <1>1 DEF QueueInv, Acknowledged
    <3> QED
      BY <1>1, <2>16, <3>1, KeptStays
  <2>32. Busy'
    BY <1>1 DEF QueueInv, Busy
  <2> QED
    BY <2>22, <2>23, <2>24, <2>25, <2>26, <2>27, <2>28, <2>30, <2>31, <2>32 DEF QueueInv
<1> QED
  BY <1>3, <1>5, <1>6

\* The group is answered.
LEMMA FinishGroupStep ==
  ASSUME QueueInv, NEW t \in Thread, FinishGroup(t)
  PROVE  QueueInv'
<1>1. /\ writer[t].pc = "finish" /\ writer[t] \in WriterState /\ writer \in Writers
      /\ walog \in Seq(LogRecord) /\ \A i \in DOMAIN walog : walog[i] \in LogRecord
      /\ lastSeq \in Nat /\ calls \in Nat /\ room \in RoomState
      /\ queue \in Seq(Thread) /\ DOMAIN queue = 1..Len(queue) /\ Len(queue) \in Nat
      /\ signalled \subseteq Thread /\ answers \subseteq AnswerState
      /\ walog' = walog /\ applied' = applied /\ calls' = calls
  BY DEF FinishGroup, QueueInv, QueueTypeOK, Writers
<1>2. PICK g, ok : g = writer[t].group /\ ok = (writer[t].status = "ok")
  OBVIOUS
<1>3. ok \in BOOLEAN
  BY <1>2
<1>4. Answered(writer, queue, g, ok)
  BY <1>2 DEF FinishGroup
<1>5. t = queue[1] /\ queue # << >> /\ DoneSignalled(writer)
      /\ \A u \in Thread : u # t => writer[u].pc \in {"out", "asleep"}
  BY <1>1, OnlyFrontWorks
<1>6. g \in Seq(Thread) /\ Len(g) \in 1..Len(queue) /\ Len(g) \in Nat
      /\ \A i \in 1..Len(g) : g[i] = queue[i] /\ queue[i] \in Thread /\ (writer[queue[i]].sync => writer[t].sync)
  <2>1. g \in Seq(Thread)
    BY <1>1, <1>2 DEF WriterState
  <2>2. Len(g) \in 1..Len(queue)
        /\ \A i \in 1..Len(g) : g[i] = queue[i] /\ (writer[queue[i]].sync => writer[t].sync)
    BY <1>1, <1>2 DEF QueueInv, Grouped, Leading
  <2>3. \A i \in 1..Len(g) : queue[i] \in Thread
    BY <1>1, <2>2
  <2> QED
    BY <2>1, <2>2, <2>3
<1>7. ~writer[t].null
  BY <1>1 DEF QueueInv, Grouped, Leading
<1>8. Shorter(writer, queue, g, ok)
  <2>1. InLine(writer, queue) /\ Counted(writer, calls') /\ NoneNull(writer)
    BY <1>1 DEF QueueInv
  <2>2. AtFront(writer, queue, g)
    BY <1>1, <1>5, <1>6, <2>1 DEF AtFront
  <2> QED
    BY <1>1, <1>3, <1>4, <2>2, AnsweredLine
<1>9. /\ queue' \in Seq(Thread) /\ writer' \in Writers /\ signalled' \subseteq Thread
      /\ answers' \subseteq AnswerState
      /\ InLine(writer, queue)' /\ Counted(writer, calls)' /\ NoneNull(writer)'
      /\ \A u \in Thread : writer'[u].pc \in {"out", "asleep"}
      /\ \A u \in Thread : writer'[u].pc = "asleep" /\ (writer'[u].done \/ queue'[1] = u) =>
           u \in signalled'
      /\ \A j \in DOMAIN queue' :
           /\ j + Len(g) \in DOMAIN queue /\ queue'[j] = queue[j + Len(g)]
           /\ writer'[queue'[j]] = writer[queue'[j]]
      /\ \A u \in Thread : writer'[u].done =>
           \/ writer'[u] = writer[u] /\ writer[u].done
           \/ \E i \in 1..Len(g) : u = g[i] /\ writer'[u] = AsDone(writer[u], ok)
      /\ answers' = answers \cup
           {[id |-> writer[t].id, null |-> writer[t].null, sync |-> writer[t].sync, ok |-> ok]}
  BY <1>5, <1>8 DEF Shorter
<1>10. PICK n \in Nat : n = Len(Writes(g)) /\ lastSeq' = lastSeq + n
  <2>1. Len(Writes(g)) \in Nat /\ lastSeq' = lastSeq + Len(Writes(g))
    BY <1>2, <1>6, WritesFacts DEF WritesOf, FinishGroup
  <2> QED
    BY <2>1
<1>11. room' \in RoomState /\ Busy'
  <2>1. PICK full \in BOOLEAN, error \in BOOLEAN :
          room' = [room EXCEPT !.full = full, !.error = error] /\ (room.error => error)
    <3>1. PICK full \in {room.full, TRUE} :
            room' = [room EXCEPT !.full = full, !.error = @ \/ writer[t].status = "unsynced"]
      BY DEF FinishGroup
    <3>2. PICK error : error = (room.error \/ writer[t].status = "unsynced") /\ error \in BOOLEAN
      OBVIOUS
    <3>3. full \in BOOLEAN
      BY <1>1 DEF RoomState
    <3> QED
      BY <3>1, <3>2, <3>3
  <2>2. /\ room' \in RoomState /\ room'.imm = room.imm /\ room'.level0 = room.level0
        /\ room'.scheduled = room.scheduled /\ (room.error => room'.error)
    BY <1>1, <2>1 DEF RoomState
  <2> QED
    BY <2>2 DEF QueueInv, Busy
<1>12. QueueTypeOK'
  BY <1>1, <1>9, <1>10, <1>11 DEF QueueTypeOK
<1>13. Grouped' /\ GroupLogged' /\ \A u \in Thread : ~HasLogged(u)'
  BY <1>9 DEF Grouped, GroupLogged, HasLogged, Leading
<1>14. \A u \in Thread : HasLogged(u) => u = t
  BY <1>5 DEF HasLogged
<1>15. \A i \in DOMAIN walog : walog[i].seq \in Nat
  BY <1>1 DEF LogRecord
<1>16. Behind'
  <2>1. ASSUME NEW i \in DOMAIN walog PROVE walog[i].seq <= lastSeq'
    <3>1. CASE walog[i].seq <= lastSeq
      BY <1>1, <1>10, <1>15, <3>1
    <3>2. CASE ~(walog[i].seq <= lastSeq)
      <4>1. PICK u \in Thread : HasLogged(u) /\ walog[i].seq <= lastSeq + Len(Writes(writer[u].group))
        BY <3>2 DEF QueueInv, Behind
      <4> QED
        BY <1>2, <1>10, <1>14, <4>1
    <3> QED
      BY <3>1, <3>2
  <2>2. ASSUME NEW i \in DOMAIN walog, NEW j \in DOMAIN queue'
        PROVE  walog[i].id < writer'[queue'[j]].id
    <3>1. PICK k \in DOMAIN queue : k = j + Len(g) /\ queue'[j] = queue[k] /\ writer'[queue'[j]] = writer[queue[k]]
      BY <1>9
    <3>2. j \in Nat /\ j >= 1
      BY <1>9
    <3>3. ~(k <= Len(g))
      BY <1>6, <3>1, <3>2
    <3>4. walog[i].id < writer[queue[k]].id
      BY <1>2, <1>5, <3>3 DEF QueueInv, Behind
    <3> QED
      BY <3>1, <3>4
  <2> QED
    BY <1>1, <2>1, <2>2 DEF Behind
\* What the leader may promise.
<1>17. ASSUME ok, NEW i \in 1..Len(g), ~writer[g[i]].null, NEW sync, sync => writer[t].sync,
              NEW id, id = writer[g[i]].id
       PROVE  Kept(id, sync)'
  <2>1. HasLogged(t) /\ writer[t].status = "ok"
    BY <1>1, <1>2, <1>17 DEF HasLogged
  <2>2. LoggedFor(t, g[i]) /\ writer[g[i]].id \in applied
    BY <1>1, <1>2, <1>17, <2>1 DEF QueueInv, GroupLogged
  <2>3. PICK k \in DOMAIN walog :
          /\ walog[k].id = id /\ walog[k].seq <= lastSeq + Len(Writes(writer[t].group))
          /\ writer[t].sync => walog[k].synced
    BY <1>1, <1>17, <2>1, <2>2 DEF LoggedFor
  <2> QED
    BY <1>1, <1>2, <1>10, <1>17, <2>2, <2>3 DEF Kept
<1>18. \A id, sync : Kept(id, sync) => Kept(id, sync)'
  <2>1. lastSeq' \in Nat /\ lastSeq <= lastSeq' /\ applied \subseteq applied' /\ Grown
    BY <1>1, <1>10 DEF Grown
  <2> QED
    BY <1>1, <2>1, KeptStays
<1>19. Promised(writer)'
  <2> SUFFICES ASSUME NEW u \in Thread, writer'[u].done, writer'[u].status = "ok", ~writer'[u].null
               PROVE  Kept(writer[u].id, writer[u].sync)'
    BY DEF Promised
  <2>1. CASE writer'[u] = writer[u] /\ writer[u].done
    <3>1. PICK id, sync : id = writer[u].id /\ sync = writer[u].sync
      OBVIOUS
    <3>2. Kept(id, sync)'
      BY <1>18, <2>1, <3>1 DEF QueueInv, Promised
    <3> QED
      BY <2>1, <3>1, <3>2
  <2>2. ASSUME NEW i \in 1..Len(g), u = g[i], writer'[u] = AsDone(writer[u], ok)
        PROVE  Kept(writer[u].id, writer[u].sync)'
    <3>1. PICK id, sync : id = writer[u].id /\ sync = writer[u].sync
      OBVIOUS
    <3>2. writer[u] \in WriterState
      BY <1>1 DEF Writers
    <3>3. ok /\ ~writer[u].null /\ writer'[u].id = id /\ writer'[u].sync = sync
      BY <1>3, <2>2, <3>1, <3>2, AsDoneFacts
    <3>4. sync => writer[t].sync
      BY <1>6, <2>2, <3>1
    <3>5. Kept(id, sync)'
      BY <1>17, <2>2, <3>1, <3>3, <3>4
    <3> QED
      BY <3>3, <3>5
  <2> QED
    BY <1>9, <2>1, <2>2
<1>20. Acknowledged'
  <2> SUFFICES ASSUME NEW b \in answers', b.ok, ~b.null PROVE Kept(b.id, b.sync)'
    BY DEF Acknowledged
  <2>1. PICK id, sync : id = b.id /\ sync = b.sync
    OBVIOUS
  <2>2. CASE b \in answers
    BY <1>18, <2>1, <2>2 DEF QueueInv, Acknowledged
  <2>3. CASE b.id = writer[t].id /\ b.sync = writer[t].sync /\ b.ok = ok
    <3>1. 1 \in 1..Len(g) /\ g[1] = t
      BY <1>5, <1>6
    <3>2. Kept(id, sync)'
      BY <1>7, <1>17, <2>1, <2>3, <3>1
    <3> QED
      BY <2>1, <3>2
  <2>4. PICK c : c = [id |-> writer[t].id, null |-> writer[t].null, sync |-> writer[t].sync, ok |-> ok]
    OBVIOUS
  <2>5. c.id = writer[t].id /\ c.sync = writer[t].sync /\ c.ok = ok
    BY <2>4
  <2>6. b \in answers \/ b = c
    BY <1>9, <2>4
  <2> QED
    BY <2>2, <2>3, <2>5, <2>6
<1>21. Ordered'
  BY <1>1 DEF QueueInv, Ordered
<1>22. NobodyForgotten'
  BY <1>9 DEF NobodyForgotten
<1> QED
  BY <1>9, <1>11, <1>12, <1>13, <1>16, <1>19, <1>20, <1>21, <1>22 DEF QueueInv

\* The background thread has worked, or failed, and wakes who waits for it.
LEMMA BackgroundStep ==
  ASSUME QueueInv, Background
  PROVE  QueueInv'
<1>1. /\ queue' = queue /\ writer' = writer /\ walog' = walog /\ applied' = applied
      /\ lastSeq' = lastSeq /\ calls' = calls /\ answers' = answers
      /\ signalled' = signalled \cup {t \in Thread : writer[t].pc = "bgwait"}
      /\ room \in RoomState
  BY DEF Background, QueueInv, QueueTypeOK
<1>2. room' \in RoomState /\ Busy'
  <2>1. PICK r : /\ \/ room.imm /\ \E n \in {0, 1} : r = [room EXCEPT !.imm = FALSE, !.level0 = @ + n]
                    \/ r = [room EXCEPT !.level0 = 0]
                    \/ r = [room EXCEPT !.error = TRUE]
                 /\ room' = Scheduled([r EXCEPT !.scheduled = FALSE])
    BY DEF Background
  <2>2. r \in RoomState
    <3>1. ASSUME NEW n \in {0, 1}, r = [room EXCEPT !.imm = FALSE, !.level0 = @ + n]
          PROVE  r \in RoomState
      <4>1. room.level0 + n \in Nat
        BY <1>1, <3>1 DEF RoomState
      <4> QED
        BY <1>1, <3>1, <4>1 DEF RoomState
    <3>2. CASE r = [room EXCEPT !.level0 = 0]
      BY <1>1, <3>2 DEF RoomState
    <3>3. CASE r = [room EXCEPT !.error = TRUE]
      BY <1>1, <3>3 DEF RoomState
    <3> QED
      BY <2>1, <3>1, <3>2, <3>3
  <2>3. PICK s : s = [r EXCEPT !.scheduled = FALSE]
    OBVIOUS
  <2>4. s \in RoomState
    BY <2>2, <2>3 DEF RoomState
  <2> QED
    BY <2>1, <2>3, <2>4, ScheduledFacts DEF Busy
<1>3. QueueTypeOK'
  BY <1>1, <1>2 DEF QueueInv, QueueTypeOK
<1>4. InLine(writer, queue)' /\ Counted(writer, calls)' /\ NoneNull(writer)'
  BY <1>1 DEF QueueInv, InLine, Counted, NoneNull
<1>5. Grouped'
  BY <1>1 DEF QueueInv, Grouped
<1>6. \A g : Writes(g)' = Writes(g)
  BY <1>1 DEF Writes
<1>7. \A u \in Thread : HasLogged(u)' <=> HasLogged(u)
  BY <1>1 DEF HasLogged
<1>8. GroupLogged'
  <2>1. \A u, v \in Thread : LoggedFor(u, v)' <=> LoggedFor(u, v)
    BY <1>1, <1>6 DEF LoggedFor
  <2>2. \A u \in Thread : writer[u].group \in Seq(Thread)
    BY DEF QueueInv, QueueTypeOK, Writers, WriterState
  <2> QED
    BY <1>1, <1>7, <2>1, <2>2 DEF QueueInv, GroupLogged
<1>9. Behind'
  BY <1>1, <1>6, <1>7 DEF QueueInv, Behind, HasLogged
<1>10. Ordered' /\ Promised(writer)' /\ Acknowledged'
  BY <1>1 DEF QueueInv, Ordered, Promised, Acknowledged, Kept
<1>11. NobodyForgotten'
  BY <1>1 DEF QueueInv, NobodyForgotten
<1> QED
  BY <1>2, <1>3, <1>4, <1>5, <1>8, <1>9, <1>10, <1>11 DEF QueueInv

\* A step that changes nothing.
LEMMA QueueStutter ==
  ASSUME QueueInv, UNCHANGED queueVars
  PROVE  QueueInv'
<1>1. /\ queue' = queue /\ writer' = writer /\ walog' = walog /\ applied' = applied
      /\ lastSeq' = lastSeq /\ calls' = calls /\ answers' = answers
      /\ signalled' = signalled /\ room' = room
  BY DEF queueVars
<1>2. QueueTypeOK'
  BY <1>1 DEF QueueInv, QueueTypeOK
<1>3. InLine(writer, queue)' /\ Counted(writer, calls)' /\ NoneNull(writer)'
  BY <1>1 DEF QueueInv, InLine, Counted, NoneNull
<1>4. Grouped' /\ Busy' /\ NobodyForgotten'
  BY <1>1 DEF QueueInv, Grouped, Busy, NobodyForgotten
<1>5. \A g : Writes(g)' = Writes(g)
  BY <1>1 DEF Writes
<1>6. \A u \in Thread : HasLogged(u)' <=> HasLogged(u)
  BY <1>1 DEF HasLogged
<1>7. GroupLogged'
  <2>1. \A u, v \in Thread : LoggedFor(u, v)' <=> LoggedFor(u, v)
    BY <1>1, <1>5 DEF LoggedFor
  <2>2. \A u \in Thread : writer[u].group \in Seq(Thread)
    BY DEF QueueInv, QueueTypeOK, Writers, WriterState
  <2> QED
    BY SMTT(30), <1>1, <1>6, <2>1, <2>2 DEF QueueInv, GroupLogged
<1>8. Behind'
  BY <1>1, <1>5, <1>6 DEF QueueInv, Behind, HasLogged
<1>9. Ordered' /\ Promised(writer)' /\ Acknowledged'
  BY <1>1 DEF QueueInv, Ordered, Promised, Acknowledged, Kept
<1> QED
  BY <1>2, <1>3, <1>4, <1>7, <1>8, <1>9 DEF QueueInv

-----------------------------------------------------------------------------
(* The theorems.                                                           *)

\* Whatever the threads write, in whatever order they get the mutex, and
\* whatever fails: the queue holds the calls that are not answered, in their
\* order, only its front works, its group is the front of the queue, what it
\* has logged is newer than all that is visible, and what it has promised is
\* kept (DBImpl::Write, BuildBatchGroup and MakeRoomForWrite, db_impl.cc
\* 1200-1400).
THEOREM QueueInvariance == QueueSpec => []QueueInv
<1>1. QueueInit => QueueInv
  BY QueueInitially
<1>2. QueueInv /\ [QueueNext]_queueVars => QueueInv'
  <2> SUFFICES ASSUME QueueInv, [QueueNext]_queueVars PROVE QueueInv'
    OBVIOUS
  <2>1. ASSUME NEW t \in Thread, NEW sync \in BOOLEAN, NEW size \in BatchSize,
               WriteCall(t, FALSE, sync, size)
        PROVE  QueueInv'
    <3>1. size \in Nat
      OBVIOUS
    <3> QED
      BY <2>1, <3>1, WriteCallStep
  <2>2. ASSUME NEW t \in Thread, WriteCall(t, TRUE, FALSE, 0) PROVE QueueInv'
    BY <2>2, WriteCallStep
  <2>3. ASSUME NEW t \in Thread, Wakes(t) PROVE QueueInv'
    BY <2>3, WakesStep
  <2>4. ASSUME NEW t \in Thread, LogGroup(t) PROVE QueueInv'
    BY <2>4, LogGroupStep
  <2>5. ASSUME NEW t \in Thread, SyncLog(t) PROVE QueueInv'
    BY <2>5, SyncLogStep
  <2>6. ASSUME NEW t \in Thread, ApplyBatch(t) PROVE QueueInv'
    BY <2>6, ApplyBatchStep
  <2>7. ASSUME NEW t \in Thread, FinishGroup(t) PROVE QueueInv'
    BY <2>7, FinishGroupStep
  <2>8. CASE Background
    BY <2>8, BackgroundStep
  <2>9. CASE UNCHANGED queueVars
    BY <2>9, QueueStutter
  <2> QED
    BY <2>1, <2>2, <2>3, <2>4, <2>5, <2>6, <2>7, <2>8, <2>9 DEF QueueNext
<1> QED
  BY <1>1, <1>2, PTL DEF QueueSpec

\* No writer is forgotten: whoever is answered or has come to the front of the
\* queue is working, awake or signalled, and a writer that waits for the
\* background thread has it on its way or was signalled (the signals of
\* DBImpl::Write and BackgroundCall).
THEOREM NeverForgotten == QueueSpec => []NobodyForgotten
<1>1. QueueInv => NobodyForgotten
  BY DEF QueueInv
<1> QED
  BY <1>1, QueueInvariance, PTL

\* A write that was answered with OK is in the log, in the memtable and visible,
\* and synced if it asked for that, whoever committed it; the log has the writes
\* in the order of their calls; and nobody can see a part of a group that is
\* still being applied (DBImpl::Write).
THEOREM AlwaysKept == QueueSpec => []WritesKept
<1>1. QueueInv => WritesKept
  <2> SUFFICES ASSUME QueueInv PROVE WritesKept
    OBVIOUS
  <2>1. ASSUME NEW a \in answers, a.ok, ~a.null
        PROVE  \E i \in DOMAIN walog : /\ walog[i].id = a.id /\ a.id \in applied
                                       /\ walog[i].seq <= lastSeq
                                       /\ a.sync => walog[i].synced
    BY <2>1 DEF QueueInv, Acknowledged, Kept
  <2>2. \A i, j \in DOMAIN walog : i < j => walog[i].id < walog[j].id /\ walog[i].seq < walog[j].seq
    BY DEF QueueInv, Ordered
  <2>3. walog \in Seq(LogRecord) /\ \A i \in DOMAIN walog :
          i \in Nat /\ walog[i].id \in Nat /\ walog[i].seq \in Nat
    <3>1. walog \in Seq(LogRecord)
      BY DEF QueueInv, QueueTypeOK
    <3>2. \A i \in DOMAIN walog : i \in Nat /\ walog[i] \in LogRecord
      BY <3>1
    <3> QED
      BY <3>1, <3>2 DEF LogRecord
  <2>4. \A i, j \in DOMAIN walog : walog[i].id = walog[j].id => i = j
    <3>1. \A i, j \in DOMAIN walog : i < j \/ j < i \/ i = j
      BY <2>3
    <3> QED
      BY <2>2, <2>3, <3>1
  <2>5. ASSUME NEW i \in DOMAIN walog, NEW a \in answers, a.id = walog[i].id, a.ok
        PROVE  walog[i].id \in applied
    <3>1. ~a.null
      BY <2>5 DEF QueueInv, NoneNull
    <3> QED
      BY <2>1, <2>5, <3>1
  <2>6. ASSUME NEW t \in Thread, writer[t].pc \in {"log", "sync", "apply"},
               NEW i \in DOMAIN walog, walog[i].id = writer[t].id
        PROVE  walog[i].seq > lastSeq
    <3>1. t = queue[1] /\ queue # << >>
      BY <2>6, OnlyFrontWorks
    <3>2. 1 \in DOMAIN queue
      BY <3>1 DEF QueueInv, QueueTypeOK
    <3>3. writer[t].id \in Nat
      BY DEF QueueInv, QueueTypeOK, Writers, WriterState
    <3>4. HasLogged(t)
      BY <2>6, <3>1, <3>2, <3>3 DEF QueueInv, Behind
    <3>5. 1 \in 1..Len(writer[t].group) /\ writer[t].group[1] = t /\ ~writer[t].null
      BY <2>6, <3>1 DEF QueueInv, Grouped, Leading
    <3>6. LoggedFor(t, t)
      BY <3>4, <3>5 DEF QueueInv, GroupLogged
    <3>7. PICK k \in DOMAIN walog : walog[k].id = writer[t].id /\ walog[k].seq > lastSeq
      BY <3>6 DEF LoggedFor
    <3> QED
      BY <2>4, <2>6, <3>7
  <2> QED
    BY <2>1, <2>2, <2>5, <2>6 DEF WritesKept
<1> QED
  BY <1>1, QueueInvariance, PTL


-----------------------------------------------------------------------------
(***************************************************************************)
(* The skip list.                                                          *)
(*                                                                         *)
(* The list of a level needs no induction: each of its nodes points to the *)
(* next greater key that is linked there.  The readers rely on this alone, *)
(* whatever the writer does between two of their steps.                    *)
(***************************************************************************)
HIDE QueueAssumption
USE ListAssumption

InsertState ==
    [pc : {"idle", "find", "height", "init", "publish"}, key : ListKey \cup {0},
     height : 0..ListHeight, prev : [ListLevel -> Node], x : Node, level : ListLevel]
IterState ==
    [pc : {"idle", "walk"}, node : Node \cup {Null, Junk}, forward : BOOLEAN,
     target : 1..Null, x : Node, level : ListLevel, had : SUBSET ListKey]

ListTypeOK ==
    /\ next \in [Node -> [ListLevel -> Node \cup {Null, Junk}]]
    /\ heights \subseteq 1..ListHeight
    /\ insert \in InsertState
    /\ iter \in [ListReader -> IterState]

(* Where a walk along level i may stand.                                   *)
Standing(i) == {HeadNode} \cup Linked(i)

(* A node that is linked points to the next key that is.                   *)
Sorted ==
    \A i \in ListLevel : \A n \in Standing(i) :
        /\ next[n][i] \in Linked(i) \cup {Null}
        /\ n < next[n][i]
        /\ \A k \in Linked(i) : ~(n < k /\ k < next[n][i])

(* What is linked at a level is linked below it, so that a walk may go     *)
(* down; nothing is linked above the greatest height.                      *)
Towers ==
    /\ \A i, j \in ListLevel : j <= i => Linked(i) \subseteq Linked(j)
    /\ \E h \in heights : \A g \in heights : g <= h
    /\ \A i \in ListLevel : i >= Max(heights) => Linked(i) = {}

(* The writer has found the node before its key at level i.                *)
Found(i) ==
    LET p == insert.prev[i]
    IN  p \in Standing(i) /\ p < insert.key /\ insert.key < next[p][i]

Searching ==
    /\ insert.pc = "find" =>
         /\ insert.x \in Standing(insert.level) /\ insert.x < insert.key
         /\ insert.level < Max(heights)
         /\ \A i \in ListLevel : insert.level < i /\ i < Max(heights) => Found(i)
    /\ insert.pc = "height" => \A i \in ListLevel : i < Max(heights) => Found(i)
    /\ insert.pc \in {"find", "height"} => insert.key \in ListKey /\ insert.key \notin Linked(0)

(* The new node is linked from level 0 upwards, and at each level points   *)
(* to its successor before it can be seen.                                 *)
Linking ==
    /\ insert.pc \in {"init", "publish"} =>
         /\ insert.key \in ListKey
         /\ insert.level < insert.height /\ insert.height <= Max(heights)
         /\ \A i \in ListLevel : insert.key \in Linked(i) <=> i < insert.level
         /\ \A i \in ListLevel : insert.level <= i /\ i < insert.height => Found(i)
    /\ insert.pc = "publish" =>
         next[insert.key][insert.level] = next[insert.prev[insert.level]][insert.level]
    /\ \A i \in ListLevel, n \in ListKey : n \notin Linked(i) =>
         \/ next[n][i] = Junk
         \/ insert.pc = "publish" /\ n = insert.key /\ i = insert.level

(* A walk stands on a node of its level, before its target.                *)
Walking ==
    \A r \in ListReader :
        /\ iter[r].had \subseteq Linked(0)
        /\ iter[r].pc = "walk" => /\ iter[r].x \in Standing(iter[r].level)
                                  /\ iter[r].x < iter[r].target

ListInv == ListTypeOK /\ Sorted /\ Towers /\ Searching /\ Linking /\ Walking /\ SearchExact

-----------------------------------------------------------------------------
(* Numbers.                                                                *)

(* Max is the greatest, if there is one.                                   *)
LEMMA MaxIsGreatest ==
    ASSUME NEW S \in SUBSET Int, \E x \in S : \A y \in S : y <= x
    PROVE  Max(S) \in S /\ \A y \in S : y <= Max(S)
<1>1. \E x \in S : \A y \in S : x >= y
  OBVIOUS
<1> QED
  BY <1>1 DEF Max

(* NULL comes after all keys.                                              *)
LEMMA NullIsLast == Null \in Nat \ {0} /\ \A k \in ListKey : k < Null
<1>1. ListKey \cup {0} \in SUBSET Int /\ IsFiniteSet(ListKey \cup {0}) /\ ListKey \cup {0} # {}
  BY FS_AddElement, 0 \in Int
<1>2. PICK m : /\ Null = 1 + m /\ m \in ListKey \cup {0}
               /\ \A k \in ListKey \cup {0} : k <= m
  BY <1>1, FiniteHasGreatest, MaxIsGreatest DEF Null
<1>3. m \in Nat /\ \A k \in ListKey : k \in Nat
  BY <1>2
<1> QED
  BY <1>2, <1>3

(* max_height_ is a height.                                                *)
LEMMA HeightFacts ==
    ASSUME ListTypeOK, Towers
    PROVE  Max(heights) \in heights /\ Max(heights) \in 1..ListHeight /\ \A h \in heights : h <= Max(heights)
<1>1. heights \in SUBSET Int /\ \E x \in heights : \A y \in heights : y <= x
  BY DEF ListTypeOK, Towers
<1> QED
  BY <1>1, MaxIsGreatest DEF ListTypeOK

-----------------------------------------------------------------------------
(* What a step leaves alone.                                               *)

(* Levels.                                                                 *)
LEMMA LevelFacts ==
    /\ 0 \in ListLevel
    /\ ListLevel \subseteq Nat
    /\ \A i \in ListLevel : i >= 0 /\ (i > 0 => i - 1 \in ListLevel)
    /\ \A h \in 1..ListHeight : h - 1 \in ListLevel
    /\ \A i : Linked(i) \subseteq ListKey /\ Standing(i) \subseteq Node
    /\ HeadNode \notin ListKey /\ Null \notin ListKey
    /\ Node \subseteq Nat
  BY NullIsLast DEF ListLevel, Linked, Standing, Node, HeadNode

(* Levels, keys and heights are numbers.                                   *)
LEMMA Numbers ==
    ASSUME ListInv
    PROVE  /\ \A i \in ListLevel : i \in Nat /\ i >= 0 /\ i < ListHeight
           /\ \A k \in ListKey : k \in Nat /\ k > 0 /\ k < Null
           /\ Null \in Nat /\ Max(heights) \in Nat /\ Max(heights) - 1 \in ListLevel
<1>1. \A i \in ListLevel : i \in Nat /\ i >= 0 /\ i < ListHeight
  BY DEF ListLevel
<1>2. \A k \in ListKey : k \in Nat /\ k > 0
  OBVIOUS
<1>3. Max(heights) \in 1..ListHeight
  BY HeightFacts DEF ListInv
<1> QED
  BY <1>1, <1>2, <1>3, LevelFacts, NullIsLast

(* The writer goes on while the readers stay where they are: what they may *)
(* stand on is never unlinked.                                             *)
LEMMA ReadersKept ==
    ASSUME ListInv, iter' = iter,
           \A i \in ListLevel : Linked(i) \subseteq Linked(i)'
    PROVE  Walking' /\ SearchExact'
<1> USE DEF ListInv
<1>1. Walking'
  <2>1. ASSUME NEW r \in ListReader PROVE iter[r].level \in ListLevel
    BY DEF ListTypeOK, IterState
  <2> QED
    BY <2>1, LevelFacts DEF Walking, Standing
<1>2. SearchExact'
  BY LevelFacts DEF SearchExact
<1> QED
  BY <1>1, <1>2

(* A reader goes on while the writer stays where it is.                    *)
LEMMA WriterKept ==
    ASSUME ListInv, next' = next, heights' = heights, insert' = insert
    PROVE  Sorted' /\ Towers' /\ Searching' /\ Linking'
<1>1. \A i : Linked(i)' = Linked(i) /\ Standing(i)' = Standing(i)
  BY DEF Linked, Standing
<1>2. \A i : Found(i)' = Found(i)
  BY <1>1 DEF Found
<1> QED
  BY <1>1, <1>2 DEF ListInv, Sorted, Towers, Searching, Linking

(* The writer looks around: the list is as it was.                         *)
LEMMA ListKept ==
    ASSUME ListInv, next' = next
    PROVE  /\ \A i : Linked(i)' = Linked(i) /\ Standing(i)' = Standing(i)
           /\ Sorted'
<1>1. \A i : Linked(i)' = Linked(i) /\ Standing(i)' = Standing(i)
  BY DEF Linked, Standing
<1> QED
  BY <1>1 DEF ListInv, Sorted

-----------------------------------------------------------------------------
(* The steps of the writer.                                                *)

(* InsertKey: the search begins at the head, at the greatest height.       *)
LEMMA InsertKeyInv ==
    ASSUME ListInv, NEW k \in ListKey, InsertKey(k)
    PROVE  ListInv'
<1> USE DEF ListInv
<1>1. /\ next' = next /\ heights' = heights /\ iter' = iter
      /\ insert' = [insert EXCEPT !.pc = "find", !.key = k, !.x = HeadNode,
                                  !.level = Max(heights) - 1]
  BY DEF InsertKey
<1>2. Max(heights) - 1 \in ListLevel /\ Max(heights) \in Nat
  BY HeightFacts, LevelFacts
<1>3. /\ insert'.pc = "find" /\ insert'.key = k /\ insert'.x = HeadNode
      /\ insert'.level = Max(heights) - 1 /\ insert' \in InsertState
  BY <1>1, <1>2, LevelFacts DEF ListTypeOK, InsertState, Node
<1>4. ListTypeOK'
  BY <1>1, <1>3 DEF ListTypeOK
<1>5. Towers' /\ Sorted'
  BY <1>1, ListKept DEF Towers
<1>6. Searching'
  <2>1. \A i \in ListLevel : ~(Max(heights) - 1 < i /\ i < Max(heights))
    BY <1>2, LevelFacts
  <2>2. HeadNode \in Standing(insert.level)' /\ HeadNode < k
    BY LevelFacts DEF Standing, HeadNode
  <2>3. k \notin Linked(0)'
    BY <1>1, ListKept DEF InsertKey
  <2> QED
    BY <1>1, <1>2, <1>3, <2>1, <2>2, <2>3 DEF Searching
<1>7. Linking'
  BY <1>1, <1>3, ListKept DEF Linking, InsertKey
<1>8. Walking' /\ SearchExact'
  BY <1>1, ListKept, ReadersKept
<1> QED
  BY <1>4, <1>5, <1>6, <1>7, <1>8

(* FindStep: the search goes on at its level or notes where it stands and  *)
(* goes down.                                                              *)
LEMMA FindStepInv ==
    ASSUME ListInv, FindStep
    PROVE  ListInv'
<1> USE DEF ListInv
<1> DEFINE n == next[insert.x][insert.level]
<1>1. next' = next /\ heights' = heights /\ iter' = iter /\ insert.pc = "find"
  BY DEF FindStep
<1>2. /\ insert.x \in Standing(insert.level) /\ insert.x < insert.key
      /\ insert.level \in ListLevel /\ insert.level < Max(heights)
      /\ insert.key \in ListKey /\ insert.key \notin Linked(0)
  <2>1. insert.level \in ListLevel
    BY DEF ListTypeOK, InsertState
  <2> QED
    BY <1>1, <2>1 DEF Searching
<1>3. n \in Linked(insert.level) \cup {Null} /\ n \in Nat
  <2>1. n \in Linked(insert.level) \cup {Null}
    BY <1>2 DEF Sorted
  <2> QED
    BY <2>1, LevelFacts, NullIsLast
<1>4. /\ \A i \in ListLevel : i >= 0 /\ i \in Nat
      /\ insert.key \in Nat /\ insert.key < Null /\ Null \in Nat /\ Max(heights) \in Nat
  BY <1>2, Numbers
<1> HIDE DEF n
<1>5. Towers' /\ Sorted' /\ Walking' /\ SearchExact'
  BY <1>1, ListKept, ReadersKept DEF Towers
<1>6. CASE n < insert.key
  <2>1. insert' = [insert EXCEPT !.x = n]
    BY <1>6 DEF FindStep, n
  <2>2. n \in Linked(insert.level) /\ n \in Standing(insert.level) /\ n \in Node
    <3>1. n # Null
      BY <1>2, <1>3, <1>4, <1>6
    <3>2. n \in Linked(insert.level)
      BY <1>3, <3>1
    <3> QED
      BY <3>2, LevelFacts DEF Standing
  <2>3. /\ insert' \in InsertState /\ insert'.x = n
        /\ insert'.pc = "find" /\ insert'.key = insert.key
        /\ insert'.level = insert.level /\ insert'.prev = insert.prev
    BY <1>1, <2>1, <2>2 DEF ListTypeOK, InsertState
  <2>4. \A i \in ListLevel : Found(i)' = Found(i)
    BY <1>1, <2>3, ListKept DEF Found
  <2>5. Searching'
    BY <1>1, <1>2, <1>6, <2>2, <2>3, <2>4, ListKept DEF Searching
  <2>6. Linking'
    BY <1>1, <2>3, ListKept DEF Linking
  <2> QED
    BY <1>1, <1>5, <2>3, <2>5, <2>6 DEF ListTypeOK
<1>7. CASE ~(n < insert.key)
  <2> DEFINE down == IF insert.level = 0 THEN 0 ELSE insert.level - 1
             pc == IF insert.level = 0 THEN "height" ELSE "find"
  <2>1. insert' = [insert EXCEPT !.prev[insert.level] = insert.x, !.level = down, !.pc = pc]
    BY <1>7 DEF FindStep, n
  <2>2. down \in ListLevel /\ insert.x \in Node
    <3>1. insert.level \in Nat
      BY <1>2, LevelFacts
    <3> QED
      BY <1>2, <3>1, LevelFacts
  <2>3. /\ insert' \in InsertState /\ insert'.key = insert.key /\ insert'.x = insert.x
        /\ insert'.level = down /\ insert'.pc = pc
        /\ insert'.prev[insert.level] = insert.x
        /\ \A i \in ListLevel \ {insert.level} : insert'.prev[i] = insert.prev[i]
    BY <1>2, <2>1, <2>2 DEF ListTypeOK, InsertState
  <2>4. insert.key < n
    <3>1. Linked(insert.level) \subseteq Linked(0)
      BY <1>2, <1>4, LevelFacts DEF Towers
    <3>2. n # insert.key
      BY <1>2, <1>3, <3>1, LevelFacts
    <3>3. insert.key \in Nat
      BY <1>2
    <3> QED
      BY <1>3, <1>7, <3>2, <3>3
  <2>5. ASSUME NEW i \in ListLevel, i = insert.level
        PROVE  Found(i)'
    BY <1>1, <1>2, <2>3, <2>4, <2>5, ListKept DEF Found, n
  <2>6. \A i \in ListLevel \ {insert.level} : Found(i)' = Found(i)
    BY <1>1, <2>3, ListKept DEF Found
  <2>7. Searching'
    <3>1. \A i \in ListLevel : insert.level <= i /\ i < Max(heights) => Found(i)'
      BY <1>1, <1>2, <1>4, <2>5, <2>6 DEF Searching
    <3>2. CASE insert.level = 0
      BY <1>1, <1>2, <1>4, <2>3, <3>1, <3>2, ListKept DEF Searching
    <3>3. CASE insert.level # 0
      <4>1. insert'.level = insert.level - 1 /\ insert'.pc = "find"
        BY <2>3, <3>3
      <4>2. \A i \in ListLevel : insert.level - 1 < i => insert.level <= i
        BY <1>2, <1>4
      <4>3. insert.x \in Standing(insert.level - 1)
        <5>1. insert.level - 1 \in ListLevel /\ insert.level - 1 <= insert.level
          <6>1. insert.level \in Nat /\ insert.level > 0
            BY <1>2, <1>4, <3>3
          <6> QED
            BY <1>2, <6>1, LevelFacts
        <5> QED
          BY <1>2, <5>1 DEF Towers, Standing
      <4>4. insert.level - 1 < Max(heights)
        BY <1>2, <1>4
      <4> QED
        BY <1>1, <1>2, <2>3, <3>1, <4>1, <4>2, <4>3, <4>4, ListKept DEF Searching
    <3> QED
      BY <3>2, <3>3
  <2>8. Linking'
    BY <1>1, <2>3, ListKept DEF Linking
  <2> QED
    BY <1>1, <1>5, <2>3, <2>7, <2>8 DEF ListTypeOK
<1> QED
  BY <1>6, <1>7

(* GrowStep: a node higher than all has the head before it on the levels   *)
(* that are new.                                                           *)
LEMMA GrowStepInv ==
    ASSUME ListInv, GrowStep
    PROVE  ListInv'
<1> USE DEF ListInv
<1>1. /\ next' = next /\ iter' = iter /\ insert.pc = "height"
      /\ insert.key \in ListKey /\ insert.key \notin Linked(0)
      /\ \A i \in ListLevel : i < Max(heights) => Found(i)
  BY DEF GrowStep, Searching
<1> DEFINE prev == [i \in ListLevel |-> IF i < Max(heights) THEN insert.prev[i] ELSE HeadNode]
<1>2. PICK h \in 1..ListHeight :
        /\ heights' = IF h > Max(heights) THEN heights \cup {h} ELSE heights
        /\ insert' = [insert EXCEPT !.pc = "init", !.level = 0, !.height = h, !.prev = prev]
  BY DEF GrowStep
<1>3. /\ heights' \subseteq 1..ListHeight /\ heights' \in SUBSET Int
      /\ \E g \in heights' : g >= h /\ g >= Max(heights) /\ \A f \in heights' : f <= g
  <2>1. Max(heights) \in heights /\ \A g \in heights : g <= Max(heights)
    BY HeightFacts
  <2>2. heights' \subseteq 1..ListHeight
    BY <1>2 DEF ListTypeOK
  <2>3. CASE h > Max(heights)
    <3>1. heights' = heights \cup {h} /\ h >= Max(heights)
      BY <1>2, <2>3, Numbers
    <3>2. \A f \in heights' : f <= h
      <4>1. ASSUME NEW f \in heights PROVE f <= h
        <5>1. f \in Nat /\ h \in Nat /\ Max(heights) \in Nat
          BY Numbers DEF ListTypeOK
        <5> QED
          BY <2>1, <2>3, <5>1
      <4> QED
        BY <3>1, <4>1
    <3> QED
      BY <2>2, <3>1, <3>2
  <2>4. CASE ~(h > Max(heights))
    BY <1>2, <2>1, <2>2, <2>4, Numbers
  <2> QED
    BY <2>3, <2>4
<1>4. /\ Max(heights') \in Nat /\ Max(heights') >= h /\ Max(heights') >= Max(heights)
      /\ \E g \in heights' : \A f \in heights' : f <= g
  <2>1. Max(heights') \in heights' /\ \A f \in heights' : f <= Max(heights')
    BY <1>3, MaxIsGreatest
  <2>2. PICK g \in heights' : g >= h /\ g >= Max(heights)
    BY <1>3
  <2>3. Max(heights') \in Nat /\ g \in Nat /\ g <= Max(heights')
    <3>1. \A f \in 1..ListHeight : f \in Nat
      OBVIOUS
    <3>2. Max(heights') \in 1..ListHeight /\ g \in 1..ListHeight
      BY <1>3, <2>1, <2>2
    <3> QED
      BY <2>1, <2>2, <3>1, <3>2
  <2> QED
    BY <1>3, <2>2, <2>3, Numbers
<1>5. /\ insert' \in InsertState /\ insert'.key = insert.key
      /\ insert'.pc = "init" /\ insert'.level = 0 /\ insert'.height = h /\ insert'.prev = prev
  <2>1. prev \in [ListLevel -> Node]
    BY DEF ListTypeOK, InsertState, Node
  <2>2. h \in 0..ListHeight /\ 0 \in ListLevel
    BY LevelFacts
  <2> HIDE DEF prev
  <2> QED
    BY <1>2, <2>1, <2>2 DEF ListTypeOK, InsertState
<1>6. ListTypeOK'
  BY <1>1, <1>3, <1>5 DEF ListTypeOK
<1>7. Sorted' /\ Walking' /\ SearchExact'
  BY <1>1, ListKept, ReadersKept
<1>8. Towers'
  <2>1. ASSUME NEW i \in ListLevel, i >= Max(heights')
        PROVE  Linked(i) = {}
    <3>1. i >= Max(heights)
      BY <1>4, <2>1, Numbers
    <3> QED
      BY <3>1 DEF Towers
  <2> QED
    BY <1>1, <1>4, <2>1, ListKept DEF Towers
<1>9. \A i \in ListLevel : i < h => Found(i)'
  <2>1. ASSUME NEW i \in ListLevel, i < Max(heights)
        PROVE  Found(i)'
    BY <1>1, <1>5, <2>1, ListKept DEF Found
  <2>2. ASSUME NEW i \in ListLevel, ~(i < Max(heights))
        PROVE  Found(i)'
    <3>1. Linked(i) = {} /\ HeadNode \in Standing(i)
      BY <2>2, Numbers DEF Towers, Standing
    <3>2. next[HeadNode][i] = Null
      BY <3>1 DEF Sorted
    <3>3. HeadNode < insert.key /\ insert.key < Null
      BY <1>1, Numbers DEF HeadNode
    <3>4. insert'.prev[i] = HeadNode
      BY <1>5, <2>2
    <3> QED
      BY <1>1, <1>5, <3>1, <3>2, <3>3, <3>4, ListKept DEF Found
  <2> QED
    BY <2>1, <2>2
<1>10. Linking'
  <2>1. \A i \in ListLevel : insert.key \notin Linked(i)
    BY <1>1, LevelFacts DEF Towers
  <2>2. 0 < h /\ h <= Max(heights') /\ \A i \in ListLevel : ~(i < 0)
    BY <1>4, Numbers
  <2>3. \A i \in ListLevel, n \in ListKey : n \notin Linked(i) => next[n][i] = Junk
    BY <1>1 DEF Linking
  <2> QED
    BY <1>1, <1>5, <1>9, <2>1, <2>2, <2>3, ListKept DEF Linking
<1>11. Searching'
  BY <1>5 DEF Searching
<1> QED
  BY <1>6, <1>7, <1>8, <1>10, <1>11

(* Where the new node goes at the writer's level.                          *)
LEMMA LinkingFacts ==
    ASSUME ListInv, insert.pc \in {"init", "publish"},
           NEW i, i = insert.level, NEW p, p = insert.prev[i],
           NEW key, key = insert.key, NEW s, s = next[p][i]
    PROVE  /\ i \in ListLevel /\ key \in ListKey /\ key \in Node /\ p \in Node /\ p # key
           /\ key \notin Linked(i) /\ key \notin Standing(i)
           /\ p \in Standing(i) /\ s \in Linked(i) \cup {Null}
           /\ p \in Nat /\ key \in Nat /\ s \in Nat /\ p < key /\ key < s
           /\ \A k \in Linked(i) : ~(p < k /\ k < s)
           /\ i < Max(heights) /\ i < insert.height /\ insert.height \in 0..ListHeight
<1> USE DEF ListInv
<1>1. i \in ListLevel /\ insert.height \in 0..ListHeight
  BY DEF ListTypeOK, InsertState
<1>2. /\ key \in ListKey /\ i < insert.height /\ insert.height <= Max(heights)
      /\ key \in Linked(i) <=> i < i
      /\ i <= i => Found(i)
  BY <1>1 DEF Linking
<1>3. i \in Nat /\ key \in Nat /\ key > 0 /\ Max(heights) \in Nat /\ insert.height \in Nat /\ Null \in Nat
  <2>1. i \in Nat /\ Max(heights) \in Nat /\ Null \in Nat
    BY <1>1, Numbers
  <2>2. key \in Nat /\ key > 0
    BY <1>2, Numbers
  <2>3. insert.height \in Nat
    BY <1>1
  <2> QED
    BY <2>1, <2>2, <2>3
<1>4. key \notin Linked(i) /\ Found(i) /\ i < Max(heights)
  BY <1>2, <1>3
<1>5. p \in Standing(i) /\ p < key /\ key < s
  BY <1>4 DEF Found
<1>6. s \in Linked(i) \cup {Null} /\ \A k \in Linked(i) : ~(p < k /\ k < s)
  BY <1>1, <1>5 DEF Sorted
<1>7. p \in Node /\ p \in Nat /\ s \in Nat /\ key \in Node
  BY <1>2, <1>3, <1>5, <1>6, LevelFacts, Numbers DEF Node
<1>8. key \notin Standing(i) /\ p # key
  BY <1>3, <1>4, <1>5, <1>7 DEF Standing, HeadNode
<1> QED
  BY <1>1, <1>2, <1>4, <1>5, <1>6, <1>7, <1>8, <1>3

(* The pointer of the new node is stored: the list is as it was.           *)
LEMMA InitStepInv ==
    ASSUME ListInv, LinkStep, insert.pc = "init"
    PROVE  ListInv'
<1> USE DEF ListInv
<1>1. PICK i, p, key, s : i = insert.level /\ p = insert.prev[i] /\ key = insert.key /\ s = next[p][i]
  OBVIOUS
<1>2. /\ i \in ListLevel /\ key \in ListKey /\ key \in Node /\ p \in Node /\ p # key
      /\ key \notin Linked(i) /\ key \notin Standing(i)
      /\ p \in Standing(i) /\ s \in Linked(i) \cup {Null}
  BY <1>1, LinkingFacts
<1>3. /\ next' = [next EXCEPT ![key][i] = s] /\ heights' = heights /\ iter' = iter
      /\ insert' = [insert EXCEPT !.pc = "publish"]
  BY <1>1 DEF LinkStep, Store
<1>4. /\ insert' \in InsertState /\ insert'.pc = "publish" /\ insert'.key = insert.key
      /\ insert'.level = insert.level /\ insert'.height = insert.height
      /\ insert'.prev = insert.prev
  BY <1>3 DEF ListTypeOK, InsertState
<1>5. /\ next' \in [Node -> [ListLevel -> Node \cup {Null, Junk}]]
      /\ next'[key][i] = s
      /\ \A n \in Node, j \in ListLevel : n # key \/ j # i => next'[n][j] = next[n][j]
  <2>1. s \in Node \cup {Null, Junk}
    BY <1>2 DEF Linked, Node
  <2> QED
    BY <1>2, <1>3, <2>1 DEF ListTypeOK
<1>6. next[key][i] = Junk /\ Junk \notin ListKey
  <2>1. Junk \notin ListKey
    BY Numbers DEF Junk
  <2> QED
    BY <1>1, <1>2, <2>1 DEF Linking
<1>7. \A j \in ListLevel : Linked(j)' = Linked(j) /\ Standing(j)' = Standing(j)
  <2>1. ASSUME NEW j \in ListLevel, NEW k \in ListKey
        PROVE  k \in Linked(j)' <=> k \in Linked(j)
    <3>1. k \in Linked(j)' => k \in Linked(j)
      <4>1. SUFFICES ASSUME NEW n \in Node, next'[n][j] = k
                     PROVE  k \in Linked(j)
        BY DEF Linked
      <4>2. CASE n = key /\ j = i
        BY <1>2, <1>5, <4>1, <4>2, LevelFacts
      <4> QED
        BY <1>5, <4>1, <4>2 DEF Linked
    <3>2. k \in Linked(j) => k \in Linked(j)'
      <4>1. SUFFICES ASSUME NEW n \in Node, next[n][j] = k
                     PROVE  k \in Linked(j)'
        BY DEF Linked
      <4>2. n # key \/ j # i
        BY <1>6, <4>1
      <4> QED
        BY <1>5, <4>1, <4>2 DEF Linked
    <3> QED
      BY <3>1, <3>2
  <2>2. ASSUME NEW j \in ListLevel PROVE Linked(j)' \subseteq ListKey /\ Linked(j) \subseteq ListKey
    BY DEF Linked
  <2> QED
    BY <2>1, <2>2 DEF Standing
<1>8. \A j \in ListLevel : \A n \in Standing(j) : next'[n][j] = next[n][j]
  BY <1>2, <1>5, LevelFacts
<1>9. Sorted'
  BY <1>7, <1>8 DEF Sorted
<1>10. \A j \in ListLevel : Found(j) => Found(j)'
  BY <1>4, <1>7, <1>8 DEF Found
<1>11. Linking'
  <2>1. next'[key][i] = next'[p][i]
    BY <1>1, <1>2, <1>5
  <2>2. \A j \in ListLevel, n \in ListKey : n \notin Linked(j) =>
           next'[n][j] = Junk \/ (n = key /\ j = i)
    BY <1>3, <1>5 DEF Linking, Node
  <2> QED
    BY <1>1, <1>3, <1>4, <1>7, <1>10, <2>1, <2>2 DEF Linking
<1>12. Towers'
  BY <1>3, <1>7 DEF Towers
<1>13. Searching'
  BY <1>4 DEF Searching
<1>14. Walking' /\ SearchExact'
  BY <1>3, <1>7, ReadersKept
<1> QED
  BY <1>3, <1>4, <1>5, <1>9, <1>11, <1>12, <1>13, <1>14 DEF ListTypeOK

(* The pointer to the new node is stored: it is in the list of the level.  *)
LEMMA PublishStepInv ==
    ASSUME ListInv, LinkStep, insert.pc = "publish"
    PROVE  ListInv'
<1> USE DEF ListInv
<1>1. PICK i, p, key, s : i = insert.level /\ p = insert.prev[i] /\ key = insert.key /\ s = next[p][i]
  OBVIOUS
<1>2. /\ i \in ListLevel /\ key \in ListKey /\ key \in Node /\ p \in Node /\ p # key
      /\ key \notin Linked(i) /\ key \notin Standing(i)
      /\ p \in Standing(i) /\ s \in Linked(i) \cup {Null}
      /\ p \in Nat /\ key \in Nat /\ s \in Nat /\ p < key /\ key < s
      /\ \A k \in Linked(i) : ~(p < k /\ k < s)
      /\ i < Max(heights) /\ i < insert.height /\ insert.height \in 0..ListHeight
  BY <1>1, LinkingFacts
<1>3. /\ next' = [next EXCEPT ![p][i] = key] /\ heights' = heights /\ iter' = iter
      /\ next[key][i] = s
  BY <1>1 DEF LinkStep, Store, Linking
<1>4. /\ next' \in [Node -> [ListLevel -> Node \cup {Null, Junk}]]
      /\ next'[p][i] = key
      /\ \A n \in Node, j \in ListLevel : n # p \/ j # i => next'[n][j] = next[n][j]
  BY <1>2, <1>3 DEF ListTypeOK
<1>5. next'[key][i] = s
  BY <1>2, <1>3, <1>4
<1>6. /\ Linked(i)' = Linked(i) \cup {key} /\ Standing(i)' = Standing(i) \cup {key}
      /\ \A j \in ListLevel \ {i} : Linked(j)' = Linked(j) /\ Standing(j)' = Standing(j)
  <2>1. ASSUME NEW j \in ListLevel, NEW k \in ListKey, k \in Linked(j)', j # i \/ k # key
        PROVE  k \in Linked(j)
    <3>1. PICK n \in Node : next'[n][j] = k
      BY <2>1 DEF Linked
    <3>2. n # p \/ j # i
      BY <1>4, <2>1, <3>1
    <3> QED
      BY <1>4, <3>1, <3>2 DEF Linked
  <2>2. ASSUME NEW j \in ListLevel, NEW k \in ListKey, k \in Linked(j)
        PROVE  k \in Linked(j)'
    <3>1. PICK n \in Node : next[n][j] = k
      BY <2>2 DEF Linked
    <3>2. CASE n = p /\ j = i
      BY <1>1, <1>2, <1>5, <3>1, <3>2 DEF Linked
    <3>3. CASE n # p \/ j # i
      BY <1>4, <3>1, <3>3 DEF Linked
    <3> QED
      BY <3>2, <3>3
  <2>3. key \in Linked(i)'
    BY <1>2, <1>4 DEF Linked
  <2>4. \A j : Linked(j)' \subseteq ListKey /\ Linked(j) \subseteq ListKey
    BY DEF Linked
  <2>5. \A j \in ListLevel \ {i} : Linked(j)' = Linked(j)
    BY <2>1, <2>2, <2>4
  <2>6. Linked(i)' = Linked(i) \cup {key}
    BY <1>2, <2>1, <2>2, <2>3, <2>4
  <2> QED
    BY <2>5, <2>6 DEF Standing
<1>7. Sorted'
  <2>1. ASSUME NEW j \in ListLevel \ {i} PROVE \A n \in Standing(j) : next'[n][j] = next[n][j]
    BY <1>4, LevelFacts
  <2>2. ASSUME NEW n \in Standing(i) \cup {key}
        PROVE  /\ next'[n][i] \in Linked(i) \cup {key, Null}
               /\ n < next'[n][i]
               /\ \A k \in Linked(i) \cup {key} : ~(n < k /\ k < next'[n][i])
    <3>1. ASSUME NEW k \in Linked(i) PROVE k \in Nat /\ ~(p < k /\ k < s)
      BY <1>2, LevelFacts, Numbers
    <3>2. CASE n = p
      <4>1. ASSUME NEW k \in Linked(i) PROVE ~(p < k /\ k < key)
        BY SMTT(30), <1>2, <3>1
      <4>2. next'[n][i] = key
        BY <1>4, <3>2
      <4>3. p < key /\ ~(key < key)
        BY <1>2
      <4> QED
        BY <3>2, <4>1, <4>2, <4>3
    <3>3. CASE n = key
      <4>1. ASSUME NEW k \in Linked(i) PROVE ~(key < k /\ k < s)
        BY SMTT(30), <1>2, <3>1
      <4>2. ~(key < key)
        BY <1>2
      <4> QED
        BY <1>2, <1>5, <3>3, <4>1, <4>2
    <3>4. CASE n # p /\ n # key
      <4>1. n \in Standing(i) /\ n \in Node /\ n \in Nat
        BY <3>4, LevelFacts DEF Standing, Node, Linked
      <4>2. /\ next'[n][i] = next[n][i] /\ next[n][i] \in Linked(i) \cup {Null}
            /\ n < next[n][i] /\ next[n][i] \in Nat
            /\ \A k \in Linked(i) : ~(n < k /\ k < next[n][i])
        <5>1. next'[n][i] = next[n][i]
          BY <1>2, <1>4, <3>4, <4>1
        <5>2. /\ next[n][i] \in Linked(i) \cup {Null} /\ n < next[n][i]
              /\ \A k \in Linked(i) : ~(n < k /\ k < next[n][i])
          BY <1>2, <4>1 DEF Sorted
        <5>3. Null \in Nat
          BY Numbers
        <5>4. next[n][i] \in Nat
          BY <3>1, <5>2, <5>3
        <5> QED
          BY <5>1, <5>2, <5>4
      <4>3. ~(n < key /\ key < next[n][i])
        <5>1. CASE n < p
          <6>1. p \in Linked(i)
            BY <1>2, <4>1, <5>1 DEF Standing, HeadNode
          <6> QED
            BY <1>2, <4>1, <4>2, <5>1, <6>1
        <5>2. CASE p < n
          <6>1. n \in Linked(i)
            BY <1>2, <4>1, <5>2 DEF Standing, HeadNode
          <6> QED
            BY <1>2, <4>1, <3>1, <5>2, <6>1
        <5> QED
          BY <1>2, <3>4, <4>1, <5>1, <5>2
      <4> QED
        BY <4>2, <4>3
    <3> QED
      BY <3>2, <3>3, <3>4
  <2>3. ASSUME NEW j \in ListLevel, NEW n \in Standing(j)'
        PROVE  /\ next'[n][j] \in Linked(j)' \cup {Null}
               /\ n < next'[n][j]
               /\ \A k \in Linked(j)' : ~(n < k /\ k < next'[n][j])
    <3>1. CASE j = i
      <4>1. n \in Standing(i) \cup {key} /\ Linked(j)' = Linked(i) \cup {key}
        BY <1>6, <2>3, <3>1
      <4> QED
        BY <2>2, <3>1, <4>1
    <3>2. CASE j # i
      <4>1. n \in Standing(j) /\ Linked(j)' = Linked(j)
        BY <1>6, <2>3, <3>2
      <4>2. next'[n][j] = next[n][j]
        BY <2>1, <3>2, <4>1
      <4> QED
        BY <4>1, <4>2 DEF Sorted
    <3> QED
      BY <3>1, <3>2
  <2> QED
    BY <2>3 DEF Sorted
<1>8. Towers'
  <2>1. ASSUME NEW j \in ListLevel, NEW k \in ListLevel, k <= j
        PROVE  Linked(j)' \subseteq Linked(k)'
    <3>1. Linked(j) \subseteq Linked(k)
      BY <2>1 DEF Towers
    <3>2. CASE j = i /\ k # i
      <4>1. k < i
        BY <2>1, <3>2, Numbers
      <4>2. key \in Linked(k)
        BY <1>1, <4>1 DEF Linking
      <4> QED
        BY <1>6, <3>1, <3>2, <4>2
    <3>3. CASE j = i /\ k = i
      BY <3>3
    <3>4. CASE j # i
      BY <1>6, <3>1, <3>4
    <3> QED
      BY <3>2, <3>3, <3>4
  <2>2. ASSUME NEW j \in ListLevel, j >= Max(heights) PROVE Linked(j)' = {}
    <3>1. j # i
      BY <1>2, <2>2, Numbers
    <3> QED
      BY <1>6, <2>2, <3>1 DEF Towers
  <2> QED
    BY <1>3, <2>1, <2>2 DEF Towers
<1>9. \A j \in ListLevel, n \in ListKey : n \notin Linked(j)' => next'[n][j] = Junk
  <2> SUFFICES ASSUME NEW j \in ListLevel, NEW n \in ListKey, n \notin Linked(j)'
               PROVE  next'[n][j] = Junk
    OBVIOUS
  <2>1. n \notin Linked(j) /\ ~(n = key /\ j = i)
    BY <1>6
  <2>2. next[n][j] = Junk
    BY <1>1, <2>1 DEF Linking
  <2>3. ~(n = p /\ j = i)
    BY <1>2, <2>1, LevelFacts DEF Standing
  <2> QED
    BY <1>4, <2>2, <2>3 DEF Node
<1>10. Walking' /\ SearchExact'
  <2>1. \A j \in ListLevel : Linked(j) \subseteq Linked(j)'
    BY <1>6
  <2> QED
    BY <1>3, <2>1, ReadersKept
<1>11. CASE i + 1 < insert.height
  <2>1. insert' = [insert EXCEPT !.pc = "init", !.level = @ + 1]
    BY <1>1, <1>11 DEF LinkStep
  <2>2. i + 1 \in ListLevel
    BY <1>2, <1>11 DEF ListLevel
  <2>3. /\ insert' \in InsertState /\ insert'.pc = "init" /\ insert'.key = key
        /\ insert'.level = i + 1 /\ insert'.height = insert.height
        /\ insert'.prev = insert.prev
    BY <1>1, <2>1, <2>2 DEF ListTypeOK, InsertState
  <2>4. ASSUME NEW j \in ListLevel, i + 1 <= j, j < insert.height
        PROVE  Found(j)'
    <3>1. j # i /\ i <= j
      BY <1>2, <2>4, Numbers
    <3>2. Found(j)
      BY <1>1, <2>4, <3>1 DEF Linking
    <3>3. insert.prev[j] \in Node
      BY DEF ListTypeOK, InsertState
    <3> QED
      BY <1>1, <1>4, <1>6, <2>3, <3>1, <3>2, <3>3 DEF Found
  <2>5. \A j \in ListLevel : key \in Linked(j)' <=> j < i + 1
    <3>1. ASSUME NEW j \in ListLevel, j # i PROVE key \in Linked(j)' <=> j < i
      BY <1>1, <1>6, <3>1 DEF Linking
    <3>2. key \in Linked(i)'
      BY <1>6
    <3> QED
      BY <1>2, <3>1, <3>2, Numbers
  <2>6. insert.height <= Max(heights)
    BY <1>1 DEF Linking
  <2>7. Linking'
    BY <1>2, <1>3, <1>9, <1>11, <2>3, <2>4, <2>5, <2>6 DEF Linking
  <2>8. Searching'
    BY <2>3 DEF Searching
  <2> QED
    BY <1>3, <1>4, <1>7, <1>8, <1>10, <2>3, <2>7, <2>8 DEF ListTypeOK
<1>12. CASE ~(i + 1 < insert.height)
  <2>1. insert' = [insert EXCEPT !.pc = "idle"]
    BY <1>1, <1>12 DEF LinkStep
  <2>2. insert' \in InsertState /\ insert'.pc = "idle"
    BY <2>1 DEF ListTypeOK, InsertState
  <2>3. Linking' /\ Searching'
    BY <1>9, <2>2 DEF Linking, Searching
  <2> QED
    BY <1>3, <1>4, <1>7, <1>8, <1>10, <2>2, <2>3 DEF ListTypeOK
<1> QED
  BY <1>11, <1>12

-----------------------------------------------------------------------------
(* The steps of the readers.                                               *)

(* A search begins at the head, which stands before every target.          *)
LEMMA StartsInv ==
    ASSUME ListInv, NEW r \in ListReader, NEW forward \in BOOLEAN,
           NEW target \in 1..Null, Starts(r, forward, target)
    PROVE  ListInv'
<1> USE DEF ListInv
<1>1. PICK h \in heights :
        iter' = [iter EXCEPT ![r] = [pc |-> "walk", node |-> Null, forward |-> forward,
                                     target |-> target, x |-> HeadNode, level |-> h - 1,
                                     had |-> Linked(0)]]
  BY DEF Starts
<1>2. next' = next /\ heights' = heights /\ insert' = insert
  BY DEF Starts
<1>3. h - 1 \in ListLevel
  BY LevelFacts DEF ListTypeOK
<1>4. iter' \in [ListReader -> IterState]
  <2>1. [pc |-> "walk", node |-> Null, forward |-> forward, target |-> target,
         x |-> HeadNode, level |-> h - 1, had |-> Linked(0)] \in IterState
    BY <1>3, LevelFacts DEF IterState, Node
  <2> QED
    BY <1>1, <2>1 DEF ListTypeOK
<1>5. \A q \in ListReader : q # r => iter'[q] = iter[q]
  BY <1>1 DEF ListTypeOK
<1>6. /\ iter'[r].pc = "walk" /\ iter'[r].had = Linked(0) /\ iter'[r].x = HeadNode
      /\ iter'[r].target = target
  BY <1>1 DEF ListTypeOK
<1>7. \A i : Linked(i)' = Linked(i) /\ Standing(i)' = Standing(i)
  BY <1>2, ListKept
<1>8. Walking'
  <2>1. HeadNode < target
    BY DEF HeadNode
  <2> QED
    BY <1>5, <1>6, <1>7, <2>1 DEF Walking, Standing
<1>9. SearchExact'
  BY <1>5, <1>6, <1>7 DEF SearchExact
<1> QED
  BY <1>2, <1>4, <1>8, <1>9, WriterKept DEF ListTypeOK

(* A single load, from a node of the list: the next greater key.           *)
LEMMA FollowsInv ==
    ASSUME ListInv, NEW r \in ListReader, NEW n \in Standing(0), Follows(r, n)
    PROVE  ListInv'
<1> USE DEF ListInv
<1> DEFINE m == next[n][0]
<1>1. /\ iter' = [iter EXCEPT ![r].node = m, ![r].forward = TRUE, ![r].target = n + 1,
                              ![r].had = Linked(0)]
      /\ next' = next /\ heights' = heights /\ insert' = insert /\ iter[r].pc = "idle"
  BY DEF Follows
<1>2. /\ m \in Linked(0) \cup {Null} /\ n < m /\ n \in Nat
      /\ \A k \in Linked(0) : ~(n < k /\ k < m)
  BY LevelFacts DEF Sorted
<1>3. m \in Nat /\ \A k \in Linked(0) : k \in Nat
  BY <1>2, LevelFacts, Numbers
<1> HIDE DEF m
<1>4. iter[r] \in IterState
  BY DEF ListTypeOK
<1>5. /\ iter'[r] = [iter[r] EXCEPT !.node = m, !.forward = TRUE, !.target = n + 1, !.had = Linked(0)]
      /\ \A q \in ListReader : q # r => iter'[q] = iter[q]
  BY <1>1 DEF ListTypeOK
<1>6. /\ iter'[r] \in IterState /\ iter'[r].pc = "idle" /\ iter'[r].node = m
      /\ iter'[r].forward = TRUE /\ iter'[r].target = n + 1 /\ iter'[r].had = Linked(0)
  <2>1. m \in Node \cup {Null, Junk} /\ Linked(0) \in SUBSET ListKey
    BY <1>2, LevelFacts DEF Node
  <2>2. n + 1 \in 1..Null
    <3>1. m <= Null
      BY <1>2, <1>3, LevelFacts, Numbers
    <3> QED
      BY <1>2, <1>3, <3>1, Numbers
  <2>3. iter'[r] \in IterState
    BY <1>4, <1>5, <2>1, <2>2 DEF IterState
  <2>4. iter'[r].pc = iter[r].pc /\ iter'[r].node = m /\ iter'[r].forward = TRUE
        /\ iter'[r].target = n + 1 /\ iter'[r].had = Linked(0)
    BY <1>4, <1>5 DEF IterState
  <2> QED
    BY <1>1, <2>3, <2>4
<1>7. iter' \in [ListReader -> IterState]
  <2>1. iter' = [q \in ListReader |-> iter'[q]]
    BY <1>1 DEF ListTypeOK
  <2>2. \A q \in ListReader : iter'[q] \in IterState
    BY <1>5, <1>6 DEF ListTypeOK
  <2> QED
    BY <2>1, <2>2
<1>8. \A i : Linked(i)' = Linked(i) /\ Standing(i)' = Standing(i)
  BY <1>1, ListKept
<1>9. Walking'
  <2>1. iter'[r].had \subseteq Linked(0)' /\ iter'[r].pc # "walk"
    BY <1>6, <1>8
  <2>2. \A q \in ListReader : q # r => iter'[q] = iter[q]
    BY <1>5
  <2> QED
    BY <1>8, <2>1, <2>2 DEF Walking
<1>10. m >= n + 1 /\ \A k \in Linked(0) : ~(n + 1 <= k /\ k < m)
  BY SMTT(30), <1>2, <1>3
<1>11. SearchExact'
  <2>1. /\ iter'[r].node \in Linked(0)' \cup {Null}
        /\ iter'[r].node >= iter'[r].target
        /\ ~\E k \in iter'[r].had : iter'[r].target <= k /\ k < iter'[r].node
    BY <1>2, <1>6, <1>8, <1>10
  <2> QED
    BY <1>5, <1>6, <1>8, <2>1 DEF SearchExact
<1> QED
  BY <1>1, <1>7, <1>9, <1>11, WriterKept DEF ListTypeOK

(* An iterator at a node of the list may go on from it.                    *)
LEMMA AtNode ==
    ASSUME ListInv, NEW r \in ListReader, iter[r].pc = "idle", iter[r].node \in ListKey
    PROVE  iter[r].node \in Standing(0) /\ iter[r].node \in 1..Null
<1>1. iter[r].node \in Linked(0) \cup {Null}
  BY DEF ListInv, SearchExact
<1>2. iter[r].node \in 1..Null
  <2>1. Null \in Nat /\ iter[r].node \in Nat /\ iter[r].node > 0 /\ iter[r].node < Null
    BY Numbers
  <2> QED
    BY <2>1
<1> QED
  BY <1>1, <1>2, LevelFacts DEF Standing

(* One round of a walk: to the next node of the level, down, or to its     *)
(* end.  The keys it has passed are all on the other side of its target.   *)
LEMMA WalkStepInv ==
    ASSUME ListInv, NEW r \in ListReader, WalkStep(r)
    PROVE  ListInv'
<1> USE DEF ListInv
<1>1. PICK w, n : w = iter[r] /\ n = next[w.x][w.level]
  OBVIOUS
<1>2. /\ next' = next /\ heights' = heights /\ insert' = insert /\ w.pc = "walk"
  BY <1>1 DEF WalkStep
<1>3. w \in IterState
  BY <1>1 DEF ListTypeOK
<1>4. /\ w.level \in ListLevel /\ w.target \in Nat /\ w.target <= Null /\ w.forward \in BOOLEAN
      /\ w.had \subseteq Linked(0) /\ w.had \subseteq ListKey
      /\ w.x \in Standing(w.level) /\ w.x < w.target
  <2>1. /\ w.level \in ListLevel /\ w.target \in 1..Null /\ w.forward \in BOOLEAN
        /\ w.had \subseteq ListKey
    BY <1>3 DEF IterState
  <2>2. w.target \in Nat /\ w.target <= Null
    BY <2>1, Numbers
  <2> QED
    BY <1>1, <1>2, <2>1, <2>2 DEF Walking
<1>5. /\ n \in Linked(w.level) \cup {Null} /\ w.x < n
      /\ \A k \in Linked(w.level) : ~(w.x < k /\ k < n)
  BY <1>1, <1>4 DEF Sorted
<1>6. n \in Nat /\ n # Junk /\ w.x \in Nat /\ w.x \in Node /\ w.level \in Nat
  <2>1. w.x \in Node /\ n \in ListKey \cup {Null}
    BY <1>4, <1>5, LevelFacts
  <2>2. \A k \in Node : k \in Nat
    BY LevelFacts
  <2>3. w.level \in Nat
    BY <1>4, LevelFacts
  <2>4. n \in Nat
    BY <2>1, Numbers
  <2> QED
    BY <2>1, <2>2, <2>3, <2>4 DEF Junk
<1>7. /\ \A q \in ListReader : q # r => iter'[q] = iter[q]
      /\ iter' = [q \in ListReader |-> iter'[q]]
      /\ iter'[r] = IF n < w.target THEN [w EXCEPT !.x = n]
                    ELSE IF w.level > 0 THEN [w EXCEPT !.level = w.level - 1]
                    ELSE IF w.forward THEN Ends(w, n)
                    ELSE Ends(w, IF w.x = HeadNode THEN Null ELSE w.x)
  BY <1>1, <1>6 DEF WalkStep, ListTypeOK
<1>8. \A i : Linked(i)' = Linked(i) /\ Standing(i)' = Standing(i)
  BY <1>2, ListKept
<1>9. SUFFICES ASSUME NEW v, v = iter'[r]
               PROVE  /\ v \in IterState
                      /\ v.had = w.had
                      /\ v.pc = "walk" => v.x \in Standing(v.level) /\ v.x < v.target
                      /\ v.pc = "idle" =>
                           LET at == IF v.forward \/ v.node # Null THEN v.node ELSE HeadNode
                           IN  /\ v.node \in Linked(0) \cup {Null}
                               /\ IF v.forward THEN at >= v.target ELSE at < v.target
                               /\ ~\E k \in v.had :
                                     IF v.forward THEN v.target <= k /\ k < at
                                                  ELSE at < k /\ k < v.target
  <2>1. PICK v : v = iter'[r]
    OBVIOUS
  <2>2. iter' \in [ListReader -> IterState]
    <3>1. \A q \in ListReader : iter'[q] \in IterState
      BY <1>7, <1>9, <2>1 DEF ListTypeOK
    <3> QED
      BY <1>7, <3>1
  <2>3. Walking'
    BY <1>4, <1>7, <1>8, <1>9, <2>1 DEF Walking
  <2>4. SearchExact'
    BY <1>7, <1>8, <1>9, <2>1 DEF SearchExact
  <2> QED
    BY <1>2, <2>2, <2>3, <2>4, WriterKept DEF ListTypeOK
<1>10. CASE n < w.target
  <2>1. v = [w EXCEPT !.x = n]
    BY <1>7, <1>9, <1>10
  <2>2. n \in Standing(w.level) /\ n \in Node
    <3>1. n # Null
      BY <1>4, <1>6, <1>10, Numbers
    <3> QED
      BY <1>5, <3>1, LevelFacts DEF Standing
  <2>3. /\ v \in IterState /\ v.had = w.had /\ v.pc = "walk" /\ v.x = n
        /\ v.level = w.level /\ v.target = w.target
    BY <1>2, <1>3, <2>1, <2>2 DEF IterState
  <2> QED
    BY <1>10, <2>2, <2>3
<1>11. CASE ~(n < w.target) /\ w.level > 0
  <2>1. v = [w EXCEPT !.level = w.level - 1]
    BY <1>7, <1>9, <1>11
  <2>2. w.level - 1 \in ListLevel /\ w.level - 1 <= w.level
    BY <1>4, <1>6, <1>11, LevelFacts
  <2>3. w.x \in Standing(w.level - 1)
    BY <1>4, <2>2 DEF Towers, Standing
  <2>4. /\ v \in IterState /\ v.had = w.had /\ v.pc = "walk" /\ v.x = w.x
        /\ v.level = w.level - 1 /\ v.target = w.target
    BY <1>2, <1>3, <2>1, <2>2 DEF IterState
  <2> QED
    BY <1>4, <2>3, <2>4
<1>12. CASE ~(n < w.target) /\ ~(w.level > 0)
  <2>1. w.level = 0 /\ n >= w.target
    BY <1>4, <1>6, <1>12
  <2>2. ASSUME NEW k \in w.had
        PROVE  k \in Linked(0) /\ k \in Nat /\ k > 0 /\ ~(w.x < k /\ k < n)
    BY <1>4, <1>5, <2>1, Numbers
  <2>3. CASE w.forward
    <3>1. v = [w EXCEPT !.pc = "idle", !.node = n]
      BY <1>7, <1>9, <1>12, <2>3 DEF Ends
    <3>2. n \in Node \cup {Null, Junk}
      BY <1>5, LevelFacts DEF Node
    <3>3. /\ v \in IterState /\ v.had = w.had /\ v.pc = "idle" /\ v.node = n
          /\ v.forward = w.forward /\ v.target = w.target
      BY <1>3, <3>1, <3>2 DEF IterState
    <3>4. ~\E k \in w.had : w.target <= k /\ k < n
      BY <1>4, <1>6, <2>2
    <3> QED
      BY <1>5, <2>1, <2>3, <3>3, <3>4
  <2>4. CASE ~w.forward
    <3> DEFINE node == IF w.x = HeadNode THEN Null ELSE w.x
    <3>1. v = [w EXCEPT !.pc = "idle", !.node = node]
      BY <1>7, <1>9, <1>12, <2>4 DEF Ends
    <3>2. node \in Linked(0) \cup {Null} /\ node \in Node \cup {Null, Junk}
      <4>1. w.x = HeadNode \/ w.x \in Linked(0)
        BY <1>4, <2>1 DEF Standing
      <4> QED
        BY <1>6, <4>1
    <3>3. (IF node # Null THEN node ELSE HeadNode) = w.x
      <4>1. w.x # Null
        BY <1>6, NullIsLast DEF Node, HeadNode
      <4> QED
        BY <4>1
    <3> HIDE DEF node
    <3>4. /\ v \in IterState /\ v.had = w.had /\ v.pc = "idle" /\ v.node = node
          /\ v.forward = w.forward /\ v.target = w.target
      BY <1>3, <3>1, <3>2 DEF IterState
    <3>5. ~\E k \in w.had : w.x < k /\ k < w.target
      BY <1>4, <1>6, <2>1, <2>2
    <3> QED
      BY <1>4, <2>4, <3>2, <3>3, <3>4, <3>5
  <2> QED
    BY <2>3, <2>4
<1> QED
  BY <1>10, <1>11, <1>12

-----------------------------------------------------------------------------
(* The specification.                                                      *)

(* The list is empty and its height is one.                                *)
LEMMA ListInitInv == ListInit => ListInv
<1> SUFFICES ASSUME ListInit PROVE ListInv
  OBVIOUS
<1> USE DEF ListInit
<1>1. 1 \in 1..ListHeight /\ 0 \in ListLevel /\ 0 \in Node /\ HeadNode = 0 /\ 0 < Null
  BY NullIsLast, LevelFacts DEF Node, HeadNode
<1>2. ListTypeOK
  <2>1. next \in [Node -> [ListLevel -> Node \cup {Null, Junk}]]
    OBVIOUS
  <2>2. insert \in InsertState
    BY <1>1 DEF InsertState
  <2>3. Null \in 1..Null
    BY NullIsLast
  <2>4. iter \in [ListReader -> IterState]
    BY <1>1, <2>3 DEF IterState
  <2> QED
    BY <1>1, <2>1, <2>2, <2>4 DEF ListTypeOK
<1>3. \A n \in Node, i \in ListLevel : next[n][i] \notin ListKey
  BY NullIsLast, LevelFacts DEF Junk
<1>4. \A i \in ListLevel : Linked(i) = {} /\ Standing(i) = {HeadNode}
  BY <1>3 DEF Linked, Standing
<1>5. Sorted
  BY <1>1, <1>4 DEF Sorted
<1>6. Towers
  BY <1>4 DEF Towers
<1>7. Linking
  BY <1>1, LevelFacts DEF Linking, Node
<1>8. Searching /\ Walking
  BY <1>4, <1>1 DEF Searching, Walking
<1>9. SearchExact
  <2>1. Null >= Null
    BY NullIsLast
  <2> QED
    BY <2>1 DEF SearchExact
<1> QED
  BY <1>2, <1>5, <1>6, <1>7, <1>8, <1>9 DEF ListInv

(* Every step of the writer and of the readers keeps the invariant.        *)
LEMMA ListStepInv == ListInv /\ [ListNext]_listVars => ListInv'
<1> SUFFICES ASSUME ListInv, [ListNext]_listVars PROVE ListInv'
  OBVIOUS
<1>1. CASE UNCHANGED listVars
  BY <1>1 DEF listVars, ListInv, ListTypeOK, Sorted, Towers, Searching, Linking, Walking,
              SearchExact, Linked, Standing, Found
<1>2. ASSUME NEW k \in ListKey, InsertKey(k) PROVE ListInv'
  BY <1>2, InsertKeyInv
<1>3. CASE FindStep
  BY <1>3, FindStepInv
<1>4. CASE GrowStep
  BY <1>4, GrowStepInv
<1>5. CASE LinkStep
  BY <1>5, InitStepInv, PublishStepInv DEF LinkStep
<1>6. ASSUME NEW r \in ListReader, NEW k \in ListKey, Seek(r, k) PROVE ListInv'
  <2>1. k \in 1..Null
    BY Numbers
  <2> QED
    BY <1>6, <2>1, StartsInv DEF Seek
<1>7. ASSUME NEW r \in ListReader, SeekToFirst(r) PROVE ListInv'
  BY <1>7, FollowsInv DEF SeekToFirst, Standing
<1>8. ASSUME NEW r \in ListReader, SeekToLast(r) PROVE ListInv'
  <2>1. Null \in 1..Null
    BY NullIsLast
  <2> QED
    BY <1>8, <2>1, StartsInv DEF SeekToLast
<1>9. ASSUME NEW r \in ListReader, IterNextNode(r) PROVE ListInv'
  BY <1>9, AtNode, FollowsInv DEF IterNextNode, Follows
<1>10. ASSUME NEW r \in ListReader, IterPrevNode(r) PROVE ListInv'
  BY <1>10, AtNode, StartsInv DEF IterPrevNode, Starts
<1>11. ASSUME NEW r \in ListReader, WalkStep(r) PROVE ListInv'
  BY <1>11, WalkStepInv
<1> QED
  BY <1>1, <1>2, <1>3, <1>4, <1>5, <1>6, <1>7, <1>8, <1>9, <1>10, <1>11 DEF ListNext

(* The invariant of the list: sorted at every level, every tower standing  *)
(* on the level below, the writer's notes right (SkipList::Insert, FindNode*)
(* functions of db/skiplist.h).                                            *)
THEOREM ListInvariance == ListSpec => []ListInv
  BY ListInitInv, ListStepInv, PTL DEF ListSpec

(* What a reader without a lock finds (Seek, Next, Prev of an iterator     *)
(* while SkipList::Insert publishes a node level by level): it ends at a   *)
(* linked node on the right side of its target, has passed no key that was *)
(* there when it began, and has followed no pointer that was not stored.   *)
THEOREM SearchAlwaysExact == ListSpec => []SearchExact
<1>1. ListInv => SearchExact
  BY DEF ListInv
<1> QED
  BY <1>1, ListInvariance, PTL

-----------------------------------------------------------------------------
(***************************************************************************)
(* The table cache.                                                        *)
(*                                                                         *)
(* An entry is counted once for each of its readers and once for the cache.*)
(* This part is independent of the table of the cache and holds even while *)
(* the lock is held; the table comes to agree with it before it is let go. *)
(***************************************************************************)
HIDE ListAssumption

\* A set of natural numbers that is not empty has a least.
LEMMA LeastOfNats ==
    ASSUME NEW S \in SUBSET Nat, S # {}
    PROVE  \E x \in S : \A y \in S : x <= y
<1>1. PICK x \in S : \A y \in S : <<y, x>> \notin OpToRel(<, Nat)
  BY ZenonT(60), NatLessThanWellFounded, WFMin
<1>2. \A y \in S : ~(y < x)
  BY <1>1 DEF OpToRel
<1> QED
  BY <1>2

\* s has the sums of the first 0, 1, ..., n values of w.
Sums(s, w, n) ==
    /\ s \in [0..n -> Int] /\ s[0] = 0
    /\ \A k \in 1..n : w[k] \in Int /\ s[k] = s[k - 1] + w[k]

Total(w, n, u) == \E s : Sums(s, w, n) /\ s[n] = u

\* Sums are of the values and of nothing else.
LEMMA TotalOfSame ==
    ASSUME NEW n \in Nat, NEW w, NEW v, NEW u, Total(w, n, u), \A k \in 1..n : v[k] = w[k]
    PROVE  Total(v, n, u)
BY DEF Total, Sums

\* One more value.
LEMMA TotalGrows ==
    ASSUME NEW n \in Nat, NEW w, NEW v, NEW u \in Int, Total(w, n, u),
           \A k \in 1..n : v[k] = w[k], v[n + 1] \in Int
    PROVE  Total(v, n + 1, u + v[n + 1])
<1>1. PICK s : Sums(s, w, n) /\ s[n] = u
  BY DEF Total
<1> DEFINE t == [k \in 0..n + 1 |-> IF k = n + 1 THEN u + v[n + 1] ELSE s[k]]
<1>2. s \in [0..n -> Int] /\ s[0] = 0 /\ \A k \in 1..n : w[k] \in Int /\ s[k] = s[k - 1] + w[k]
  BY <1>1 DEF Sums
<1>3. t \in [0..n + 1 -> Int] /\ t[0] = 0 /\ t[n + 1] = u + v[n + 1]
  BY <1>2
<1>4. ASSUME NEW k \in 1..n + 1 PROVE t[k] = t[k - 1] + v[k]
  <2>1. CASE k = n + 1
    <3>1. t[k - 1] = s[n]
      BY <2>1
    <3> QED
      BY <1>1, <1>3, <2>1, <3>1
  <2>2. CASE k # n + 1
    <3>1. k \in 1..n /\ k - 1 \in 0..n
      BY <1>4, <2>2
    <3>2. t[k] = s[k] /\ t[k - 1] = s[k - 1]
      BY <3>1
    <3> QED
      BY <1>2, <3>1, <3>2
  <2> QED
    BY <2>1, <2>2
<1>4a. \A k \in 1..n + 1 : v[k] \in Int
  <2>1. \A k \in 1..n + 1 : k \in 1..n \/ k = n + 1
    OBVIOUS
  <2> QED
    BY <1>2, <2>1
<1> HIDE DEF t
<1>5. Sums(t, v, n + 1)
  BY <1>3, <1>4, <1>4a DEF Sums
<1> QED
  BY <1>3, <1>5 DEF Total

\* One value changes.
LEMMA TotalChanges ==
    ASSUME NEW n \in Nat, NEW w, NEW v, NEW u \in Int, Total(w, n, u),
           NEW h \in 1..n, \A k \in 1..n : k # h => v[k] = w[k], w[h] \in Int, v[h] \in Int
    PROVE  Total(v, n, u - w[h] + v[h])
<1>1. PICK s : Sums(s, w, n) /\ s[n] = u
  BY DEF Total
<1> DEFINE t == [k \in 0..n |-> IF k < h THEN s[k] ELSE s[k] - w[h] + v[h]]
<1>2. s \in [0..n -> Int] /\ s[0] = 0 /\ \A k \in 1..n : w[k] \in Int /\ s[k] = s[k - 1] + w[k]
  BY <1>1 DEF Sums
<1>3. t \in [0..n -> Int] /\ t[0] = 0
  <2>1. \A k \in 0..n : s[k] \in Int /\ s[k] - w[h] + v[h] \in Int
    BY <1>2
  <2>2. 0 < h /\ 0 \in 0..n
    OBVIOUS
  <2> QED
    BY <1>2, <2>1, <2>2
<1>4. t[n] = u - w[h] + v[h]
  BY <1>1
<1>5. ASSUME NEW k \in 1..n PROVE t[k] = t[k - 1] + v[k]
  <2>1. k \in 0..n /\ k - 1 \in 0..n /\ s[k] \in Int /\ s[k - 1] \in Int /\ s[k] = s[k - 1] + w[k]
    BY <1>2
  <2>2. CASE k < h
    <3>1. t[k] = s[k] /\ t[k - 1] = s[k - 1] /\ v[k] = w[k]
      BY <2>1, <2>2
    <3> QED
      BY <2>1, <3>1
  <2>3. CASE k = h
    <3>1. t[k] = s[k] - w[h] + v[h] /\ t[k - 1] = s[k - 1]
      BY <2>1, <2>3
    <3> QED
      BY <2>1, <2>3, <3>1
  <2>4. CASE k > h
    <3>1. t[k] = s[k] - w[h] + v[h] /\ t[k - 1] = s[k - 1] - w[h] + v[h] /\ v[k] = w[k]
      BY <2>1, <2>4
    <3>2. w[k] \in Int
      BY <1>2
    <3> QED
      BY <2>1, <3>1, <3>2
  <2> QED
    BY <2>2, <2>3, <2>4
<1>5a. \A k \in 1..n : v[k] \in Int
  BY <1>2
<1> HIDE DEF t
<1>6. Sums(t, v, n)
  BY <1>3, <1>5, <1>5a DEF Sums
<1> QED
  BY <1>4, <1>6 DEF Total

\* Charged is such a sum.
LEMMA ChargedIsTotal ==
    ASSUME NEW w, NEW u, Len(entry) \in Nat, Total(w, Len(entry), u),
           \A k \in 1..Len(entry) : w[k] = IF InTable(k) THEN entry[k].charge ELSE 0
    PROVE  Charged = u
<1> DEFINE n == Len(entry)
           E(s) == [k \in 0..n |->
                      IF k = 0 THEN 0 ELSE s[k - 1] + (IF InTable(k) THEN entry[k].charge ELSE 0)]
           c == CHOOSE s : s = E(s)
<1>1. PICK s : Sums(s, w, n) /\ s[n] = u
  BY DEF Total
<1>2. s = E(s)
  <2>1. s \in [0..n -> Int] /\ s[0] = 0
    BY <1>1 DEF Sums
  <2>2. \A k \in 1..n : s[k] = s[k - 1] + (IF InTable(k) THEN entry[k].charge ELSE 0)
    BY <1>1 DEF Sums
  <2>3. \A k \in 0..n : k = 0 \/ k \in 1..n
    OBVIOUS
  <2>4. \A k \in 0..n : s[k] = IF k = 0 THEN 0
                                ELSE s[k - 1] + (IF InTable(k) THEN entry[k].charge ELSE 0)
    BY <2>1, <2>2, <2>3
  <2> QED
    BY <2>1, <2>4
<1>3. c = E(c)
  BY <1>2
<1>4. ASSUME NEW k \in 0..n PROVE c[k] = s[k]
  <2> DEFINE Bad == {l \in 0..n : c[l] # s[l]}
  <2>1. SUFFICES ASSUME Bad # {} PROVE FALSE
    BY <1>4
  <2>2. PICK l \in Bad : \A m \in Bad : l <= m
    <3>1. Bad \in SUBSET Nat
      OBVIOUS
    <3> HIDE DEF Bad
    <3> QED
      BY <2>1, <3>1, LeastOfNats
  <2>3. \A m \in 0..n : c[m] = IF m = 0 THEN 0 ELSE c[m - 1] + (IF InTable(m) THEN entry[m].charge ELSE 0)
    BY <1>3
  <2>4. \A m \in 0..n : s[m] = IF m = 0 THEN 0 ELSE s[m - 1] + (IF InTable(m) THEN entry[m].charge ELSE 0)
    BY <1>2
  <2>5. l # 0
    BY <2>2, <2>3, <2>4
  <2>6. l \in 0..n /\ l - 1 \in 0..n /\ l - 1 \notin Bad
    BY <2>2, <2>5
  <2>7. c[l - 1] = s[l - 1]
    BY <2>6
  <2> HIDE DEF c
  <2> QED
    BY <2>2, <2>3, <2>4, <2>5, <2>6, <2>7
<1>5. Charged = c[n]
  BY DEF Charged
<1> QED
  BY <1>1, <1>4, <1>5

\* A list by its positions.
LEMMA ListFacts ==
    ASSUME NEW s \in Seq(Nat)
    PROVE  /\ Len(s) \in Nat /\ DOMAIN s = 1..Len(s) /\ \A k \in 1..Len(s) : s[k] \in Nat
           /\ IsInjective(s) <=> \A i, j \in 1..Len(s) : s[i] = s[j] => i = j
           /\ \A x : x \in ToSet(s) <=> \E k \in 1..Len(s) : s[k] = x
<1>1. Len(s) \in Nat /\ DOMAIN s = 1..Len(s) /\ \A k \in 1..Len(s) : s[k] \in Nat
  OBVIOUS
<1>2. IsInjective(s) <=> \A i, j \in 1..Len(s) : s[i] = s[j] => i = j
  BY <1>1 DEF IsInjective
<1>3. \A x : x \in ToSet(s) <=> \E k \in 1..Len(s) : s[k] = x
  BY <1>1 DEF ToSet
<1> QED
  BY <1>1, <1>2, <1>3

\* The LRU list as a list without repetition.
LEMMA ListWithout ==
    ASSUME NEW s \in Seq(Nat), IsInjective(s), NEW h
    PROVE  /\ RemoveFirst(s, h) \in Seq(Nat) /\ IsInjective(RemoveFirst(s, h))
           /\ \A x : x \in ToSet(RemoveFirst(s, h)) <=> x \in ToSet(s) /\ x # h
<1>1. CASE ~\E i \in 1..Len(s) : s[i] = h
  <2>1. RemoveFirst(s, h) = s
    BY <1>1 DEF RemoveFirst
  <2>2. h \notin ToSet(s)
    BY <1>1 DEF ToSet
  <2> QED
    BY <2>1, <2>2
<1>2. CASE \E i \in 1..Len(s) : s[i] = h
  <2> DEFINE I == {i \in 1..Len(s) : s[i] = h}
  <2>1. I # {} /\ I \in SUBSET Int
    BY <1>2
  <2>2. PICK i \in I : I = {i}
    <3>1. \A i, j \in I : i = j
      BY ListFacts
    <3> QED
      BY <2>1, <3>1
  <2>3. Min(I) = i
    <3>1. i \in Int /\ i <= i
      BY <2>1, <2>2
    <3> HIDE DEF I
    <3> QED
      BY <2>2, <3>1 DEF Min
  <2>4. RemoveFirst(s, h) = RemoveAt(s, i)
    <3>1. SelectInSeq(s, LAMBDA v : v = h) = IF I # {} THEN Min(I) ELSE 0
      BY DEF SelectInSeq
    <3>2. SelectInSeq(s, LAMBDA v : v = h) = i
      BY <2>1, <2>3, <3>1
    <3> QED
      BY <1>2, <3>2 DEF RemoveFirst
  <2>5. i \in 1..Len(s) /\ s[i] = h /\ Len(s) \in Nat
    BY <2>2
  <2> DEFINE a == SubSeq(s, 1, i - 1)
             b == SubSeq(s, i + 1, Len(s))
             t == a \o b
  <2>6. a \in Seq(Nat) /\ Len(a) = i - 1 /\ \A k \in 1..i - 1 : a[k] = s[k]
    BY <2>5
  <2>7. b \in Seq(Nat) /\ Len(b) = Len(s) - i /\ \A k \in 1..Len(s) - i : b[k] = s[i + k]
    <3>1. i + 1 \in Nat /\ Len(s) \in Nat /\ i + 1 \in 1..Len(s) + 1
      BY <2>5
    <3>2. /\ b \in Seq(Nat) /\ Len(b) = Len(s) - (i + 1) + 1
          /\ \A k \in 1..Len(s) - (i + 1) + 1 : b[k] = s[(i + 1) + k - 1]
      <4>1. Len(s) \in (i + 1) - 1..Len(s)
        BY <2>5
      <4> QED
        BY <3>1, <4>1, SubSeqProperties
    <3>3. ASSUME NEW k \in 1..Len(s) - i PROVE b[k] = s[i + k]
      <4>1. k \in 1..Len(s) - (i + 1) + 1 /\ (i + 1) + k - 1 = i + k
        BY <2>5, <3>1
      <4> QED
        BY <3>2, <4>1
    <3>4. Len(s) - (i + 1) + 1 = Len(s) - i
      BY <2>5, <3>1
    <3> HIDE DEF b
    <3>5. Len(b) = Len(s) - i
      BY <3>2, <3>4
    <3> QED
      BY <3>2, <3>3, <3>5
  <2> HIDE DEF a, b
  <2>8. t \in Seq(Nat) /\ Len(t) = Len(s) - 1
    <3>1. t \in Seq(Nat) /\ Len(t) = Len(a) + Len(b)
      BY <2>6, <2>7, ConcatProperties
    <3>2. Len(a) + Len(b) = Len(s) - 1
      BY <2>5, <2>6, <2>7
    <3> QED
      BY <3>1, <3>2
  <2>9. \A k \in 1..Len(s) - 1 : t[k] = IF k < i THEN s[k] ELSE s[k + 1]
    <3>1. SUFFICES ASSUME NEW k \in 1..Len(s) - 1 PROVE t[k] = IF k < i THEN s[k] ELSE s[k + 1]
      OBVIOUS
    <3>2. CASE k < i
      BY <2>5, <2>6, <2>7, <3>2
    <3>3. CASE ~(k < i)
      <4>0. k \in Nat /\ i \in Nat /\ Len(s) \in Nat /\ k <= Len(s) - 1 /\ k >= i /\ i >= 1
        BY <2>5, <3>3
      <4>1. k - (i - 1) \in 1..Len(s) - i /\ i + (k - (i - 1)) = k + 1
        BY <4>0
      <4>2. t[k] = b[k - (i - 1)]
        <5>1. k > Len(a) /\ k <= Len(a) + Len(b) /\ k - Len(a) = k - (i - 1)
          BY SMTT(30), <2>6, <2>7, <4>0
        <5>2. k \in 1..Len(a) + Len(b)
          BY <4>0, <5>1
        <5>3. t[k] = IF k <= Len(a) THEN a[k] ELSE b[k - Len(a)]
          BY <2>6, <2>7, <5>2, ConcatProperties
        <5> QED
          BY <2>6, <4>0, <5>1, <5>3
      <4> QED
        BY <2>7, <3>3, <4>1, <4>2
    <3> QED
      BY <3>2, <3>3
  <2>10. t = RemoveFirst(s, h)
    BY <2>4 DEF RemoveAt, a, b
  <2> HIDE DEF t
  <2>11. IsInjective(t)
    <3>1. SUFFICES ASSUME NEW k \in 1..Len(s) - 1, NEW l \in 1..Len(s) - 1, t[k] = t[l] PROVE k = l
      BY <2>8, ListFacts
    <3>2. \A k1, l1 \in 1..Len(s) : s[k1] = s[l1] => k1 = l1
      BY ListFacts
    <3>3. k \in 1..Len(s) /\ k + 1 \in 1..Len(s) /\ l \in 1..Len(s) /\ l + 1 \in 1..Len(s)
      BY SMTT(30), <2>5
    <3> QED
      BY SMTT(30), <2>5, <2>9, <3>1, <3>2, <3>3
  <2>12. ASSUME NEW x PROVE x \in ToSet(t) <=> x \in ToSet(s) /\ x # h
    <3>1. x \in ToSet(t) <=> \E k \in 1..Len(s) - 1 : t[k] = x
      BY <2>8, ListFacts
    <3>2. x \in ToSet(s) <=> \E k \in 1..Len(s) : s[k] = x
      BY ListFacts
    <3>3. ASSUME NEW k \in 1..Len(s) - 1, t[k] = x PROVE x \in ToSet(s) /\ x # h
      <4>1. k \in 1..Len(s) /\ k + 1 \in 1..Len(s)
        BY <2>5
      <4>2. PICK l \in 1..Len(s) : l # i /\ x = s[l]
        BY SMTT(30), <2>5, <2>9, <3>3, <4>1
      <4>3. s[l] # s[i]
        BY <2>5, <4>2, ListFacts
      <4> QED
        BY <2>5, <3>2, <4>2, <4>3
    <3>4. ASSUME NEW k \in 1..Len(s), s[k] = x, x # h PROVE x \in ToSet(t)
      <4>1. k # i
        BY <2>5, <3>4
      <4>2. CASE k < i
        BY <2>5, <2>9, <3>1, <3>4, <4>2, k \in 1..Len(s) - 1
      <4>3. CASE k > i
        <5>0. k \in Nat /\ i \in Nat /\ i >= 1 /\ k <= Len(s) /\ Len(s) \in Nat
          BY <2>5
        <5>1. k - 1 \in 1..Len(s) - 1 /\ ~(k - 1 < i) /\ (k - 1) + 1 = k
          BY <4>3, <5>0
        <5>2. t[k - 1] = s[k]
          BY <2>9, <5>1
        <5> QED
          BY <3>1, <3>4, <5>1, <5>2
      <4> QED
        BY <2>5, <4>1, <4>2, <4>3
    <3> QED
      BY <3>1, <3>2, <3>3, <3>4
  <2> QED
    BY <2>8, <2>10, <2>11, <2>12
<1> QED
  BY <1>1, <1>2

\* And with one number more.
LEMMA ListWith ==
    ASSUME NEW s \in Seq(Nat), IsInjective(s), NEW h \in Nat, h \notin ToSet(s)
    PROVE  /\ Append(s, h) \in Seq(Nat) /\ IsInjective(Append(s, h))
           /\ \A x : x \in ToSet(Append(s, h)) <=> x \in ToSet(s) \/ x = h
<1> DEFINE t == Append(s, h)
<1>1. t \in Seq(Nat) /\ Len(t) = Len(s) + 1 /\ Len(s) \in Nat
  OBVIOUS
<1>2. \A k \in 1..Len(s) : t[k] = s[k] /\ s[k] # h
  BY ListFacts
<1>3. t[Len(s) + 1] = h
  OBVIOUS
<1> HIDE DEF t
<1>4a. \A k \in 1..Len(s) + 1 : k \in 1..Len(s) \/ k = Len(s) + 1
  BY <1>1
<1>4. IsInjective(t)
  <2>1. \A i, j \in 1..Len(s) : s[i] = s[j] => i = j
    BY ListFacts
  <2>2. \A i, j \in 1..Len(s) + 1 : t[i] = t[j] => i = j
    BY <1>2, <1>3, <1>4a, <2>1
  <2> QED
    BY <1>1, <2>2, ListFacts
<1>5. ASSUME NEW x PROVE x \in ToSet(t) <=> x \in ToSet(s) \/ x = h
  <2>1. x \in ToSet(t) <=> \E k \in 1..Len(s) + 1 : t[k] = x
    BY <1>1, ListFacts
  <2>2. x \in ToSet(s) <=> \E k \in 1..Len(s) : s[k] = x
    BY ListFacts
  <2>3. \A k \in 1..Len(s) : k \in 1..Len(s) + 1
    BY <1>1
  <2>4. Len(s) + 1 \in 1..Len(s) + 1
    BY <1>1
  <2>5. ASSUME x \in ToSet(s) PROVE x \in ToSet(t)
    BY <1>2, <2>1, <2>2, <2>3, <2>5
  <2>6. ASSUME x \in ToSet(t) PROVE x \in ToSet(s) \/ x = h
    BY <1>2, <1>3, <1>4a, <2>1, <2>2, <2>6
  <2> QED
    BY <1>3, <2>1, <2>4, <2>5, <2>6
<1> QED
  BY <1>1, <1>4, <1>5 DEF t

HandleRec == [key : CacheFile, charge : Nat, refs : Nat, inCache : BOOLEAN, freed : BOOLEAN]
CacheValue == [entry : Seq(HandleRec), table : [CacheFile -> Nat], lru : Seq(Nat), usage : Int]

\* An entry counts its users and the cache, and is freed with the last.
Counts(e, users) ==
    /\ users \in SUBSET CacheReader
    /\ e.refs = Cardinality(users) + (IF e.inCache THEN 1 ELSE 0)
    /\ e.freed <=> users = {} /\ ~e.inCache

Part(e) == IF e.inCache THEN e.charge ELSE 0
Parts(c) == [h \in 1..Len(c.entry) |-> Part(c.entry[h])]

\* The entries, for the users U of each.
Handles(c, U) ==
    /\ c \in CacheValue
    /\ \A h \in 1..Len(c.entry) : Counts(c.entry[h], U[h])
    /\ IsInjective(c.lru)
    /\ \A h : h \in ToSet(c.lru) <=> h \in 1..Len(c.entry) /\ c.entry[h].inCache /\ U[h] = {}
    /\ Total(Parts(c), Len(c.entry), c.usage)

\* The table agrees with them.
TableGood(c) ==
    /\ \A f \in CacheFile : c.table[f] # 0 =>
         /\ c.table[f] \in 1..Len(c.entry)
         /\ c.entry[c.table[f]].inCache /\ c.entry[c.table[f]].key = f
    /\ \A h \in 1..Len(c.entry) : c.entry[h].inCache => c.table[c.entry[h].key] = h

\* An entry stays what it is for.
Lasting(c, d) ==
    /\ Len(c.entry) <= Len(d.entry)
    /\ \A h \in 1..Len(c.entry) : d.entry[h].key = c.entry[h].key

\* An entry field by field.
LEMMA HandleFields ==
    ASSUME NEW y, y \in HandleRec
    PROVE  /\ y.key \in CacheFile /\ y.charge \in Nat /\ y.refs \in Nat
           /\ y.inCache \in BOOLEAN /\ y.freed \in BOOLEAN
BY DEF HandleRec

\* One field changes.
LEMMA HandleRefs ==
    ASSUME NEW y, y \in HandleRec, NEW n, n \in Nat
    PROVE  [y EXCEPT !.refs = n]
             = [key |-> y.key, charge |-> y.charge, refs |-> n, inCache |-> y.inCache, freed |-> y.freed]
BY DEF HandleRec

\* One field changes.
LEMMA HandleInCache ==
    ASSUME NEW y, y \in HandleRec, NEW b, b \in BOOLEAN
    PROVE  [y EXCEPT !.inCache = b]
             = [key |-> y.key, charge |-> y.charge, refs |-> y.refs, inCache |-> b, freed |-> y.freed]
BY DEF HandleRec

\* Two fields change.
LEMMA HandleFreed ==
    ASSUME NEW y, y \in HandleRec, NEW n, n \in Nat, NEW b, b \in BOOLEAN
    PROVE  [y EXCEPT !.refs = n, !.freed = b]
             = [key |-> y.key, charge |-> y.charge, refs |-> n, inCache |-> y.inCache, freed |-> b]
<1>1. PICK w : w = [y EXCEPT !.refs = n]
  OBVIOUS
<1>2. w \in HandleRec
  BY <1>1 DEF HandleRec
<1>3. w.key = y.key /\ w.charge = y.charge /\ w.refs = n /\ w.inCache = y.inCache
  BY <1>1 DEF HandleRec
<1>4. [w EXCEPT !.freed = b]
        = [key |-> w.key, charge |-> w.charge, refs |-> w.refs, inCache |-> w.inCache, freed |-> b]
  BY <1>2 DEF HandleRec
<1>5. [y EXCEPT !.refs = n, !.freed = b] = [w EXCEPT !.freed = b]
  BY <1>1
<1> QED
  BY <1>3, <1>4, <1>5

\* An entry with these fields is one.
LEMMA HandleOf ==
    ASSUME NEW f, f \in CacheFile, NEW g, g \in Nat, NEW n, n \in Nat, NEW a, a \in BOOLEAN,
           NEW b, b \in BOOLEAN
    PROVE  [key |-> f, charge |-> g, refs |-> n, inCache |-> a, freed |-> b] \in HandleRec
BY DEF HandleRec

\* The value with one entry changed.
Changed(c, h, e, l, u) ==
    [entry |-> [c.entry EXCEPT ![h] = e], table |-> c.table, lru |-> l, usage |-> u]

\* The cache field by field.
LEMMA ValueFacts ==
    ASSUME NEW c \in CacheValue
    PROVE  /\ c.entry \in Seq(HandleRec) /\ Len(c.entry) \in Nat
           /\ c.table \in [CacheFile -> Nat] /\ c.lru \in Seq(Nat) /\ c.usage \in Int
           /\ \A h \in 1..Len(c.entry) : c.entry[h] \in HandleRec
BY DEF CacheValue

\* Field by field.
LEMMA ChangedFacts ==
    ASSUME NEW c \in CacheValue, NEW h \in 1..Len(c.entry), NEW e \in HandleRec,
           NEW l \in Seq(Nat), NEW u \in Int
    PROVE  /\ Changed(c, h, e, l, u) \in CacheValue
           /\ Len(Changed(c, h, e, l, u).entry) = Len(c.entry)
           /\ Changed(c, h, e, l, u).entry[h] = e
           /\ \A k \in 1..Len(c.entry) : k # h => Changed(c, h, e, l, u).entry[k] = c.entry[k]
           /\ Changed(c, h, e, l, u).table = c.table
           /\ Changed(c, h, e, l, u).lru = l /\ Changed(c, h, e, l, u).usage = u
<1> DEFINE es == [c.entry EXCEPT ![h] = e]
<1>1. c.entry \in Seq(HandleRec) /\ c.table \in [CacheFile -> Nat] /\ Len(c.entry) \in Nat
  BY ValueFacts
<1>2. es \in Seq(HandleRec) /\ Len(es) = Len(c.entry) /\ es[h] = e
      /\ \A k \in 1..Len(c.entry) : k # h => es[k] = c.entry[k]
  BY <1>1
<1>3. Changed(c, h, e, l, u) = [entry |-> es, table |-> c.table, lru |-> l, usage |-> u]
  BY DEF Changed
<1> HIDE DEF es
<1> QED
  BY SMTT(30), <1>1, <1>2, <1>3 DEF CacheValue

\* A change of one entry and of its users keeps all, if it counts them.
LEMMA HandlesKept ==
    ASSUME NEW c, NEW U, NEW V, Handles(c, U), NEW h \in 1..Len(c.entry), NEW e \in HandleRec,
           e.charge = c.entry[h].charge,
           \A k \in 1..Len(c.entry) : k # h => V[k] = U[k], Counts(e, V[h]),
           NEW l \in Seq(Nat), IsInjective(l),
           \A k : k \in ToSet(l) <=> IF k = h THEN e.inCache /\ V[h] = {} ELSE k \in ToSet(c.lru),
           NEW u \in Int, u = c.usage - Part(c.entry[h]) + Part(e)
    PROVE  Handles(Changed(c, h, e, l, u), V)
<1>1. /\ c \in CacheValue /\ IsInjective(c.lru)
      /\ \A k \in 1..Len(c.entry) : Counts(c.entry[k], U[k])
      /\ \A k : k \in ToSet(c.lru) <=> k \in 1..Len(c.entry) /\ c.entry[k].inCache /\ U[k] = {}
      /\ Total(Parts(c), Len(c.entry), c.usage)
  BY DEF Handles
<1>2. PICK d : d = Changed(c, h, e, l, u)
  OBVIOUS
<1>3. /\ d \in CacheValue /\ Len(d.entry) = Len(c.entry) /\ d.entry[h] = e
      /\ \A k \in 1..Len(c.entry) : k # h => d.entry[k] = c.entry[k]
      /\ d.table = c.table /\ d.lru = l /\ d.usage = u
  BY <1>1, <1>2, ChangedFacts
<1>4. \A k \in 1..Len(d.entry) : Counts(d.entry[k], V[k])
  BY <1>1, <1>3
<1>5. \A k : k \in ToSet(d.lru) <=> k \in 1..Len(d.entry) /\ d.entry[k].inCache /\ V[k] = {}
  BY <1>1, <1>3
<1>6. Total(Parts(d), Len(d.entry), d.usage)
  <2>1. Len(c.entry) \in Nat /\ c.usage \in Int /\ \A k \in 1..Len(c.entry) : c.entry[k] \in HandleRec
    BY <1>1, ValueFacts
  <2>2. Part(c.entry[h]) \in Int /\ Part(e) \in Int
    BY <2>1 DEF HandleRec, Part
  <2>3. /\ \A k \in 1..Len(c.entry) : k # h => Parts(d)[k] = Parts(c)[k]
        /\ Parts(d)[h] = Part(e) /\ Parts(c)[h] = Part(c.entry[h])
    BY <1>3 DEF Parts
  <2>4. Total(Parts(d), Len(c.entry), c.usage - Parts(c)[h] + Parts(d)[h])
    <3>1. PICK n, w, v, x : n = Len(c.entry) /\ w = Parts(c) /\ v = Parts(d) /\ x = c.usage
      OBVIOUS
    <3>2. n \in Nat /\ x \in Int /\ Total(w, n, x) /\ h \in 1..n
      BY <1>1, <2>1, <3>1
    <3>3. w[h] \in Int /\ v[h] \in Int /\ \A k \in 1..n : k # h => v[k] = w[k]
      BY <2>2, <2>3, <3>1
    <3>4. Total(v, n, x - w[h] + v[h])
      BY <3>2, <3>3, TotalChanges
    <3> QED
      BY <3>1, <3>4
  <2> QED
    BY <1>3, <2>3, <2>4
<1>7. Handles(d, V)
  BY <1>3, <1>4, <1>5, <1>6 DEF Handles
<1> QED
  BY <1>2, <1>7

\* The table is of keys and of what is in the cache.
LEMMA SameTable ==
    ASSUME NEW c, NEW d, TableGood(c), Len(c.entry) \in Nat, Len(d.entry) = Len(c.entry),
           d.table = c.table,
           \A k \in 1..Len(c.entry) : d.entry[k].key = c.entry[k].key /\ d.entry[k].inCache = c.entry[k].inCache
    PROVE  TableGood(d) /\ Lasting(c, d)
<1>1. \A f \in CacheFile : d.table[f] # 0 =>
         /\ d.table[f] \in 1..Len(d.entry)
         /\ d.entry[d.table[f]].inCache /\ d.entry[d.table[f]].key = f
  BY SMTT(30) DEF TableGood
<1>2. \A h \in 1..Len(d.entry) : d.entry[h].inCache => d.table[d.entry[h].key] = h
  BY DEF TableGood
<1>3. Lasting(c, d)
  BY DEF Lasting
<1> QED
  BY <1>1, <1>2, <1>3 DEF TableGood

\* Users are finitely many.
LEMMA UsersCounted ==
    ASSUME CacheAssumption, NEW T, T \in SUBSET CacheReader
    PROVE  Cardinality(T) \in Nat /\ (Cardinality(T) = 0 <=> T = {})
<1>1. IsFiniteSet(T)
  BY FS_Subset DEF CacheAssumption
<1> QED
  BY <1>1, FS_CardinalityType, FS_EmptySet

\* One user more, who was not one.
LEMMA UsersGrow ==
    ASSUME CacheAssumption, NEW T \in SUBSET CacheReader, NEW r \in CacheReader
    PROVE  /\ Cardinality(T) \in Nat /\ (Cardinality(T) = 0 <=> T = {})
           /\ r \notin T => Cardinality(T \cup {r}) = Cardinality(T) + 1
           /\ r \in T => Cardinality(T \ {r}) = Cardinality(T) - 1
<1>1. IsFiniteSet(T)
  BY FS_Subset DEF CacheAssumption
<1> QED
  BY <1>1, FS_CardinalityType, FS_EmptySet, FS_AddElement, FS_RemoveElement

\* The cache lets a handle out.
LEMMA RefKeeps ==
    ASSUME CacheAssumption, NEW c, NEW U, NEW V, Handles(c, U), TableGood(c),
           NEW h \in 1..Len(c.entry), c.entry[h].inCache,
           NEW r \in CacheReader, r \notin U[h], V[h] = U[h] \cup {r},
           \A k \in 1..Len(c.entry) : k # h => V[k] = U[k]
    PROVE  Handles(Ref(c, h), V) /\ TableGood(Ref(c, h)) /\ Lasting(c, Ref(c, h))
<1> DEFINE x == c.entry[h]
           e == [key |-> x.key, charge |-> x.charge, refs |-> x.refs + 1, inCache |-> x.inCache,
                 freed |-> x.freed]
           l == IF c.entry[h].refs = 1 THEN RemoveFirst(c.lru, h) ELSE c.lru
<1>1. /\ c \in CacheValue /\ IsInjective(c.lru) /\ Counts(c.entry[h], U[h])
      /\ \A k : k \in ToSet(c.lru) <=> k \in 1..Len(c.entry) /\ c.entry[k].inCache /\ U[k] = {}
  BY DEF Handles
<1>2. /\ c.entry[h] \in HandleRec /\ c.lru \in Seq(Nat) /\ c.usage \in Int /\ c.entry \in Seq(HandleRec)
      /\ Len(c.entry) \in Nat
  BY <1>1, ValueFacts
<1>2a. PICK y : y = x
  OBVIOUS
<1>2b. /\ y.key \in CacheFile /\ y.charge \in Nat /\ y.refs \in Nat
       /\ y.inCache \in BOOLEAN /\ y.freed \in BOOLEAN
  <2>1. y \in HandleRec
    BY <1>2, <1>2a
  <2> QED
    BY <2>1 DEF HandleRec
<1>2c. e = [key |-> y.key, charge |-> y.charge, refs |-> y.refs + 1, inCache |-> y.inCache,
            freed |-> y.freed]
  BY <1>2a
<1>2d. e \in HandleRec
  <2>1. y.refs + 1 \in Nat
    BY <1>2b
  <2> QED
    BY <1>2b, <1>2c, <2>1, HandleOf
<1>2e. e.charge = y.charge /\ e.key = y.key /\ e.refs = y.refs + 1 /\ e.inCache = y.inCache /\ e.freed = y.freed
  BY <1>2c
<1>3. e \in HandleRec /\ e.charge = c.entry[h].charge /\ e.key = c.entry[h].key /\ e.inCache
      /\ e.refs = c.entry[h].refs + 1 /\ e.freed = c.entry[h].freed
  BY <1>2a, <1>2d, <1>2e
<1>4. U[h] \in SUBSET CacheReader /\ c.entry[h].refs = Cardinality(U[h]) + 1 /\ ~c.entry[h].freed
  BY <1>1 DEF Counts
<1>5. Counts(e, V[h])
  <2>1. Cardinality(V[h]) = Cardinality(U[h]) + 1 /\ Cardinality(U[h]) \in Nat /\ V[h] # {}
    BY <1>4, UsersGrow
  <2> QED
    BY <1>3, <1>4, <2>1 DEF Counts
<1>6. c.entry[h].refs = 1 <=> U[h] = {}
  <2>1. Cardinality(U[h]) \in Nat /\ (Cardinality(U[h]) = 0 <=> U[h] = {})
    BY <1>4, UsersGrow
  <2> QED
    BY <1>4, <2>1
<1>7. l \in Seq(Nat) /\ IsInjective(l)
  BY <1>1, <1>2, ListWithout
<1>8. \A k : k \in ToSet(l) <=> IF k = h THEN e.inCache /\ V[h] = {} ELSE k \in ToSet(c.lru)
  <2>1. CASE U[h] = {}
    BY <1>1, <1>2, <1>6, <2>1, ListWithout
  <2>2. CASE U[h] # {}
    BY <1>1, <1>6, <2>2
  <2> QED
    BY <2>1, <2>2
<1>9. c.usage = c.usage - Part(c.entry[h]) + Part(e)
  <2>1. Part(e) = c.entry[h].charge /\ Part(c.entry[h]) = c.entry[h].charge
    BY <1>3 DEF Part
  <2>2. c.entry[h].charge \in Nat
    BY <1>2 DEF HandleRec
  <2> QED
    BY <1>2, <2>1, <2>2
<1>10. Ref(c, h) = Changed(c, h, e, l, c.usage)
  <2>1. [c.entry[h] EXCEPT !.refs = @ + 1] = e
    <3>1. y \in HandleRec /\ y.refs + 1 \in Nat
      BY <1>2, <1>2a, <1>2b
    <3>2. [y EXCEPT !.refs = y.refs + 1] = e
      BY <1>2c, <3>1, HandleRefs
    <3> QED
      BY <1>2a, <3>2
  <2>2. Ref(c, h) = [c EXCEPT !.entry = [c.entry EXCEPT ![h] = [c.entry[h] EXCEPT !.refs = @ + 1]],
                              !.lru = l]
    BY <1>1, <1>2 DEF Ref, CacheValue
  <2>3. Ref(c, h) = [c EXCEPT !.entry = [c.entry EXCEPT ![h] = e], !.lru = l]
    BY <2>1, <2>2
  <2> HIDE DEF e, l
  <2> QED
    BY <1>1, <2>3 DEF Changed, CacheValue
<1> HIDE DEF e, l
<1>11. Handles(Changed(c, h, e, l, c.usage), V)
  BY <1>2, <1>3, <1>5, <1>7, <1>8, <1>9, HandlesKept
<1>12. PICK d : d = Changed(c, h, e, l, c.usage)
  OBVIOUS
<1>13. /\ Len(d.entry) = Len(c.entry) /\ d.entry[h] = e /\ d.table = c.table
       /\ \A k \in 1..Len(c.entry) : k # h => d.entry[k] = c.entry[k]
  BY SMTT(30), <1>1, <1>2, <1>3, <1>7, <1>12, ChangedFacts
<1>14. \A k \in 1..Len(c.entry) : d.entry[k].key = c.entry[k].key /\ d.entry[k].inCache = c.entry[k].inCache
  <2>1. e.inCache = c.entry[h].inCache
    BY <1>2, <1>3 DEF HandleRec
  <2> QED
    BY <1>3, <1>13, <2>1
<1>15. TableGood(d) /\ Lasting(c, d)
  BY <1>2, <1>13, <1>14, SameTable
<1> QED
  BY <1>10, <1>11, <1>12, <1>15

\* An entry that is let go of once, and one that leaves the cache.
Less(x) == [key |-> x.key, charge |-> x.charge, refs |-> x.refs - 1, inCache |-> x.inCache,
            freed |-> x.refs - 1 = 0]
Out(x) == [key |-> x.key, charge |-> x.charge, refs |-> x.refs, inCache |-> FALSE, freed |-> x.freed]

\* Field by field.
LEMMA LessFacts ==
    ASSUME NEW x, x \in HandleRec, x.refs # 0
    PROVE  /\ Less(x) \in HandleRec /\ Less(x).refs = x.refs - 1
           /\ Less(x).key = x.key /\ Less(x).charge = x.charge /\ Less(x).inCache = x.inCache
           /\ Less(x).freed <=> x.refs = 1
<1>1. /\ x.key \in CacheFile /\ x.charge \in Nat /\ x.refs \in Nat
      /\ x.inCache \in BOOLEAN /\ x.freed \in BOOLEAN
  BY HandleFields
<1>2. x.refs - 1 \in Nat /\ (x.refs - 1 = 0) \in BOOLEAN
  BY <1>1
<1>3. Less(x) \in HandleRec
  BY <1>1, <1>2, HandleOf DEF Less
<1>4. Less(x).freed <=> x.refs - 1 = 0
  BY DEF Less
<1>4a. x.refs - 1 = 0 <=> x.refs = 1
  BY <1>1
<1>5. Less(x).freed <=> x.refs = 1
  BY <1>4, <1>4a
<1> QED
  BY <1>3, <1>5 DEF Less

\* Field by field.
LEMMA OutFacts ==
    ASSUME NEW x, x \in HandleRec
    PROVE  /\ Out(x) \in HandleRec /\ Out(x).refs = x.refs /\ ~Out(x).inCache
           /\ Out(x).key = x.key /\ Out(x).charge = x.charge /\ Out(x).freed = x.freed
<1>1. /\ x.key \in CacheFile /\ x.charge \in Nat /\ x.refs \in Nat
      /\ x.inCache \in BOOLEAN /\ x.freed \in BOOLEAN
  BY HandleFields
<1>2. Out(x) \in HandleRec
  BY <1>1, HandleOf DEF Out
<1> QED
  BY <1>2 DEF Out

\* Unref as a change of one entry.
LEMMA UnrefIs ==
    ASSUME NEW c, c \in CacheValue, NEW h \in 1..Len(c.entry), c.entry[h].refs # 0
    PROVE  Unref(c, h) = Changed(c, h, Less(c.entry[h]),
                                 IF c.entry[h].inCache /\ c.entry[h].refs = 2
                                 THEN Append(c.lru, h) ELSE c.lru, c.usage)
<1>1. PICK x : x = c.entry[h]
  OBVIOUS
<1>2. x \in HandleRec /\ c.entry \in Seq(HandleRec) /\ x.refs # 0
  BY <1>1, ValueFacts
<1>3. x.refs \in Nat
  BY <1>2, HandleFields
<1>4. PICK n : n = x.refs - 1
  OBVIOUS
<1>5. PICK b : b = (n = 0)
  OBVIOUS
<1>6. n \in Nat /\ b \in BOOLEAN /\ (n = 1 <=> x.refs = 2)
  BY <1>2, <1>3, <1>4, <1>5
<1>7. [x EXCEPT !.refs = n, !.freed = b] = Less(x)
  <2>1. [x EXCEPT !.refs = n, !.freed = b]
          = [key |-> x.key, charge |-> x.charge, refs |-> n, inCache |-> x.inCache, freed |-> b]
    <3>1. x \in HandleRec
      BY <1>2
    <3>2. n \in Nat
      BY <1>6
    <3>3. b \in BOOLEAN
      BY <1>6
    <3> QED
      BY Zenon, <3>1, <3>2, <3>3, HandleFreed
  <2> QED
    BY <1>4, <1>5, <2>1 DEF Less
<1>8. PICK l : l = IF x.inCache /\ n = 1 THEN Append(c.lru, h) ELSE c.lru
  OBVIOUS
<1>9. Unref(c, h) = [c EXCEPT !.entry = [c.entry EXCEPT ![h] = [x EXCEPT !.refs = n, !.freed = b]],
                              !.lru = l]
  BY <1>1, <1>2, <1>4, <1>5, <1>8 DEF Unref, CacheValue
<1>10. PICK e : e = Less(x)
  OBVIOUS
<1>11. Unref(c, h) = [c EXCEPT !.entry = [c.entry EXCEPT ![h] = e], !.lru = l]
  BY <1>7, <1>9, <1>10
<1>12. Unref(c, h) = [entry |-> [c.entry EXCEPT ![h] = e], table |-> c.table, lru |-> l, usage |-> c.usage]
  BY <1>11 DEF CacheValue
<1>13. l = IF c.entry[h].inCache /\ c.entry[h].refs = 2 THEN Append(c.lru, h) ELSE c.lru
  BY <1>1, <1>6, <1>8
<1> QED
  BY <1>1, <1>10, <1>12, <1>13 DEF Changed

\* A reader lets a handle go.
LEMMA UnrefKeeps ==
    ASSUME CacheAssumption, NEW c, NEW U, NEW V, Handles(c, U), TableGood(c),
           NEW h \in 1..Len(c.entry), NEW r \in CacheReader, r \in U[h], V[h] = U[h] \ {r},
           \A k \in 1..Len(c.entry) : k # h => V[k] = U[k]
    PROVE  Handles(Unref(c, h), V) /\ TableGood(Unref(c, h)) /\ Lasting(c, Unref(c, h))
<1>1. /\ c \in CacheValue /\ IsInjective(c.lru) /\ Counts(c.entry[h], U[h])
      /\ \A k : k \in ToSet(c.lru) <=> k \in 1..Len(c.entry) /\ c.entry[k].inCache /\ U[k] = {}
  BY DEF Handles
<1>2. c.lru \in Seq(Nat) /\ c.usage \in Int /\ Len(c.entry) \in Nat
  BY <1>1, ValueFacts
<1>3. PICK x : x = c.entry[h]
  OBVIOUS
<1>4. x \in HandleRec /\ x.refs \in Nat /\ x.charge \in Nat /\ x.inCache \in BOOLEAN
  <2>1. x \in HandleRec
    BY <1>1, <1>3, ValueFacts
  <2> QED
    BY <2>1, HandleFields
<1>5. /\ U[h] \in SUBSET CacheReader /\ x.refs = Cardinality(U[h]) + (IF x.inCache THEN 1 ELSE 0)
      /\ x.freed <=> U[h] = {} /\ ~x.inCache
  BY <1>1, <1>3 DEF Counts
<1>6. /\ Cardinality(U[h]) \in Nat /\ Cardinality(U[h]) # 0 /\ Cardinality(V[h]) = Cardinality(U[h]) - 1
      /\ (Cardinality(V[h]) = 0 <=> V[h] = {}) /\ V[h] \in SUBSET CacheReader
  <2>1. V[h] \in SUBSET CacheReader
    BY <1>5
  <2>2. Cardinality(U[h]) \in Nat /\ (Cardinality(U[h]) = 0 <=> U[h] = {})
        /\ Cardinality(U[h] \ {r}) = Cardinality(U[h]) - 1
    BY <1>5, UsersGrow
  <2>3. Cardinality(V[h]) = 0 <=> V[h] = {}
    BY <2>1, UsersGrow
  <2> QED
    BY <2>1, <2>2, <2>3
<1>7. x.refs # 0
  BY <1>4, <1>5, <1>6
<1>8. PICK e : e = Less(x)
  OBVIOUS
<1>9. /\ e \in HandleRec /\ e.refs = x.refs - 1 /\ e.key = x.key /\ e.charge = x.charge
      /\ e.inCache = x.inCache /\ (e.freed <=> x.refs = 1)
  BY <1>4, <1>7, <1>8, LessFacts
<1>10. Counts(e, V[h])
  BY <1>4, <1>5, <1>6, <1>9 DEF Counts
<1>11. PICK l : l = IF x.inCache /\ x.refs = 2 THEN Append(c.lru, h) ELSE c.lru
  OBVIOUS
<1>12. Unref(c, h) = Changed(c, h, e, l, c.usage)
  BY <1>1, <1>3, <1>7, <1>8, <1>11, UnrefIs
<1>13. h \notin ToSet(c.lru) /\ h \in Nat
  BY <1>1, <1>2
<1>14. l \in Seq(Nat) /\ IsInjective(l)
  BY <1>1, <1>2, <1>11, <1>13, ListWith
<1>15. x.inCache /\ x.refs = 2 <=> e.inCache /\ V[h] = {}
  <2>1. CASE x.inCache
    <3>1. x.refs = Cardinality(U[h]) + 1
      BY <1>5, <2>1
    <3>2. x.refs = 2 <=> V[h] = {}
      BY <1>4, <1>6, <3>1
    <3> QED
      BY <1>9, <2>1, <3>2
  <2>2. CASE ~x.inCache
    BY <1>9, <2>2
  <2> QED
    BY <2>1, <2>2
<1>16. \A k : k \in ToSet(l) <=> IF k = h THEN e.inCache /\ V[h] = {} ELSE k \in ToSet(c.lru)
  <2>1. CASE x.inCache /\ x.refs = 2
    <3>1. \A k : k \in ToSet(l) <=> k \in ToSet(c.lru) \/ k = h
      BY <1>1, <1>2, <1>11, <1>13, <2>1, ListWith
    <3> QED
      BY <1>15, <2>1, <3>1
  <2>2. CASE ~(x.inCache /\ x.refs = 2)
    BY <1>11, <1>13, <1>15, <2>2
  <2> QED
    BY <2>1, <2>2
<1>17. c.usage = c.usage - Part(x) + Part(e)
  BY <1>2, <1>4, <1>9 DEF Part
<1>18. Handles(Changed(c, h, e, l, c.usage), V)
  BY <1>2, <1>3, <1>9, <1>10, <1>14, <1>16, <1>17, HandlesKept
<1>19. PICK d : d = Changed(c, h, e, l, c.usage)
  OBVIOUS
<1>20. /\ Len(d.entry) = Len(c.entry) /\ d.entry[h] = e /\ d.table = c.table
       /\ \A k \in 1..Len(c.entry) : k # h => d.entry[k] = c.entry[k]
  <2>1. c \in CacheValue /\ e \in HandleRec /\ l \in Seq(Nat) /\ c.usage \in Int
    BY <1>1, <1>2, <1>9, <1>14
  <2> QED
    BY SMTT(30), <1>19, <2>1, ChangedFacts
<1>21. \A k \in 1..Len(c.entry) : d.entry[k].key = c.entry[k].key /\ d.entry[k].inCache = c.entry[k].inCache
  BY <1>3, <1>9, <1>20
<1>22. TableGood(d) /\ Lasting(c, d)
  BY <1>2, <1>20, <1>21, SameTable
<1> QED
  BY <1>12, <1>18, <1>19, <1>22

\* What FinishErase gives Unref, as a change of one entry.
LEMMA OutIs ==
    ASSUME NEW c, c \in CacheValue, NEW h \in 1..Len(c.entry)
    PROVE  [c EXCEPT !.lru = RemoveFirst(@, h), !.entry[h].inCache = FALSE,
                     !.usage = @ - c.entry[h].charge]
             = Changed(c, h, Out(c.entry[h]), RemoveFirst(c.lru, h), c.usage - c.entry[h].charge)
<1>1. PICK x : x = c.entry[h]
  OBVIOUS
<1>2. x \in HandleRec /\ c.entry \in Seq(HandleRec)
  BY <1>1, ValueFacts
<1>3. PICK l, u : l = RemoveFirst(c.lru, h) /\ u = c.usage - x.charge
  OBVIOUS
<1>4. [x EXCEPT !.inCache = FALSE] = Out(x)
  BY <1>2, HandleInCache DEF Out
<1>5. PICK d : d = [c EXCEPT !.lru = RemoveFirst(@, h), !.entry[h].inCache = FALSE,
                             !.usage = @ - c.entry[h].charge]
  OBVIOUS
<1>6. d = [c EXCEPT !.lru = l, !.entry = [c.entry EXCEPT ![h] = [x EXCEPT !.inCache = FALSE]], !.usage = u]
  BY <1>1, <1>3, <1>5 DEF CacheValue
<1>7. PICK e : e = Out(x)
  OBVIOUS
<1>8. d = [c EXCEPT !.lru = l, !.entry = [c.entry EXCEPT ![h] = e], !.usage = u]
  BY <1>4, <1>6, <1>7
<1>9. d = [entry |-> [c.entry EXCEPT ![h] = e], table |-> c.table, lru |-> l, usage |-> u]
  BY <1>8 DEF CacheValue
<1>10. d = Changed(c, h, e, l, u)
  BY <1>9 DEF Changed
<1> QED
  BY <1>1, <1>3, <1>5, <1>7, <1>10

\* The second of two changes of an entry counts.
LEMMA ChangedTwice ==
    ASSUME NEW c, c \in CacheValue, NEW h \in 1..Len(c.entry), NEW a, NEW b, a \in HandleRec, b \in HandleRec,
           NEW l, NEW m, NEW u, NEW v
    PROVE  Changed(Changed(c, h, a, l, u), h, b, m, v) = Changed(c, h, b, m, v)
<1>1. c.entry \in Seq(HandleRec)
  BY ValueFacts
<1>2. [[c.entry EXCEPT ![h] = a] EXCEPT ![h] = b] = [c.entry EXCEPT ![h] = b]
  BY <1>1
<1> QED
  BY <1>2 DEF Changed

\* What leaves the cache keeps its readers.
LEMMA FinishErased ==
    ASSUME CacheAssumption, NEW c, NEW U, Handles(c, U), NEW h \in 1..Len(c.entry), c.entry[h].inCache,
           NEW d, d = FinishErase(c, h)
    PROVE  /\ Handles(d, U) /\ Len(d.entry) = Len(c.entry) /\ d.table = c.table
           /\ d.entry[h].key = c.entry[h].key /\ ~d.entry[h].inCache
           /\ \A k \in 1..Len(c.entry) : k # h => d.entry[k] = c.entry[k]
<1>1. /\ c \in CacheValue /\ IsInjective(c.lru) /\ Counts(c.entry[h], U[h])
      /\ \A k : k \in ToSet(c.lru) <=> k \in 1..Len(c.entry) /\ c.entry[k].inCache /\ U[k] = {}
  BY DEF Handles
<1>2. c.lru \in Seq(Nat) /\ c.usage \in Int /\ Len(c.entry) \in Nat
  BY <1>1, ValueFacts
<1>3. PICK x : x = c.entry[h]
  OBVIOUS
<1>4. x \in HandleRec /\ x.refs \in Nat /\ x.charge \in Nat /\ x.inCache
  <2>1. x \in HandleRec
    BY <1>1, <1>3, ValueFacts
  <2> QED
    BY <1>3, <2>1, HandleFields
<1>5. PICK l, u : l = RemoveFirst(c.lru, h) /\ u = c.usage - x.charge
  OBVIOUS
<1>6. /\ l \in Seq(Nat) /\ IsInjective(l) /\ u \in Int
      /\ \A k : k \in ToSet(l) <=> k \in ToSet(c.lru) /\ k # h
  BY <1>1, <1>2, <1>4, <1>5, ListWithout
<1>7. PICK y : y = Out(x)
  OBVIOUS
<1>8. y \in HandleRec /\ y.refs = x.refs /\ ~y.inCache /\ y.key = x.key /\ y.charge = x.charge
  BY <1>4, <1>7, OutFacts
<1>9. PICK b : b = Changed(c, h, y, l, u)
  OBVIOUS
<1>10. b \in CacheValue /\ Len(b.entry) = Len(c.entry) /\ b.entry[h] = y /\ b.lru = l /\ b.usage = u
  BY <1>1, <1>6, <1>8, <1>9, ChangedFacts
<1>11. /\ U[h] \in SUBSET CacheReader /\ x.refs = Cardinality(U[h]) + 1
       /\ Cardinality(U[h]) \in Nat /\ (Cardinality(U[h]) = 0 <=> U[h] = {})
  <2>1. U[h] \in SUBSET CacheReader /\ x.refs = Cardinality(U[h]) + 1
    BY <1>1, <1>3, <1>4 DEF Counts
  <2> QED
    BY <2>1, UsersCounted
<1>12. y.refs # 0
  BY <1>8, <1>11
<1>13. PICK e : e = Less(y)
  OBVIOUS
<1>14. /\ e \in HandleRec /\ e.refs = Cardinality(U[h]) /\ e.key = x.key /\ e.charge = x.charge
       /\ ~e.inCache /\ (e.freed <=> U[h] = {})
  <2>1. /\ e \in HandleRec /\ e.refs = y.refs - 1 /\ e.key = y.key /\ e.charge = y.charge
        /\ e.inCache = y.inCache /\ (e.freed <=> y.refs = 1)
    BY <1>8, <1>12, <1>13, LessFacts
  <2> QED
    BY <1>8, <1>11, <2>1
<1>15. d = Changed(c, h, e, l, u)
  <2>1. d = Unref(b, h)
    <3>1. d = Unref([c EXCEPT !.lru = RemoveFirst(@, h), !.entry[h].inCache = FALSE,
                              !.usage = @ - c.entry[h].charge], h)
      BY DEF FinishErase
    <3>2. b = [c EXCEPT !.lru = RemoveFirst(@, h), !.entry[h].inCache = FALSE,
                        !.usage = @ - c.entry[h].charge]
      <4>1. b = Changed(c, h, Out(c.entry[h]), RemoveFirst(c.lru, h), c.usage - c.entry[h].charge)
        BY <1>3, <1>5, <1>7, <1>9
      <4>2. [c EXCEPT !.lru = RemoveFirst(@, h), !.entry[h].inCache = FALSE,
                      !.usage = @ - c.entry[h].charge]
              = Changed(c, h, Out(c.entry[h]), RemoveFirst(c.lru, h), c.usage - c.entry[h].charge)
        <5>1. c \in CacheValue
          BY <1>1
        <5> QED
          BY Zenon, <5>1, OutIs
      <4> QED
        BY <4>1, <4>2
    <3> QED
      BY <3>1, <3>2
  <2>2. h \in 1..Len(b.entry) /\ b.entry[h].refs # 0 /\ ~b.entry[h].inCache
    BY <1>8, <1>10, <1>12
  <2>3. Unref(b, h) = Changed(b, h, Less(b.entry[h]),
                              IF b.entry[h].inCache /\ b.entry[h].refs = 2 THEN Append(b.lru, h) ELSE b.lru,
                              b.usage)
    BY <1>10, <2>2, UnrefIs
  <2>4. Unref(b, h) = Changed(b, h, e, l, u)
    BY <1>10, <1>13, <2>2, <2>3
  <2>5. Changed(b, h, e, l, u) = Changed(c, h, e, l, u)
    BY <1>1, <1>8, <1>9, <1>14, ChangedTwice
  <2> QED
    BY <2>1, <2>4, <2>5
<1>16. Counts(e, U[h])
  BY <1>11, <1>14 DEF Counts
<1>17. \A k : k \in ToSet(l) <=> IF k = h THEN e.inCache /\ U[h] = {} ELSE k \in ToSet(c.lru)
  BY <1>6, <1>14
<1>18. u = c.usage - Part(x) + Part(e)
  BY <1>2, <1>4, <1>5, <1>14 DEF Part
<1>19. Handles(Changed(c, h, e, l, u), U)
  BY <1>3, <1>6, <1>14, <1>16, <1>17, <1>18, HandlesKept
<1>20. /\ Len(d.entry) = Len(c.entry) /\ d.entry[h] = e /\ d.table = c.table
       /\ \A k \in 1..Len(c.entry) : k # h => d.entry[k] = c.entry[k]
  BY <1>1, <1>6, <1>14, <1>15, ChangedFacts
<1> QED
  BY <1>3, <1>14, <1>15, <1>19, <1>20

\* Erase takes the entry out of the table first.
LEMMA EraseKeeps ==
    ASSUME CacheAssumption, NEW c, NEW U, Handles(c, U), TableGood(c), NEW f \in CacheFile,
           NEW d, d = EraseKey(c, f)
    PROVE  Handles(d, U) /\ TableGood(d) /\ Lasting(c, d) /\ Len(d.entry) = Len(c.entry)
<1>1. c \in CacheValue /\ Len(c.entry) \in Nat /\ c.table \in [CacheFile -> Nat]
  <2>1. c \in CacheValue
    BY DEF Handles
  <2> QED
    BY <2>1, ValueFacts
<1>2. CASE c.table[f] = 0
  <2>1. d = c
    BY <1>2 DEF EraseKey
  <2> QED
    BY <1>1, <2>1 DEF Lasting
<1>3. CASE c.table[f] # 0
  <2>1. PICK h : h = c.table[f]
    OBVIOUS
  <2>2. h \in 1..Len(c.entry) /\ c.entry[h].inCache /\ c.entry[h].key = f
    BY <1>3, <2>1 DEF TableGood
  <2>3. PICK t : t = [c.table EXCEPT ![f] = 0]
    OBVIOUS
  <2>4. t \in [CacheFile -> Nat] /\ t[f] = 0 /\ \A g \in CacheFile : g # f => t[g] = c.table[g]
    BY <1>1, <2>3
  <2>5. PICK b : b = [c EXCEPT !.table[f] = 0]
    OBVIOUS
  <2>6. b = [entry |-> c.entry, table |-> t, lru |-> c.lru, usage |-> c.usage]
    BY <1>1, <2>3, <2>5 DEF CacheValue
  <2>7. b \in CacheValue /\ b.entry = c.entry /\ b.table = t /\ b.lru = c.lru /\ b.usage = c.usage
    BY <1>1, <2>4, <2>6 DEF CacheValue
  <2>8. Handles(b, U)
    <3>1. Parts(b) = Parts(c)
      BY <2>7 DEF Parts
    <3> QED
      BY <2>7, <3>1 DEF Handles
  <2>9. d = FinishErase(b, h)
    BY <1>3, <2>1, <2>5 DEF EraseKey
  <2>10. /\ Handles(d, U) /\ Len(d.entry) = Len(c.entry) /\ d.table = t
         /\ d.entry[h].key = c.entry[h].key /\ ~d.entry[h].inCache
         /\ \A k \in 1..Len(c.entry) : k # h => d.entry[k] = c.entry[k]
    <3>1. h \in 1..Len(b.entry) /\ b.entry[h].inCache
      BY <2>2, <2>7
    <3> QED
      BY <2>7, <2>8, <2>9, <3>1, FinishErased
  <2>11. \A k \in 1..Len(c.entry) : d.entry[k].key = c.entry[k].key
    BY <2>10
  <2>12. ASSUME NEW g \in CacheFile, d.table[g] # 0
         PROVE  /\ d.table[g] \in 1..Len(d.entry)
                /\ d.entry[d.table[g]].inCache /\ d.entry[d.table[g]].key = g
    <3>1. PICK k : k = d.table[g]
      OBVIOUS
    <3>2. g # f /\ k = c.table[g] /\ k # 0
      BY <2>4, <2>10, <2>12, <3>1
    <3>3. k \in 1..Len(c.entry) /\ c.entry[k].inCache /\ c.entry[k].key = g
      BY <3>2 DEF TableGood
    <3>4. k # h
      BY <2>2, <3>2, <3>3
    <3> QED
      BY <2>10, <3>1, <3>3, <3>4
  <2>13. ASSUME NEW k \in 1..Len(d.entry), d.entry[k].inCache
         PROVE  d.table[d.entry[k].key] = k
    <3>1. k # h /\ k \in 1..Len(c.entry)
      BY <2>10, <2>13
    <3>2. d.entry[k] = c.entry[k] /\ c.entry[k].inCache
      BY <2>10, <2>13, <3>1
    <3>3. c.table[c.entry[k].key] = k
      BY <3>1, <3>2 DEF TableGood
    <3>4. c.entry[k].key # f
      BY <2>1, <3>1, <3>3
    <3>5. c.entry[k].key \in CacheFile
      BY <1>1, <3>1, ValueFacts, HandleFields
    <3> QED
      BY <2>4, <2>10, <3>2, <3>3, <3>4, <3>5
  <2>14. TableGood(d)
    BY <2>12, <2>13 DEF TableGood
  <2>15. Lasting(c, d)
    BY <1>1, <2>10, <2>11 DEF Lasting
  <2> QED
    BY <2>10, <2>14, <2>15
<1> QED
  BY <1>2, <1>3

\* All that the steps of a trimming keep.
Keeping(c, d, U) == Handles(d, U) /\ TableGood(d) /\ Lasting(c, d) /\ Len(d.entry) = Len(c.entry)

\* One step of a trimming.
Oldest(d, limit) ==
    IF d.usage > limit /\ d.lru # << >> THEN EraseKey(d, d.entry[Head(d.lru)].key) ELSE d

LEMMA OldestKeeps ==
    ASSUME CacheAssumption, NEW c, NEW d, NEW U, NEW limit, Keeping(c, d, U)
    PROVE  Keeping(c, Oldest(d, limit), U)
<1>1. Handles(d, U) /\ TableGood(d) /\ Lasting(c, d) /\ Len(d.entry) = Len(c.entry)
  BY DEF Keeping
<1>2. CASE d.usage > limit /\ d.lru # << >>
  <2>1. d \in CacheValue /\ \A k : k \in ToSet(d.lru) => k \in 1..Len(d.entry)
    BY <1>1 DEF Handles
  <2>2. d.lru \in Seq(Nat) /\ Len(d.entry) \in Nat
    BY <2>1, ValueFacts
  <2>3. PICK h : h = Head(d.lru)
    OBVIOUS
  <2>4. h \in ToSet(d.lru)
    BY <1>2, <2>2, <2>3 DEF ToSet
  <2>5. h \in 1..Len(d.entry)
    BY <2>1, <2>4
  <2>6. PICK f : f = d.entry[h].key
    OBVIOUS
  <2>7. f \in CacheFile
    BY <2>1, <2>5, <2>6, ValueFacts, HandleFields
  <2>8. PICK e : e = EraseKey(d, f)
    OBVIOUS
  <2>9. Handles(e, U) /\ TableGood(e) /\ Lasting(d, e) /\ Len(e.entry) = Len(d.entry)
    BY <1>1, <2>7, <2>8, EraseKeeps
  <2>10. Lasting(c, e)
    BY <1>1, <2>2, <2>9 DEF Lasting
  <2>11. Oldest(d, limit) = e
    BY <1>2, <2>3, <2>6, <2>8 DEF Oldest
  <2> QED
    BY <1>1, <2>9, <2>10, <2>11 DEF Keeping
<1>3. CASE ~(d.usage > limit /\ d.lru # << >>)
  BY <1>3 DEF Oldest
<1> QED
  BY <1>2, <1>3

\* The first n states of a trimming.
Trimming(c, limit, n, f) ==
    /\ f = [k \in 0..n |-> f[k]] /\ f[0] = c
    /\ \A k \in 1..n : f[k] = Oldest(f[k - 1], limit)

\* A trimming has its states, however long it is.
LEMMA TrimmingExists ==
    ASSUME NEW c, NEW limit, NEW m \in Nat
    PROVE  \E f : Trimming(c, limit, m, f)
<1> DEFINE Bad == {n \in 0..m : ~\E f : Trimming(c, limit, n, f)}
<1>1. SUFFICES ASSUME Bad # {} PROVE FALSE
  OBVIOUS
<1>2. PICK n \in Bad : \A l \in Bad : n <= l
  <2>1. Bad \in SUBSET Nat
    OBVIOUS
  <2> HIDE DEF Bad
  <2> QED
    BY <1>1, <2>1, LeastOfNats
<1>3. CASE n = 0
  <2> DEFINE f == [k \in 0..0 |-> c]
  <2>1. Trimming(c, limit, 0, f)
    BY DEF Trimming
  <2> QED
    BY <1>2, <1>3, <2>1
<1>4. CASE n # 0
  <2>1. n \in Nat /\ n - 1 \in 0..m /\ n \in 1..m
    BY <1>4, <1>2
  <2>2. PICK f : Trimming(c, limit, n - 1, f)
    BY <1>2, <2>1
  <2> DEFINE g == [k \in 0..n |-> IF k = n THEN Oldest(f[n - 1], limit) ELSE f[k]]
  <2>3. f[0] = c /\ \A k \in 1..n - 1 : f[k] = Oldest(f[k - 1], limit)
    BY <2>2 DEF Trimming
  <2>4. g[0] = c /\ g = [k \in 0..n |-> g[k]]
    BY <2>1, <2>3
  <2>5. \A k \in 1..n : g[k] = Oldest(g[k - 1], limit)
    <3>1. SUFFICES ASSUME NEW k \in 1..n PROVE g[k] = Oldest(g[k - 1], limit)
      OBVIOUS
    <3>2. k - 1 \in 0..n /\ k - 1 # n /\ k \in 0..n
      BY <2>1
    <3>3. g[k - 1] = f[k - 1]
      BY <3>2
    <3>4. CASE k = n
      BY <3>2, <3>3, <3>4
    <3>5. CASE k # n
      <4>1. k \in 1..n - 1 /\ g[k] = f[k]
        BY <2>1, <3>2, <3>5
      <4> QED
        BY <2>3, <3>3, <4>1
    <3> QED
      BY <3>4, <3>5
  <2> HIDE DEF g
  <2>6. Trimming(c, limit, n, g)
    BY <2>4, <2>5 DEF Trimming
  <2> QED
    BY <1>2, <2>6
<1> QED
  BY <1>3, <1>4

\* All of them keep it.
LEMMA TrimmingKeeps ==
    ASSUME CacheAssumption, NEW c, NEW limit, NEW m \in Nat, NEW f, Trimming(c, limit, m, f),
           NEW U, Keeping(c, c, U)
    PROVE  Keeping(c, f[m], U)
<1> DEFINE Bad == {n \in 0..m : ~Keeping(c, f[n], U)}
<1>1. SUFFICES ASSUME Bad # {} PROVE FALSE
  OBVIOUS
<1>2. PICK n \in Bad : \A l \in Bad : n <= l
  <2>1. Bad \in SUBSET Nat
    OBVIOUS
  <2> HIDE DEF Bad
  <2> QED
    BY <1>1, <2>1, LeastOfNats
<1>3. f[0] = c /\ \A k \in 1..m : f[k] = Oldest(f[k - 1], limit)
  BY DEF Trimming
<1>4. n \in 1..m /\ n - 1 \in 0..m /\ n - 1 \notin Bad
  BY <1>2, <1>3
<1>5. Keeping(c, f[n - 1], U)
  BY <1>4
<1>6. Keeping(c, Oldest(f[n - 1], limit), U)
  BY <1>5, OldestKeeps
<1>7. f[n] = Oldest(f[n - 1], limit)
  BY <1>3, <1>4
<1> QED
  BY <1>2, <1>6, <1>7

\* Trimmed is the last of them.
LEMMA TrimmedIsLast ==
    ASSUME NEW c, NEW limit, Len(c.lru) \in Nat, NEW f, Trimming(c, limit, Len(c.lru), f)
    PROVE  Trimmed(c, limit) = f[Len(c.lru)]
<1> DEFINE n == Len(c.lru)
           E(s) == [k \in 0..n |-> IF k = 0 THEN c ELSE Oldest(s[k - 1], limit)]
           t == CHOOSE s : s = E(s)
<1>1. f = E(f)
  <2>1. f = [k \in 0..n |-> f[k]] /\ f[0] = c /\ \A k \in 1..n : f[k] = Oldest(f[k - 1], limit)
    BY DEF Trimming
  <2>2. \A k \in 0..n : k = 0 \/ k \in 1..n
    OBVIOUS
  <2>3. \A k \in 0..n : f[k] = IF k = 0 THEN c ELSE Oldest(f[k - 1], limit)
    BY <2>1, <2>2
  <2> QED
    BY <2>1, <2>3
<1>2. t = E(t)
  BY <1>1
<1>3. ASSUME NEW k \in 0..n PROVE t[k] = f[k]
  <2> DEFINE Bad == {l \in 0..n : t[l] # f[l]}
  <2>1. SUFFICES ASSUME Bad # {} PROVE FALSE
    BY <1>3
  <2>2. PICK l \in Bad : \A m \in Bad : l <= m
    <3>1. Bad \in SUBSET Nat
      OBVIOUS
    <3> HIDE DEF Bad
    <3> QED
      BY <2>1, <3>1, LeastOfNats
  <2>3. \A m \in 0..n : t[m] = IF m = 0 THEN c ELSE Oldest(t[m - 1], limit)
    BY <1>2
  <2>4. \A m \in 0..n : f[m] = IF m = 0 THEN c ELSE Oldest(f[m - 1], limit)
    BY <1>1
  <2>5. l # 0
    BY <2>2, <2>3, <2>4
  <2>6. l \in 0..n /\ l - 1 \in 0..n /\ l - 1 \notin Bad
    BY <2>2, <2>5
  <2>7. t[l - 1] = f[l - 1]
    BY <2>6
  <2> HIDE DEF t
  <2> QED
    BY <2>2, <2>3, <2>4, <2>5, <2>6, <2>7
<1>4. Trimmed(c, limit) = t[n]
  BY DEF Trimmed, Oldest
<1>5. n \in 0..n
  OBVIOUS
<1>6. t[n] = f[n]
  BY <1>3, <1>5
<1> QED
  BY <1>4, <1>6

\* So a trimming keeps it, to whatever limit.
LEMMA TrimmedKeeps ==
    ASSUME CacheAssumption, NEW c, NEW U, NEW limit, Handles(c, U), TableGood(c)
    PROVE  Keeping(c, Trimmed(c, limit), U)
<1>1. c \in CacheValue
  BY DEF Handles
<1>2. c.lru \in Seq(Nat) /\ Len(c.entry) \in Nat
  BY <1>1, ValueFacts
<1>3. PICK m : m = Len(c.lru)
  OBVIOUS
<1>4. m \in Nat
  BY <1>2, <1>3
<1>5. PICK f : Trimming(c, limit, m, f)
  BY <1>4, TrimmingExists
<1>6. Lasting(c, c)
  BY <1>2 DEF Lasting
<1>7. Keeping(c, c, U)
  BY <1>6 DEF Keeping
<1>8. Keeping(c, f[m], U)
  BY <1>4, <1>5, <1>7, TrimmingKeeps
<1>9. Trimmed(c, limit) = f[m]
  BY <1>3, <1>4, <1>5, TrimmedIsLast
<1> QED
  BY <1>8, <1>9

\* A new entry, in use by r and in the cache.
Fresh(f, charge) == [key |-> f, charge |-> charge, refs |-> 2, inCache |-> TRUE, freed |-> FALSE]

\* r is the one user of the entry with the next number.
NewUser(c, U, V, n, r) ==
    n = Len(c.entry) + 1 /\ r \in CacheReader /\ V[n] = {r} /\ \A k \in 1..Len(c.entry) : V[k] = U[k]

Added(c, f, charge, n) ==
    [c EXCEPT !.entry = Append(@, Fresh(f, charge)), !.usage = @ + charge, !.table[f] = n]

\* The entry is there, and the table has it.
WithNew(c, d, V, n, f, charge) ==
    /\ Handles(d, V) /\ Len(d.entry) = n /\ d.entry[n] = Fresh(f, charge)
    /\ \A k \in 1..Len(c.entry) : d.entry[k] = c.entry[k]
    /\ d.table[f] = n /\ \A g \in CacheFile : g # f => d.table[g] = c.table[g]

\* The entry is there and counted; the table may still have another.
LEMMA AddedKeeps ==
    ASSUME CacheAssumption, NEW c, NEW U, NEW V, Handles(c, U), NEW f, f \in CacheFile,
           NEW charge, charge \in Nat, NEW n, NEW r, NewUser(c, U, V, n, r),
           NEW d, d = Added(c, f, charge, n)
    PROVE  WithNew(c, d, V, n, f, charge)
<1>0. n = Len(c.entry) + 1 /\ r \in CacheReader /\ V[n] = {r} /\ \A k \in 1..Len(c.entry) : V[k] = U[k]
  BY DEF NewUser
<1>1. /\ c \in CacheValue /\ IsInjective(c.lru) /\ Total(Parts(c), Len(c.entry), c.usage)
      /\ \A k \in 1..Len(c.entry) : Counts(c.entry[k], U[k])
      /\ \A k : k \in ToSet(c.lru) <=> k \in 1..Len(c.entry) /\ c.entry[k].inCache /\ U[k] = {}
  BY DEF Handles
<1>2. /\ c.entry \in Seq(HandleRec) /\ Len(c.entry) \in Nat
      /\ c.table \in [CacheFile -> Nat] /\ c.lru \in Seq(Nat) /\ c.usage \in Int
  BY <1>0, <1>1, ValueFacts
<1>3. PICK e : e = Fresh(f, charge)
  OBVIOUS
<1>4. e \in HandleRec
  BY <1>0, <1>3, HandleOf DEF Fresh
<1>4a. e.refs = 2 /\ e.inCache /\ ~e.freed /\ e.charge = charge
  BY <1>3 DEF Fresh
<1>5. PICK es, t, u : es = Append(c.entry, e) /\ t = [c.table EXCEPT ![f] = n] /\ u = c.usage + charge
  OBVIOUS
<1>6. /\ es \in Seq(HandleRec) /\ Len(es) = n /\ es[n] = e
      /\ \A k \in 1..Len(c.entry) : es[k] = c.entry[k]
  BY <1>0, <1>2, <1>4, <1>5
<1>7. t \in [CacheFile -> Nat] /\ u \in Int
  BY <1>0, <1>2, <1>5
<1>8. d = [entry |-> es, table |-> t, lru |-> c.lru, usage |-> u]
  BY <1>0, <1>1, <1>3, <1>5 DEF CacheValue, Added
<1>9. d \in CacheValue /\ d.entry = es /\ d.table = t /\ d.lru = c.lru /\ d.usage = u
  BY SMTT(30), <1>0, <1>2, <1>6, <1>7, <1>8 DEF CacheValue
<1>10. \A k \in 1..n : k \in 1..Len(c.entry) \/ k = n
  BY <1>0, <1>2
<1>11. Counts(e, {r})
  <2>1. Cardinality({r}) = 1
    BY FS_Singleton
  <2> QED
    BY <1>0, <1>4a, <2>1 DEF Counts
<1>12. \A k \in 1..n : Counts(d.entry[k], V[k])
  BY <1>0, <1>1, <1>6, <1>9, <1>10, <1>11
<1>13. \A k : k \in ToSet(d.lru) <=> k \in 1..n /\ d.entry[k].inCache /\ V[k] = {}
  <2>1. \A k : k \in 1..Len(c.entry) => k \in 1..n
    BY <1>0, <1>2
  <2> QED
    BY <1>0, <1>1, <1>6, <1>9, <1>10, <2>1
<1>14. Total(Parts(d), n, u)
  <2>1. PICK m, w, v : m = Len(c.entry) /\ w = Parts(c) /\ v = Parts(d)
    OBVIOUS
  <2>2. \A k \in 1..m : v[k] = w[k]
    <3>1. SUFFICES ASSUME NEW k \in 1..m PROVE v[k] = w[k]
      OBVIOUS
    <3>2. k \in 1..Len(c.entry) /\ k \in 1..Len(d.entry) /\ d.entry[k] = c.entry[k]
      BY <1>0, <1>2, <1>6, <1>9, <2>1
    <3> QED
      BY <2>1, <3>2 DEF Parts
  <2>3. v[n] = charge
    <3>1. n \in 1..n
      BY <1>0, <1>2
    <3> QED
      BY <1>4a, <1>6, <1>9, <2>1, <3>1 DEF Parts, Part
  <2>4. m \in Nat /\ n = m + 1 /\ Total(w, m, c.usage) /\ v[m + 1] \in Int
    BY <1>0, <1>1, <1>2, <2>1, <2>3
  <2>5. Total(v, m + 1, c.usage + v[m + 1])
    BY <1>0, <1>2, <2>2, <2>4, TotalGrows
  <2> QED
    BY <1>0, <1>5, <2>1, <2>3, <2>4, <2>5
<1>15. Handles(d, V)
  BY <1>0, <1>1, <1>6, <1>9, <1>12, <1>13, <1>14 DEF Handles
<1>16. t[f] = n /\ \A g \in CacheFile : g # f => t[g] = c.table[g]
  BY <1>0, <1>2, <1>5
<1> QED
  BY <1>0, <1>3, <1>6, <1>9, <1>15, <1>16 DEF WithNew

\* The cache is whole again.
InsertDone(c, d, V, n, f) ==
    Handles(d, V) /\ TableGood(d) /\ Lasting(c, d) /\ Len(d.entry) = n /\ d.entry[n].key = f

\* The entry it replaces leaves the cache, and then the oldest do.
LEMMA InsertKeeps ==
    ASSUME CacheAssumption, NEW c, NEW U, NEW V, Handles(c, U), TableGood(c), NEW f, f \in CacheFile,
           NEW charge, charge \in Nat, NEW n, NEW r, NewUser(c, U, V, n, r),
           NEW d, d = Insert(c, f, charge)
    PROVE  InsertDone(c, d, V, n, f)
<1>0. n = Len(c.entry) + 1 /\ r \in CacheReader /\ V[n] = {r} /\ \A k \in 1..Len(c.entry) : V[k] = U[k]
  BY DEF NewUser
<1>1. c \in CacheValue
  BY DEF Handles
<1>2. Len(c.entry) \in Nat /\ c.table \in [CacheFile -> Nat]
  BY <1>0, <1>1, ValueFacts
<1>3. PICK a : a = Added(c, f, charge, n)
  OBVIOUS
<1>4. /\ Handles(a, V) /\ Len(a.entry) = n /\ a.entry[n] = Fresh(f, charge)
      /\ \A k \in 1..Len(c.entry) : a.entry[k] = c.entry[k]
      /\ a.table[f] = n /\ \A g \in CacheFile : g # f => a.table[g] = c.table[g]
  <2>1. Handles(c, U) /\ f \in CacheFile /\ charge \in Nat /\ NewUser(c, U, V, n, r) /\ a = Added(c, f, charge, n)
    BY <1>3
  <2>2. WithNew(c, a, V, n, f, charge)
    BY <2>1, AddedKeeps
  <2> QED
    BY <2>2 DEF WithNew
<1>5. a.entry[n].key = f /\ a.entry[n].inCache
  BY <1>4 DEF Fresh
<1>6. a.table[f] = n /\ \A g \in CacheFile : g # f => a.table[g] = c.table[g]
  BY <1>4
<1>7. PICK old : old = c.table[f]
  OBVIOUS
<1>8. PICK s : s = IF old = 0 THEN a ELSE FinishErase(a, old)
  OBVIOUS
<1>9. old # 0 => old \in 1..Len(c.entry) /\ c.entry[old].inCache /\ c.entry[old].key = f
  BY <1>7 DEF TableGood
<1>10. /\ Handles(s, V) /\ Len(s.entry) = n /\ s.table = a.table
       /\ (old # 0 => s.entry[old].key = f /\ ~s.entry[old].inCache)
       /\ \A k \in 1..n : k # old => s.entry[k] = a.entry[k]
  <2>1. CASE old = 0
    BY <1>0, <1>4, <1>8, <2>1
  <2>2. CASE old # 0
    <3>1. old \in 1..Len(a.entry) /\ a.entry[old].inCache /\ a.entry[old].key = f
      BY SMTT(30), <1>0, <1>2, <1>4, <1>9, <2>2
    <3>2. s = FinishErase(a, old)
      BY <1>8, <2>2
    <3> QED
      BY SMTT(30), <1>0, <1>4, <3>1, <3>2, FinishErased
  <2> QED
    BY <2>1, <2>2
<1>11. \A k \in 1..n : s.entry[k].key = a.entry[k].key
  <2>1. \A k \in 1..n : k # old => s.entry[k].key = a.entry[k].key
    BY <1>10
  <2>2. ASSUME old \in 1..n PROVE s.entry[old].key = a.entry[old].key
    <3>1. old # 0
      BY <1>0, <1>2, <2>2
    <3> QED
      BY <1>0, <1>4, <1>9, <1>10, <3>1
  <2> QED
    BY <2>1, <2>2
<1>12. \A k \in 1..n : k \in 1..Len(c.entry) \/ k = n
  BY <1>0, <1>2
<1>13. n # old /\ n \in 1..n /\ n # 0
  BY <1>0, <1>2, <1>9
<1>14. ASSUME NEW g \in CacheFile, s.table[g] # 0
       PROVE  /\ s.table[g] \in 1..Len(s.entry)
              /\ s.entry[s.table[g]].inCache /\ s.entry[s.table[g]].key = g
  <2>1. PICK k : k = s.table[g]
    OBVIOUS
  <2>2. CASE g = f
    <3>1. k = n
      BY <1>0, <1>6, <1>10, <2>1, <2>2
    <3> QED
      BY <1>4, <1>5, <1>10, <1>13, <2>1, <2>2, <3>1
  <2>3. CASE g # f
    <3>1. k = c.table[g] /\ k # 0
      BY <1>0, <1>6, <1>10, <1>14, <2>1, <2>3
    <3>2. k \in 1..Len(c.entry) /\ c.entry[k].inCache /\ c.entry[k].key = g
      BY <3>1 DEF TableGood
    <3>3. k # old
      BY <1>0, <1>9, <2>3, <3>1, <3>2
    <3>4. k \in 1..n
      BY <1>0, <1>2, <3>2
    <3> QED
      BY SMTT(30), <1>0, <1>4, <1>10, <2>1, <3>2, <3>3, <3>4
  <2> QED
    BY <2>2, <2>3
<1>15. ASSUME NEW k \in 1..Len(s.entry), s.entry[k].inCache
       PROVE  s.table[s.entry[k].key] = k
  <2>1. k \in 1..n /\ k # old
    BY <1>0, <1>9, <1>10, <1>15
  <2>2. s.entry[k] = a.entry[k]
    BY <1>0, <1>10, <2>1
  <2>3. CASE k = n
    BY <1>0, <1>5, <1>6, <1>10, <2>2, <2>3
  <2>4. CASE k # n
    <3>1. k \in 1..Len(c.entry) /\ s.entry[k] = c.entry[k] /\ c.entry[k].inCache
      BY <1>0, <1>4, <1>12, <1>15, <2>1, <2>2, <2>4
    <3>2. c.table[c.entry[k].key] = k
      BY <3>1 DEF TableGood
    <3>3. c.entry[k].key \in CacheFile
      BY <1>0, <1>1, <3>1, ValueFacts, HandleFields
    <3>4. c.entry[k].key # f
      BY <1>7, <2>1, <3>2
    <3> QED
      BY <1>0, <1>6, <1>10, <3>1, <3>2, <3>3, <3>4
  <2> QED
    BY <2>3, <2>4
<1>16. TableGood(s)
  BY <1>14, <1>15 DEF TableGood
<1>17. d = Trimmed(s, CacheCapacity)
  <2>1. s = IF c.table[f] = 0
            THEN [c EXCEPT !.entry = Append(@, Fresh(f, charge)), !.usage = @ + charge,
                           !.table[f] = Len(c.entry) + 1]
            ELSE FinishErase([c EXCEPT !.entry = Append(@, Fresh(f, charge)), !.usage = @ + charge,
                                       !.table[f] = Len(c.entry) + 1], c.table[f])
    BY <1>0, <1>3, <1>7, <1>8 DEF Added
  <2> QED
    BY <2>1 DEF Insert, Fresh
<1>18. Keeping(s, d, V)
  BY <1>0, <1>10, <1>16, <1>17, TrimmedKeeps
<1>19. Handles(d, V) /\ TableGood(d) /\ Lasting(s, d) /\ Len(d.entry) = n
  BY <1>0, <1>10, <1>18 DEF Keeping
<1>20. \A k \in 1..n : d.entry[k].key = s.entry[k].key
  BY <1>0, <1>10, <1>19 DEF Lasting
<1>21. d.entry[n].key = f
  BY <1>0, <1>5, <1>11, <1>13, <1>20
<1>22. Lasting(c, d)
  <2>1. \A k \in 1..Len(c.entry) : k \in 1..n
    BY <1>0, <1>2
  <2>2. \A k \in 1..Len(c.entry) : d.entry[k].key = c.entry[k].key
    BY <1>0, <1>4, <1>11, <1>20, <2>1
  <2> QED
    BY <1>0, <1>2, <1>19, <2>2 DEF Lasting
<1> QED
  BY <1>19, <1>21, <1>22 DEF InsertDone

LookupRec == [pc : {"idle", "opening", "using"}, file : CacheFile \cup {NoLookup.file}, handle : Nat]
UsersOf(look) == [h \in Nat |-> {r \in CacheReader : look[r].pc = "using" /\ look[r].handle = h}]

\* A reader uses an entry of the file it wanted.
LookupGood(look, c) ==
    /\ look \in [CacheReader -> LookupRec]
    /\ \A r \in CacheReader :
         /\ look[r].pc = "opening" => look[r].file \in CacheFile
         /\ look[r].pc = "using" => look[r].handle \in 1..Len(c.entry)
                                    /\ c.entry[look[r].handle].key = look[r].file

CacheInv ==
    LookupGood(lookup, Cache) /\ Handles(Cache, UsersOf(lookup)) /\ TableGood(Cache)

\* A reader field by field.
LEMMA LookupFields ==
    ASSUME NEW y, y \in LookupRec
    PROVE  /\ y.pc \in {"idle", "opening", "using"} /\ y.file \in CacheFile \cup {NoLookup.file}
           /\ y.handle \in Nat
BY DEF LookupRec

\* A reader with these fields is one.
LEMMA LookupOf ==
    ASSUME NEW p, p \in {"idle", "opening", "using"}, NEW f, f \in CacheFile \cup {NoLookup.file},
           NEW h, h \in Nat
    PROVE  [pc |-> p, file |-> f, handle |-> h] \in LookupRec
BY DEF LookupRec

\* Whoever uses no entry is one.
LEMMA NoLookupType == NoLookup \in LookupRec /\ NoLookup.pc = "idle"
<1>1. PICK f : f = NoLookup.file
  OBVIOUS
<1>2. NoLookup = [pc |-> "idle", file |-> f, handle |-> 0]
  BY <1>1 DEF NoLookup
<1>3. "idle" \in {"idle", "opening", "using"} /\ f \in CacheFile \cup {NoLookup.file} /\ 0 \in Nat
  BY <1>1
<1>4. [pc |-> "idle", file |-> f, handle |-> 0] \in LookupRec
  BY Zenon, <1>3, LookupOf
<1> QED
  BY <1>2, <1>4

\* r has become y, and uses what y uses.
OnlyHe(look, after, r, y) ==
    /\ \A k \in Nat : UsersOf(after)[k] = (UsersOf(look)[k] \ {r}) \cup
                                           (IF y.pc = "using" /\ y.handle = k THEN {r} ELSE {})
    /\ \A k \in Nat : r \in UsersOf(look)[k] <=> look[r].pc = "using" /\ look[r].handle = k

\* What one reader does changes what it uses, and nothing else.
LEMMA OneLookup ==
    ASSUME NEW look, look \in [CacheReader -> LookupRec], NEW r, r \in CacheReader, NEW y, y \in LookupRec,
           NEW after, after = [look EXCEPT ![r] = y]
    PROVE  OnlyHe(look, after, r, y)
<1>1. /\ after \in [CacheReader -> LookupRec] /\ after[r] = y
      /\ \A q \in CacheReader : q # r => after[q] = look[q]
  OBVIOUS
<1>2. \A x, h \in Nat : UsersOf(x)[h] = {q \in CacheReader : x[q].pc = "using" /\ x[q].handle = h}
  BY DEF UsersOf
<1>3. ASSUME NEW h \in Nat
      PROVE  /\ UsersOf(after)[h] = (UsersOf(look)[h] \ {r}) \cup
                                    (IF y.pc = "using" /\ y.handle = h THEN {r} ELSE {})
             /\ r \in UsersOf(look)[h] <=> look[r].pc = "using" /\ look[r].handle = h
  <2>1. UsersOf(after)[h] = {q \in CacheReader : after[q].pc = "using" /\ after[q].handle = h}
    BY DEF UsersOf
  <2>2. UsersOf(look)[h] = {q \in CacheReader : look[q].pc = "using" /\ look[q].handle = h}
    BY DEF UsersOf
  <2>3. PICK S, T : S = UsersOf(after)[h] /\ T = UsersOf(look)[h]
    OBVIOUS
  <2>4. ASSUME NEW q PROVE q \in S <=> q \in (T \ {r}) \cup (IF y.pc = "using" /\ y.handle = h THEN {r} ELSE {})
    <3>1. CASE q = r
      BY <1>1, <2>1, <2>2, <2>3, <3>1
    <3>2. CASE q # r
      BY <1>1, <2>1, <2>2, <2>3, <3>2
    <3> QED
      BY <3>1, <3>2
  <2>5. S = (T \ {r}) \cup (IF y.pc = "using" /\ y.handle = h THEN {r} ELSE {})
    BY <2>4
  <2> QED
    BY <2>2, <2>3, <2>5
<1> QED
  BY <1>3 DEF OnlyHe

\* What stays what it is for serves the readers as before.
LEMMA LastingServes ==
    ASSUME NEW look, NEW c, NEW d, c \in CacheValue, d \in CacheValue, LookupGood(look, c), Lasting(c, d)
    PROVE  LookupGood(look, d)
<1>1. Len(c.entry) \in Nat /\ Len(d.entry) \in Nat
  BY ValueFacts
<1>2. Len(c.entry) <= Len(d.entry) /\ \A h \in 1..Len(c.entry) : d.entry[h].key = c.entry[h].key
  BY DEF Lasting
<1>3. \A h \in 1..Len(c.entry) : h \in 1..Len(d.entry)
  BY <1>1, <1>2
<1>4. /\ look \in [CacheReader -> LookupRec]
      /\ \A r \in CacheReader :
           /\ look[r].pc = "opening" => look[r].file \in CacheFile
           /\ look[r].pc = "using" => look[r].handle \in 1..Len(c.entry)
                                      /\ c.entry[look[r].handle].key = look[r].file
  BY DEF LookupGood
<1>5. \A r \in CacheReader : look[r].pc = "using" => look[r].handle \in 1..Len(d.entry)
                                                    /\ d.entry[look[r].handle].key = look[r].file
  BY <1>2, <1>3, <1>4
<1> QED
  BY <1>4, <1>5 DEF LookupGood

\* One reader more, or one less.
LEMMA OneServed ==
    ASSUME NEW look, NEW c, LookupGood(look, c), NEW r, r \in CacheReader, NEW y, y \in LookupRec,
           y.pc = "opening" => y.file \in CacheFile,
           y.pc = "using" => y.handle \in 1..Len(c.entry) /\ c.entry[y.handle].key = y.file,
           NEW after, after = [look EXCEPT ![r] = y]
    PROVE  LookupGood(after, c)
<1>1. look \in [CacheReader -> LookupRec]
  BY DEF LookupGood
<1>2. /\ after \in [CacheReader -> LookupRec] /\ after[r] = y
      /\ \A q \in CacheReader : q # r => after[q] = look[q]
  BY <1>1
<1>3. ASSUME NEW q \in CacheReader
      PROVE  /\ after[q].pc = "opening" => after[q].file \in CacheFile
             /\ after[q].pc = "using" => after[q].handle \in 1..Len(c.entry)
                                         /\ c.entry[after[q].handle].key = after[q].file
  <2>1. CASE q = r
    BY <1>2, <2>1
  <2>2. CASE q # r
    BY <1>2, <2>2 DEF LookupGood
  <2> QED
    BY <2>1, <2>2
<1> QED
  BY <1>2, <1>3 DEF LookupGood

\* The cache after a step.
LEMMA BecomesThat ==
    ASSUME NEW d, d \in CacheValue, Becomes(d)
    PROVE  Cache' = d
<1>1. d = [entry |-> d.entry, table |-> d.table, lru |-> d.lru, usage |-> d.usage]
  BY DEF CacheValue
<1>2. Cache' = [entry |-> entry', table |-> table', lru |-> lru', usage |-> usage']
  BY DEF Cache
<1> QED
  BY <1>1, <1>2 DEF Becomes

\* Nobody uses anything yet.
LEMMA CacheStarts ==
    ASSUME CacheAssumption, CacheInit
    PROVE  CacheInv
<1>1. /\ entry = << >> /\ lru = << >> /\ usage = 0 /\ table = [f \in CacheFile |-> 0]
      /\ lookup = [r \in CacheReader |-> NoLookup]
  BY DEF CacheInit
<1>2. PICK n : n = NoLookup
  OBVIOUS
<1>3. n \in LookupRec /\ n.pc = "idle"
  BY <1>2, NoLookupType
<1>4. lookup \in [CacheReader -> LookupRec] /\ \A r \in CacheReader : lookup[r].pc = "idle"
  BY <1>1, <1>2, <1>3
<1>5. /\ Cache.entry = << >> /\ Cache.lru = << >> /\ Cache.usage = 0 /\ Cache.table = table
      /\ Cache \in CacheValue
  BY <1>1 DEF Cache, CacheValue
<1>6. Len(Cache.entry) = 0 /\ 1..Len(Cache.entry) = {}
  BY <1>5
<1>7. LookupGood(lookup, Cache)
  BY <1>4 DEF LookupGood
<1>8. TableGood(Cache)
  BY <1>1, <1>5, <1>6 DEF TableGood
<1>9. Handles(Cache, UsersOf(lookup))
  <2>1. IsInjective(Cache.lru) /\ \A h : h \notin ToSet(Cache.lru)
    BY <1>5 DEF IsInjective, ToSet
  <2>2. Total(Parts(Cache), Len(Cache.entry), Cache.usage)
    <3> DEFINE s == [k \in 0..0 |-> 0]
    <3>1. Sums(s, Parts(Cache), 0) /\ s[0] = 0
      BY DEF Sums
    <3> HIDE DEF s
    <3>2. Total(Parts(Cache), 0, 0)
      BY <3>1 DEF Total
    <3> QED
      BY <1>5, <1>6, <3>2
  <2> QED
    BY <1>5, <1>6, <2>1, <2>2 DEF Handles
<1> QED
  BY <1>7, <1>8, <1>9 DEF CacheInv

\* What TablesKept says follows.
LEMMA CacheInvKeeps ==
    ASSUME CacheInv
    PROVE  TablesKept
<1>1. /\ Cache.entry = entry /\ Cache.table = table /\ Cache.lru = lru /\ Cache.usage = usage
  BY DEF Cache
<1>2. /\ Cache \in CacheValue /\ IsInjective(lru)
      /\ \A h \in 1..Len(entry) : Counts(entry[h], UsersOf(lookup)[h])
      /\ \A h : h \in ToSet(lru) <=> h \in 1..Len(entry) /\ entry[h].inCache /\ UsersOf(lookup)[h] = {}
      /\ Total(Parts(Cache), Len(entry), usage)
  BY <1>1 DEF CacheInv, Handles
<1>3. entry \in Seq(HandleRec) /\ Len(entry) \in Nat /\ Made = 1..Len(entry)
  BY <1>1, <1>2, ValueFacts DEF Made
<1>4. ASSUME NEW h \in 1..Len(entry) PROVE UsersOf(lookup)[h] = Users(h)
  <2>1. h \in Nat
    BY <1>3
  <2> QED
    BY <2>1 DEF UsersOf, Users
<1>5. ASSUME NEW h \in 1..Len(entry) PROVE entry[h].inCache <=> InTable(h)
  <2>1. ASSUME entry[h].inCache PROVE InTable(h)
    BY <1>1, <2>1 DEF CacheInv, TableGood, InTable
  <2>2. ASSUME InTable(h) PROVE entry[h].inCache
    <3>1. PICK f : f = entry[h].key
      OBVIOUS
    <3>2. f \in CacheFile
      BY <1>3, <3>1, HandleFields
    <3>3. table[f] = h /\ h # 0
      BY <1>3, <2>2, <3>1 DEF InTable
    <3> QED
      BY <1>1, <3>2, <3>3 DEF CacheInv, TableGood
  <2> QED
    BY <2>1, <2>2
<1>6. \A h \in Made : entry[h].freed <=> Users(h) = {} /\ ~InTable(h)
  BY <1>2, <1>3, <1>4, <1>5 DEF Counts
<1>7. usage = Charged
  <2>1. \A k \in 1..Len(entry) : Parts(Cache)[k] = IF InTable(k) THEN entry[k].charge ELSE 0
    BY <1>1, <1>5 DEF Parts, Part
  <2> QED
    BY <1>2, <1>3, <2>1, ChargedIsTotal
<1>8. ToSet(lru) = {h \in Made : InTable(h) /\ Users(h) = {}}
  BY <1>2, <1>3, <1>4, <1>5
<1>9. \A r \in CacheReader :
        lookup[r].pc = "using" => entry[lookup[r].handle].key = lookup[r].file
  BY <1>1 DEF CacheInv, LookupGood
<1> QED
  BY <1>2, <1>6, <1>7, <1>8, <1>9 DEF TablesKept

\* A step that leaves a good cache and its readers.
LEMMA GoodAfter ==
    ASSUME NEW d, Becomes(d), LookupGood(lookup', d), Handles(d, UsersOf(lookup')), TableGood(d)
    PROVE  CacheInv'
<1>1. d \in CacheValue
  BY DEF Handles
<1>2. Cache' = d
  BY <1>1, BecomesThat
<1>3. LookupGood(lookup', Cache') /\ Handles(Cache', UsersOf(lookup')) /\ TableGood(Cache')
  BY <1>2
<1> QED
  BY <1>3 DEF CacheInv, LookupGood, Handles, TableGood, UsersOf, Counts, Total, Parts, CacheValue

\* A step that leaves the cache.
LEMMA SameCache ==
    ASSUME UNCHANGED <<entry, table, lru, usage>>
    PROVE  Becomes(Cache)
BY DEF Becomes, Cache

\* A reader finds the table, or sets out to open it.
LEMMA FindKeeps ==
    ASSUME CacheAssumption, CacheInv, NEW r \in CacheReader, NEW f \in CacheFile, FindTable(r, f)
    PROVE  CacheInv'
<1>1. PICK c, look, U, V, after : c = Cache /\ look = lookup /\ U = UsersOf(lookup) /\ after = lookup'
                                  /\ V = UsersOf(lookup')
  OBVIOUS
<1>2. LookupGood(look, c) /\ Handles(c, U) /\ TableGood(c) /\ look \in [CacheReader -> LookupRec]
  BY <1>1 DEF CacheInv, LookupGood
<1>3. c \in CacheValue /\ Len(c.entry) \in Nat /\ c.table \in [CacheFile -> Nat]
  <2>1. c \in CacheValue
    BY <1>2 DEF Handles
  <2> QED
    BY <2>1, ValueFacts
<1>4. look[r].pc = "idle" /\ c.table = table
  BY <1>1 DEF FindTable, Cache
<1>5. CASE table[f] # 0
  <2>1. PICK h : h = table[f]
    OBVIOUS
  <2>2. h \in 1..Len(c.entry) /\ c.entry[h].inCache /\ c.entry[h].key = f /\ h \in Nat
    BY <1>2, <1>3, <1>4, <1>5, <2>1 DEF TableGood
  <2>3. PICK y : y = [pc |-> "using", file |-> f, handle |-> h]
    OBVIOUS
  <2>4. y \in LookupRec /\ y.pc = "using" /\ y.file = f /\ y.handle = h
    BY <2>2, <2>3 DEF LookupRec
  <2>5. after = [look EXCEPT ![r] = y]
    BY <1>1, <1>5, <2>1, <2>3 DEF FindTable
  <2>6. Becomes(Ref(c, h))
    BY <1>1, <1>5, <2>1 DEF FindTable
  <2>7. /\ \A k \in Nat : UsersOf(after)[k] = (UsersOf(look)[k] \ {r}) \cup
                                               (IF y.pc = "using" /\ y.handle = k THEN {r} ELSE {})
        /\ \A k \in Nat : r \in UsersOf(look)[k] <=> look[r].pc = "using" /\ look[r].handle = k
    <3>1. OnlyHe(look, after, r, y)
      BY <1>2, <2>4, <2>5, OneLookup
    <3> QED
      BY <3>1 DEF OnlyHe
  <2>8. r \notin U[h] /\ V[h] = U[h] \cup {r} /\ \A k \in 1..Len(c.entry) : k # h => V[k] = U[k]
    <3>1. \A k \in Nat : r \notin U[k] /\ V[k] = U[k] \cup (IF h = k THEN {r} ELSE {})
      <4>1. ASSUME NEW k \in Nat PROVE r \notin U[k] /\ V[k] = U[k] \cup (IF h = k THEN {r} ELSE {})
        <5>1. V[k] = (U[k] \ {r}) \cup (IF h = k THEN {r} ELSE {}) /\ r \notin U[k]
          BY <1>1, <1>4, <2>4, <2>7
        <5> QED
          BY <5>1
      <4> QED
        BY <4>1
    <3>2. \A k \in 1..Len(c.entry) : k \in Nat
      OBVIOUS
    <3> QED
      BY <2>2, <3>1, <3>2
  <2>9. PICK d : d = Ref(c, h)
    OBVIOUS
  <2>10. Handles(d, V) /\ TableGood(d) /\ Lasting(c, d)
    BY <1>2, <2>2, <2>8, <2>9, RefKeeps
  <2>11. LookupGood(after, c)
    BY <1>2, <2>2, <2>4, <2>5, OneServed
  <2>12. LookupGood(after, d)
    <3>1. d \in CacheValue
      BY <2>10 DEF Handles
    <3> QED
      BY <1>3, <2>10, <2>11, <3>1, LastingServes
  <2> QED
    BY <1>1, <2>6, <2>9, <2>10, <2>12, GoodAfter
<1>6. CASE table[f] = 0
  <2>1. PICK y : y = [pc |-> "opening", file |-> f, handle |-> 0]
    OBVIOUS
  <2>2. y \in LookupRec /\ y.pc = "opening" /\ y.file = f
    BY <2>1 DEF LookupRec
  <2>3. after = [look EXCEPT ![r] = y]
    BY <1>1, <1>6, <2>1 DEF FindTable
  <2>4. Becomes(c)
    BY <1>1, <1>6, SameCache DEF FindTable
  <2>5. /\ \A k \in Nat : UsersOf(after)[k] = (UsersOf(look)[k] \ {r}) \cup
                                               (IF y.pc = "using" /\ y.handle = k THEN {r} ELSE {})
        /\ \A k \in Nat : r \in UsersOf(look)[k] <=> look[r].pc = "using" /\ look[r].handle = k
    <3>1. OnlyHe(look, after, r, y)
      BY <1>2, <2>2, <2>3, OneLookup
    <3> QED
      BY <3>1 DEF OnlyHe
  <2>6. V = U
    <3>1. ASSUME NEW k \in Nat PROVE V[k] = U[k]
      <4>1. V[k] = (U[k] \ {r}) \cup {} /\ r \notin U[k]
        BY <1>1, <1>4, <2>2, <2>5
      <4> QED
        BY <4>1
    <3> QED
      BY <1>1, <3>1 DEF UsersOf
  <2>7. LookupGood(after, c)
    BY <1>2, <2>2, <2>3, OneServed
  <2> QED
    BY <1>1, <1>2, <2>4, <2>6, <2>7, GoodAfter
<1> QED
  BY <1>5, <1>6

\* A reader that uses nothing forgets what it wanted.
LEMMA FailKeeps ==
    ASSUME CacheAssumption, CacheInv, NEW r \in CacheReader, OpenFails(r)
    PROVE  CacheInv'
<1>1. PICK c, look, U, V, after, y : c = Cache /\ look = lookup /\ U = UsersOf(lookup) /\ after = lookup'
                                  /\ V = UsersOf(lookup') /\ y = NoLookup
  OBVIOUS
<1>2. LookupGood(look, c) /\ Handles(c, U) /\ TableGood(c) /\ look \in [CacheReader -> LookupRec]
  BY <1>1 DEF CacheInv, LookupGood
<1>3. look[r].pc = "opening" /\ after = [look EXCEPT ![r] = y] /\ Becomes(c)
  BY <1>1, SameCache DEF OpenFails
<1>4. y \in LookupRec /\ y.pc = "idle"
  BY <1>1, NoLookupType
<1>5. /\ \A k \in Nat : UsersOf(after)[k] = (UsersOf(look)[k] \ {r}) \cup
                                             (IF y.pc = "using" /\ y.handle = k THEN {r} ELSE {})
      /\ \A k \in Nat : r \in UsersOf(look)[k] <=> look[r].pc = "using" /\ look[r].handle = k
  <2>1. OnlyHe(look, after, r, y)
    BY <1>2, <1>3, <1>4, OneLookup
  <2> QED
    BY <2>1 DEF OnlyHe
<1>6. V = U
  <2>1. ASSUME NEW k \in Nat PROVE V[k] = U[k]
    <3>1. V[k] = (U[k] \ {r}) \cup {} /\ r \notin U[k]
      BY <1>1, <1>3, <1>4, <1>5
    <3> QED
      BY <3>1
  <2> QED
    BY <1>1, <2>1 DEF UsersOf
<1>7. LookupGood(after, c)
  BY <1>2, <1>3, <1>4, OneServed
<1> QED
  BY <1>1, <1>2, <1>3, <1>6, <1>7, GoodAfter

\* A reader lets its entry go.
LEMMA ReleaseKeeps ==
    ASSUME CacheAssumption, CacheInv, NEW r \in CacheReader, ReleaseTable(r)
    PROVE  CacheInv'
<1>1. PICK c, look, U, V, after, y : c = Cache /\ look = lookup /\ U = UsersOf(lookup) /\ after = lookup'
                                  /\ V = UsersOf(lookup') /\ y = NoLookup
  OBVIOUS
<1>2. LookupGood(look, c) /\ Handles(c, U) /\ TableGood(c) /\ look \in [CacheReader -> LookupRec]
  BY <1>1 DEF CacheInv, LookupGood
<1>3. PICK h : h = look[r].handle
  OBVIOUS
<1>4. look[r].pc = "using" /\ after = [look EXCEPT ![r] = y] /\ Becomes(Unref(c, h))
  BY <1>1, <1>3 DEF ReleaseTable
<1>5. c \in CacheValue /\ Len(c.entry) \in Nat
  <2>1. c \in CacheValue
    BY <1>2 DEF Handles
  <2> QED
    BY <2>1, ValueFacts
<1>6. h \in 1..Len(c.entry) /\ h \in Nat
  BY <1>2, <1>3, <1>4, <1>5 DEF LookupGood
<1>7. y \in LookupRec /\ y.pc = "idle"
  BY <1>1, NoLookupType
<1>8. /\ \A k \in Nat : UsersOf(after)[k] = (UsersOf(look)[k] \ {r}) \cup
                                             (IF y.pc = "using" /\ y.handle = k THEN {r} ELSE {})
      /\ \A k \in Nat : r \in UsersOf(look)[k] <=> look[r].pc = "using" /\ look[r].handle = k
  <2>1. OnlyHe(look, after, r, y)
    BY <1>2, <1>4, <1>7, OneLookup
  <2> QED
    BY <2>1 DEF OnlyHe
<1>9. \A k \in Nat : V[k] = U[k] \ {r} /\ (r \in U[k] <=> k = h)
  <2>1. ASSUME NEW k \in Nat PROVE V[k] = U[k] \ {r} /\ (r \in U[k] <=> k = h)
    <3>1. V[k] = (U[k] \ {r}) \cup {} /\ (r \in U[k] <=> h = k)
      BY <1>1, <1>3, <1>4, <1>7, <1>8
    <3> QED
      BY <3>1
  <2> QED
    BY <2>1
<1>10. r \in U[h] /\ V[h] = U[h] \ {r} /\ \A k \in 1..Len(c.entry) : k # h => V[k] = U[k]
  <2>1. ASSUME NEW k \in 1..Len(c.entry), k # h PROVE V[k] = U[k]
    <3>1. V[k] = U[k] \ {r} /\ r \notin U[k]
      BY <1>9, <2>1
    <3> QED
      BY <3>1
  <2> QED
    BY <1>6, <1>9, <2>1
<1>11. PICK d : d = Unref(c, h)
  OBVIOUS
<1>12. Handles(d, V) /\ TableGood(d) /\ Lasting(c, d)
  BY <1>2, <1>6, <1>10, <1>11, UnrefKeeps
<1>13. LookupGood(after, c)
  BY <1>2, <1>4, <1>7, OneServed
<1>14. LookupGood(after, d)
  <2>1. d \in CacheValue
    BY <1>12 DEF Handles
  <2> QED
    BY <1>5, <1>12, <1>13, <2>1, LastingServes
<1> QED
  BY <1>1, <1>4, <1>11, <1>12, <1>14, GoodAfter

\* A reader's table goes into the cache, whether one was there or not.
LEMMA OpenKeeps ==
    ASSUME CacheAssumption, CacheInv, NEW r \in CacheReader, NEW charge \in CacheCharge, OpenTable(r, charge)
    PROVE  CacheInv'
<1>1. PICK c, look, U, V, after : c = Cache /\ look = lookup /\ U = UsersOf(lookup) /\ after = lookup'
                                  /\ V = UsersOf(lookup')
  OBVIOUS
<1>2. LookupGood(look, c) /\ Handles(c, U) /\ TableGood(c) /\ look \in [CacheReader -> LookupRec]
  BY <1>1 DEF CacheInv, LookupGood
<1>3. c \in CacheValue /\ Len(c.entry) \in Nat
  <2>1. c \in CacheValue
    BY <1>2 DEF Handles
  <2> QED
    BY <2>1, ValueFacts
<1>4. PICK f, n : f = look[r].file /\ n = Len(c.entry) + 1
  OBVIOUS
<1>5. look[r].pc = "opening" /\ f \in CacheFile /\ n \in Nat /\ charge \in Nat
  BY <1>1, <1>2, <1>3, <1>4 DEF OpenTable, LookupGood, CacheAssumption
<1>6. Becomes(Insert(c, f, charge))
  BY <1>1, <1>4 DEF OpenTable
<1>7. PICK y : y = [pc |-> "using", file |-> f, handle |-> n]
  OBVIOUS
<1>8. y \in LookupRec /\ y.pc = "using" /\ y.file = f /\ y.handle = n
  BY <1>5, <1>7 DEF LookupRec
<1>9. after = [look EXCEPT ![r] = y]
  <2>1. after = [look EXCEPT ![r].pc = "using", ![r].handle = n]
    BY <1>1, <1>4 DEF OpenTable, Cache
  <2>2. PICK x : x = look[r]
    OBVIOUS
  <2>3. x \in LookupRec
    BY <1>2, <2>2
  <2>4. [x EXCEPT !.pc = "using"] = [pc |-> "using", file |-> x.file, handle |-> x.handle]
    BY <2>3 DEF LookupRec
  <2>5. PICK z : z = [x EXCEPT !.pc = "using"]
    OBVIOUS
  <2>6. z = [pc |-> "using", file |-> x.file, handle |-> x.handle]
    BY <2>4, <2>5
  <2>7. [z EXCEPT !.handle = n] = y
    BY <1>4, <1>7, <2>2, <2>6
  <2>8. after = [look EXCEPT ![r] = [z EXCEPT !.handle = n]]
    BY <1>2, <2>1, <2>2, <2>5
  <2> QED
    BY <2>7, <2>8
<1>10. /\ \A k \in Nat : UsersOf(after)[k] = (UsersOf(look)[k] \ {r}) \cup
                                              (IF y.pc = "using" /\ y.handle = k THEN {r} ELSE {})
       /\ \A k \in Nat : r \in UsersOf(look)[k] <=> look[r].pc = "using" /\ look[r].handle = k
  <2>1. OnlyHe(look, after, r, y)
    BY <1>2, <1>8, <1>9, OneLookup
  <2> QED
    BY <2>1 DEF OnlyHe
<1>11. \A k \in Nat : V[k] = U[k] \cup (IF n = k THEN {r} ELSE {})
  <2>1. ASSUME NEW k \in Nat PROVE V[k] = U[k] \cup (IF n = k THEN {r} ELSE {})
    <3>1. V[k] = (U[k] \ {r}) \cup (IF n = k THEN {r} ELSE {}) /\ r \notin U[k]
      BY <1>1, <1>5, <1>8, <1>10
    <3> QED
      BY <3>1
  <2> QED
    BY <2>1
<1>12. U[n] = {}
  <2>1. U[n] = {q \in CacheReader : look[q].pc = "using" /\ look[q].handle = n}
    BY <1>1, <1>5 DEF UsersOf
  <2>2. n \notin 1..Len(c.entry)
    BY <1>3, <1>4
  <2>3. \A q \in CacheReader : look[q].pc = "using" => look[q].handle # n
    BY <1>2, <2>2 DEF LookupGood
  <2> QED
    BY <2>1, <2>3
<1>13. NewUser(c, U, V, n, r)
  <2>1. V[n] = {r}
    BY <1>5, <1>11, <1>12
  <2>2. \A k \in 1..Len(c.entry) : k \in Nat /\ k # n
    BY <1>3, <1>4
  <2>3. ASSUME NEW k \in 1..Len(c.entry) PROVE V[k] = U[k]
    <3>1. V[k] = U[k] \cup {}
      BY <1>11, <2>2
    <3> QED
      BY <3>1
  <2> QED
    BY <1>4, <2>1, <2>3 DEF NewUser
<1>14. PICK d : d = Insert(c, f, charge)
  OBVIOUS
<1>15. /\ Handles(d, V) /\ TableGood(d) /\ Lasting(c, d)
       /\ Len(d.entry) = n /\ d.entry[n].key = f
  <2>1. InsertDone(c, d, V, n, f)
    BY <1>2, <1>5, <1>13, <1>14, InsertKeeps
  <2> QED
    BY <2>1 DEF InsertDone
<1>16. d \in CacheValue
  BY <1>15 DEF Handles
<1>17. LookupGood(look, d)
  BY <1>2, <1>3, <1>15, <1>16, LastingServes
<1>18. LookupGood(after, d)
  <2>1. n \in 1..Len(d.entry)
    BY <1>3, <1>4, <1>15
  <2> QED
    BY <1>8, <1>9, <1>15, <1>17, <2>1, OneServed
<1> QED
  BY <1>1, <1>6, <1>14, <1>15, <1>18, GoodAfter

\* What the cache does for no reader.
LEMMA ShrinkKeeps ==
    ASSUME CacheAssumption, CacheInv, (\E f \in CacheFile : Evict(f)) \/ Prune
    PROVE  CacheInv'
<1>1. PICK c, U : c = Cache /\ U = UsersOf(lookup)
  OBVIOUS
<1>2. LookupGood(lookup, c) /\ Handles(c, U) /\ TableGood(c)
  BY <1>1 DEF CacheInv
<1>3. PICK d : Becomes(d) /\ lookup' = lookup /\ Handles(d, U) /\ TableGood(d) /\ Lasting(c, d)
  <2>1. CASE \E f \in CacheFile : Evict(f)
    <3>1. PICK f \in CacheFile : Evict(f)
      BY <2>1
    <3>2. PICK d : d = EraseKey(c, f)
      OBVIOUS
    <3>3. Becomes(d) /\ lookup' = lookup
      BY <1>1, <3>1, <3>2 DEF Evict
    <3>4. Handles(d, U) /\ TableGood(d) /\ Lasting(c, d)
      BY <1>2, <3>2, EraseKeeps
    <3> QED
      BY <3>3, <3>4
  <2>2. CASE Prune
    <3>1. PICK d : d = Trimmed(c, -1)
      OBVIOUS
    <3>2. Becomes(d) /\ lookup' = lookup
      BY <1>1, <2>2, <3>1 DEF Prune
    <3>3. Keeping(c, d, U)
      BY <1>2, <3>1, TrimmedKeeps
    <3> QED
      BY <3>2, <3>3 DEF Keeping
  <2> QED
    BY <2>1, <2>2
<1>4. LookupGood(lookup', d)
  <2>1. c \in CacheValue /\ d \in CacheValue
    BY <1>2, <1>3 DEF Handles
  <2> QED
    BY <1>2, <1>3, <2>1, LastingServes
<1>5. Handles(d, UsersOf(lookup'))
  BY <1>1, <1>3
<1> QED
  BY <1>3, <1>4, <1>5, GoodAfter

\* Every table opened is freed when, and only when, its last reader is done
\* and the cache has let go of it; the cache counts the charge of the
\* tables it can find and lists those it may drop: whatever is opened
\* twice, evicted in use or over the capacity.
THEOREM TablesAlwaysKept == CacheSpec => []TablesKept
<1>1. CacheInit => CacheInv
  BY CacheStarts, CacheAssumption
<1>2. CacheInv /\ [CacheNext]_cacheVars => CacheInv'
  <2> SUFFICES ASSUME CacheInv, [CacheNext]_cacheVars PROVE CacheInv'
    OBVIOUS
  <2>1. CASE UNCHANGED cacheVars
    <3>1. Becomes(Cache) /\ lookup' = lookup
      BY <2>1 DEF cacheVars, Becomes, Cache
    <3>2. LookupGood(lookup', Cache) /\ Handles(Cache, UsersOf(lookup')) /\ TableGood(Cache)
      BY <3>1 DEF CacheInv
    <3>3. PICK c : c = Cache
      OBVIOUS
    <3> QED
      BY <3>1, <3>2, <3>3, GoodAfter
  <2>2. ASSUME NEW r \in CacheReader, NEW f \in CacheFile, FindTable(r, f) PROVE CacheInv'
    BY <2>2, FindKeeps, CacheAssumption
  <2>3. ASSUME NEW r \in CacheReader, NEW charge \in CacheCharge, OpenTable(r, charge) PROVE CacheInv'
    BY <2>3, OpenKeeps, CacheAssumption
  <2>4. ASSUME NEW r \in CacheReader, OpenFails(r) \/ ReleaseTable(r) PROVE CacheInv'
    BY <2>4, FailKeeps, ReleaseKeeps, CacheAssumption
  <2> QED
    BY <2>1, <2>2, <2>3, <2>4, ShrinkKeeps, CacheAssumption DEF CacheNext
<1>3. CacheInv => TablesKept
  BY CacheInvKeeps
<1> QED
  BY <1>1, <1>2, <1>3, PTL DEF CacheSpec

=============================================================================
